------------------------------ MODULE SyncProofs ------------------------------
(***************************************************************************)
(* Theorems about IntelligenceSync, for any number of records, of syncs    *)
(* that overlap, and of revisions, and for every fault.                    *)
(***************************************************************************)
EXTENDS IntelligenceSync, TLAPS

-----------------------------------------------------------------------------
(* The inductive invariant.  A sync covers a record that was last stamped   *)
(* before the sync began: the record is stored as it is, or its source is   *)
(* still to be listed and it is in the window, or it is in the batch that   *)
(* is about to be stored.  What is stamped later is left to the next sync,  *)
(* whose window begins where this one began.                                *)

PhaseOf(r) == IF kind[r] = "document" THEN 1 ELSE IF kind[r] = "release" THEN 2 ELSE 3

\* The stored text is what GitHub has; of a release, any text.
Current(r) == IF kind[r] = "release" THEN Stored(r) ELSE rows[r].rev = hub[r].rev

InHand(s, r) ==
  IF kind[r] = "release" THEN sync[s].batch[r] # 0 ELSE sync[s].batch[r] = hub[r].rev

Working(s) == sync[s].pc # "idle" /\ sync[s].result # "failed"

Owes(s, r) ==
  Working(s) /\ hub[r].there /\ hub[r].at < sync[s].at /\ r \notin missed

Awaits(s, r) ==
  /\ sync[s].pc \in {"list", "store"}
  /\ sync[s].phase < PhaseOf(r) \/ (sync[s].phase = PhaseOf(r) /\ sync[s].pc = "list")

Storing(s, r) == sync[s].pc = "store" /\ sync[s].phase = PhaseOf(r)

Covers(s, r) ==
  \/ Current(r)
  \/ Awaits(s, r) /\ InWindow(s, r)
  \/ Storing(s, r) /\ InHand(s, r)

\* No stamp, cursor or start is later than the clock, and no listed revision is newer
\* than GitHub's.
Ordered ==
  /\ cursor <= clock
  /\ \A r \in Evidence : hub[r].at <= clock
  /\ \A s \in Syncs : sync[s].at <= clock
  /\ \A s \in Syncs, r \in Evidence : sync[s].batch[r] <= hub[r].rev

MissingOnce == \A r \in Evidence : rows[r].active => rows[r].missing <= 1

Covered == \A s \in Syncs, r \in Evidence : Owes(s, r) => Covers(s, r)

SyncInv ==
  /\ SyncTypeOK
  /\ Ordered
  /\ MissingOnce
  /\ IndexFollowsRows
  /\ CursorPassesNoUpdate
  /\ Covered

-----------------------------------------------------------------------------
(* The operators of the executions.                                         *)

LEMMA KindIsPhase ==
  ASSUME SyncTypeOK, NEW r \in Evidence, NEW p \in 1..4
  PROVE  /\ kind[r] = Sources[p] <=> p = PhaseOf(r)
         /\ PhaseOf(r) \in 1..3
<1>1. kind[r] \in {"document", "release", "issue"}
  BY DEF SyncTypeOK
<1>2. p = 1 \/ p = 2 \/ p = 3 \/ p = 4
  OBVIOUS
<1>3. /\ Sources[1] = "document" /\ Sources[2] = "release"
      /\ Sources[3] = "issue" /\ Sources[4] = "comment"
  BY DEF Sources
<1> QED
  BY <1>1, <1>2, <1>3 DEF PhaseOf

\* The next source of an execution, and what the step leaves alone.
LEMMA AfterSourceIs ==
  ASSUME NEW v \in Execution, NEW listed \in BOOLEAN
  PROVE  /\ AfterSource(v, listed) \in Execution
         /\ AfterSource(v, listed).since = v.since
         /\ AfterSource(v, listed).at = v.at
         /\ AfterSource(v, listed).batch = v.batch
         /\ AfterSource(v, listed).seen = v.seen
         /\ AfterSource(v, listed).result = v.result
         /\ \/ /\ AfterSource(v, listed).pc = "missing"
               /\ v.phase = 4 \/ (v.phase = 3 /\ ~listed)
            \/ /\ AfterSource(v, listed).pc = "list"
               /\ AfterSource(v, listed).phase = v.phase + 1
<1>1. CASE v.phase = 4 \/ (v.phase = 3 /\ ~listed)
  <2>1. AfterSource(v, listed) = [v EXCEPT !.pc = "missing"]
    BY <1>1 DEF AfterSource
  <2> QED
    BY <1>1, <2>1 DEF Execution
<1>2. CASE ~(v.phase = 4 \/ (v.phase = 3 /\ ~listed))
  <2>1. AfterSource(v, listed) = [v EXCEPT !.pc = "list", !.phase = @ + 1]
    BY <1>2 DEF AfterSource
  <2>2. v.phase \in 1..3 /\ v.phase + 1 \in 1..4
    BY <1>2 DEF Execution
  <2> QED
    BY <2>1, <2>2 DEF Execution
<1> QED
  BY <1>1, <1>2

\* The same after a listing that did not fail.
LEMMA AfterListingIs ==
  ASSUME NEW v \in Execution, NEW value, value = AfterSource(v, TRUE)
  PROVE  /\ value \in Execution /\ value.since = v.since /\ value.at = v.at
         /\ value.batch = v.batch /\ value.seen = v.seen /\ value.result = v.result
         /\ \/ value.pc = "missing" /\ v.phase = 4
            \/ value.pc = "list" /\ value.phase = v.phase + 1
<1>1. CASE v.phase = 4
  <2>1. value = [v EXCEPT !.pc = "missing"]
    BY <1>1 DEF AfterSource
  <2> QED
    BY <1>1, <2>1 DEF Execution
<1>2. CASE v.phase # 4
  <2>1. value = [v EXCEPT !.pc = "list", !.phase = v.phase + 1]
    BY <1>2 DEF AfterSource
  <2>2. v.phase \in 1..3 /\ v.phase + 1 \in 1..4
    BY <1>2 DEF Execution
  <2> QED
    BY <2>1, <2>2 DEF Execution
<1> QED
  BY <1>1, <1>2

\* An execution that starts again.
LEMMA IdleSyncIs ==
  ASSUME SyncAssumption
  PROVE  IdleSync \in Execution /\ IdleSync.pc = "idle" /\ IdleSync.at = 0
         /\ \A r \in Evidence : IdleSync.batch[r] = 0
BY DEF SyncAssumption, IdleSync, Execution, NoRevision, Revision

\* What a step of one execution leaves of the others.
LEMMA SyncSetsIs ==
  ASSUME SyncTypeOK, NEW s \in Syncs, NEW value \in Execution, SyncSets(s, value)
  PROVE  /\ sync' \in [Syncs -> Execution]
         /\ sync'[s] = value
         /\ \A q \in Syncs : q # s => sync'[q] = sync[q]
BY DEF SyncTypeOK, SyncSets

\* A sync that does not move, while a record and its row stay as they are.
LEMMA CoversStays ==
  ASSUME NEW s \in Syncs, NEW r \in Evidence, sync'[s] = sync[s],
         kind' = kind, hub'[r] = hub[r], rows'[r].rev = rows[r].rev, Covers(s, r)
  PROVE  Covers(s, r)'
BY DEF Covers, Current, Stored, Awaits, InWindow, Storing, InHand, PhaseOf

\* The record of a sync that does not move stays covered by a step that leaves GitHub
\* and the stored text alone.
LEMMA QuietCovered ==
  ASSUME SyncInv, NEW q \in Syncs, NEW r \in Evidence, sync'[q] = sync[q],
         kind' = kind, hub' = hub, rows'[r].rev = rows[r].rev, missed \subseteq missed',
         Owes(q, r)'
  PROVE  Covers(q, r)'
<1>1. Owes(q, r)
  BY DEF Owes, Working
<1> QED
  BY <1>1, CoversStays DEF SyncInv, Covered

-----------------------------------------------------------------------------
(* GitHub and the clock.                                                    *)

LEMMA InitEstablishes == SyncInit => SyncInv
<1> SUFFICES ASSUME SyncInit PROVE SyncInv
  OBVIOUS
<1> USE SyncAssumption DEF SyncInit, SyncAssumption
<1>1. SyncTypeOK
  BY IdleSyncIs DEF SyncTypeOK, Revision
<1>2. Ordered
  BY IdleSyncIs DEF Ordered
<1>3. MissingOnce /\ IndexFollowsRows /\ CursorPassesNoUpdate
  BY DEF MissingOnce, IndexFollowsRows, CursorPassesNoUpdate, Stored
<1>4. Covered
  BY IdleSyncIs DEF Covered, Owes, Working
<1> QED
  BY <1>1, <1>2, <1>3, <1>4 DEF SyncInv

LEMMA TickPreserves ==
  ASSUME SyncInv, Tick PROVE SyncInv'
<1> USE DEF SyncInv, Tick
<1>1. SyncTypeOK'
  BY SyncAssumption DEF SyncTypeOK, SyncAssumption
<1>2. Ordered'
  <2>1. clock' = clock + 1 /\ clock \in Nat
    BY SyncAssumption DEF SyncTypeOK, SyncAssumption
  <2>2. cursor \in Nat /\ (\A r \in Evidence : hub[r].at \in Nat)
    BY SyncAssumption DEF SyncTypeOK, SyncAssumption
  <2>3. \A s \in Syncs : sync[s].at \in Nat
    BY SyncAssumption DEF SyncTypeOK, SyncAssumption, Execution
  <2> QED
    BY <2>1, <2>2, <2>3 DEF Ordered
<1>3. MissingOnce' /\ IndexFollowsRows' /\ CursorPassesNoUpdate'
  BY DEF MissingOnce, IndexFollowsRows, CursorPassesNoUpdate, Stored
<1>4. Covered'
  BY QuietCovered DEF Covered
<1> QED
  BY <1>1, <1>2, <1>3, <1>4

\* What an edit changes of its record.
LEMMA HubEditIs ==
  ASSUME SyncTypeOK, NEW r \in Evidence, HubEdit(r)
  PROVE  /\ hub' \in [Evidence -> [rev : 1..MaxRevision, at : 0..MaxClock, there : BOOLEAN]]
         /\ hub'[r].rev = hub[r].rev + 1
         /\ hub'[r].at = (IF kind[r] = "release" THEN hub[r].at ELSE clock)
         /\ \A q \in Evidence : q # r => hub'[q] = hub[q]
<1>1. hub[r] \in [rev : 1..MaxRevision, at : 0..MaxClock, there : BOOLEAN] /\ clock \in 0..MaxClock
  BY DEF SyncTypeOK
<1>2. hub[r].rev + 1 \in 1..MaxRevision
  BY <1>1, SyncAssumption DEF HubEdit, Revision, SyncAssumption
<1> DEFINE new == [hub[r] EXCEPT !.rev = @ + 1, !.at = IF kind[r] = "release" THEN @ ELSE clock]
<1>3. new \in [rev : 1..MaxRevision, at : 0..MaxClock, there : BOOLEAN]
  BY <1>1, <1>2
<1>4. /\ new.rev = hub[r].rev + 1
      /\ new.at = (IF kind[r] = "release" THEN hub[r].at ELSE clock)
  BY <1>1
<1>5. hub' = [hub EXCEPT ![r] = new]
  BY DEF HubEdit, SyncTypeOK
<1> HIDE DEF new
<1> QED
  BY <1>3, <1>4, <1>5 DEF SyncTypeOK

LEMMA HubEditPreserves ==
  ASSUME SyncInv, NEW r \in Evidence, HubEdit(r) PROVE SyncInv'
<1> USE DEF SyncInv
<1>1. /\ UNCHANGED <<kind, clock, cursor, rows, indexed, sync, torn, missed>>
      /\ hub[r].rev \in Nat
  BY DEF HubEdit, SyncTypeOK, Revision
<1>2. SyncTypeOK'
  BY <1>1, HubEditIs DEF SyncTypeOK
<1>3. Ordered'
  <2>1. \A q \in Evidence : hub'[q].at <= clock
    BY HubEditIs, SyncAssumption DEF Ordered, SyncTypeOK, SyncAssumption
  <2>2. \A s \in Syncs : sync[s].batch[r] <= hub'[r].rev
    <3> TAKE s \in Syncs
    <3>1. sync[s].batch[r] <= hub[r].rev /\ sync[s].batch[r] \in Nat
      BY DEF Ordered, SyncTypeOK, Execution, Revision
    <3> QED
      BY <1>1, <3>1, HubEditIs
  <2> QED
    BY <1>1, <2>1, <2>2, HubEditIs DEF Ordered
<1>4. MissingOnce' /\ IndexFollowsRows'
  BY <1>1 DEF MissingOnce, IndexFollowsRows, Stored
<1>5. CursorPassesNoUpdate'
  <2> SUFFICES ASSUME NEW q \in Evidence, hub'[q].there, hub'[q].at < cursor, q \notin missed
               PROVE  IF kind[q] = "release" THEN Stored(q) ELSE rows[q].rev = hub'[q].rev
    BY <1>1 DEF CursorPassesNoUpdate, Stored
  <2>1. CASE q # r
    BY <2>1, HubEditIs DEF CursorPassesNoUpdate
  <2>2. CASE q = r
    <3>1. cursor \in Nat /\ clock \in Nat /\ cursor <= clock
      BY SyncAssumption DEF Ordered, SyncTypeOK, SyncAssumption
    <3>2. kind[r] = "release" /\ hub'[r].at = hub[r].at
      BY <2>2, <3>1, HubEditIs
    <3>3. hub[r].there
      BY DEF HubEdit
    <3> QED
      BY <2>2, <3>2, <3>3 DEF CursorPassesNoUpdate
  <2> QED
    BY <2>1, <2>2
<1>6. Covered'
  <2> SUFFICES ASSUME NEW s \in Syncs, NEW q \in Evidence, Owes(s, q)'
               PROVE  Covers(s, q)'
    BY DEF Covered
  <2>1. CASE q # r
    <3>1. Owes(s, q) /\ hub'[q] = hub[q]
      BY <1>1, <2>1, HubEditIs DEF Owes, Working
    <3> QED
      BY <1>1, <3>1, CoversStays DEF Covered
  <2>2. CASE q = r
    <3>1. kind[r] = "release" /\ hub'[r].at = hub[r].at
      BY <1>1, <2>2, HubEditIs, SyncAssumption DEF Owes, Ordered, SyncTypeOK, SyncAssumption, Execution
    <3>2. Owes(s, r)
      BY <1>1, <2>2, <3>1 DEF Owes, Working, HubEdit
    <3> QED
      BY <1>1, <2>2, <3>1, <3>2
      DEF Covered, Covers, Current, Stored, Awaits, InWindow, Storing, InHand, PhaseOf
  <2> QED
    BY <2>1, <2>2
<1> QED
  BY <1>2, <1>3, <1>4, <1>5, <1>6

LEMMA HubDeletePreserves ==
  ASSUME SyncInv, NEW r \in Evidence, HubDelete(r) PROVE SyncInv'
<1> USE DEF SyncInv
<1>1. /\ UNCHANGED <<kind, clock, cursor, rows, indexed, sync, torn, missed>>
      /\ hub' \in [Evidence -> [rev : 1..MaxRevision, at : 0..MaxClock, there : BOOLEAN]]
      /\ ~hub'[r].there
      /\ \A q \in Evidence : hub'[q].rev = hub[q].rev /\ hub'[q].at = hub[q].at
      /\ \A q \in Evidence : q # r => hub'[q] = hub[q]
  BY DEF HubDelete, SyncTypeOK
<1>2. SyncTypeOK' /\ Ordered' /\ MissingOnce' /\ IndexFollowsRows'
  BY <1>1 DEF SyncTypeOK, Ordered, MissingOnce, IndexFollowsRows, Stored
<1>3. CursorPassesNoUpdate'
  BY <1>1 DEF CursorPassesNoUpdate, Stored
<1>4. Covered'
  <2> SUFFICES ASSUME NEW s \in Syncs, NEW q \in Evidence, Owes(s, q)'
               PROVE  Covers(s, q)'
    BY DEF Covered
  <2>1. q # r /\ Owes(s, q)
    BY <1>1 DEF Owes, Working
  <2> QED
    BY <1>1, <2>1, CoversStays DEF Covered
<1> QED
  BY <1>2, <1>3, <1>4

-----------------------------------------------------------------------------
(* Steps of one sync that leave the rows and the index alone.  Such a step  *)
(* keeps the invariant when the new state of its sync is in order and is    *)
(* covered.                                                                 *)

RowSet == [Evidence -> [rev : Revision, active : BOOLEAN, missing : 0..2]]

LEMMA MoveRows ==
  ASSUME SyncInv, NEW s \in Syncs, NEW value \in Execution, SyncSets(s, value),
         UNCHANGED <<kind, clock, hub>>,
         rows' \in RowSet, \A r \in Evidence : rows'[r].rev = rows[r].rev,
         MissingOnce', IndexFollowsRows', CursorPassesNoUpdate',
         indexed' \in [Evidence -> Revision], torn' \subseteq Evidence,
         cursor' \in 0..MaxClock, cursor' <= clock,
         missed \subseteq missed', missed' \subseteq Evidence,
         value.at <= clock,
         \A r \in Evidence : value.batch[r] <= hub[r].rev,
         \A r \in Evidence : Owes(s, r)' => Covers(s, r)'
  PROVE  SyncInv'
<1>1. /\ sync' \in [Syncs -> Execution] /\ sync'[s] = value
      /\ \A q \in Syncs : q # s => sync'[q] = sync[q]
  BY SyncSetsIs DEF SyncInv
<1>2. SyncTypeOK'
  BY <1>1 DEF SyncInv, SyncTypeOK, RowSet
<1>3. Ordered'
  BY <1>1 DEF SyncInv, Ordered
<1>4. Covered'
  <2> SUFFICES ASSUME NEW q \in Syncs, NEW r \in Evidence, Owes(q, r)'
               PROVE  Covers(q, r)'
    BY DEF Covered
  <2>1. CASE q = s
    BY <2>1
  <2>2. CASE q # s
    BY <1>1, <2>2, QuietCovered
  <2> QED
    BY <2>1, <2>2
<1> QED
  BY <1>2, <1>3, <1>4 DEF SyncInv

LEMMA MoveOf ==
  ASSUME SyncInv, NEW s \in Syncs, NEW value \in Execution, SyncSets(s, value),
         UNCHANGED <<kind, clock, hub, rows>>,
         IndexFollowsRows', CursorPassesNoUpdate',
         indexed' \in [Evidence -> Revision], torn' \subseteq Evidence,
         cursor' \in 0..MaxClock, cursor' <= clock,
         missed \subseteq missed', missed' \subseteq Evidence,
         value.at <= clock,
         \A r \in Evidence : value.batch[r] <= hub[r].rev,
         \A r \in Evidence : Owes(s, r)' => Covers(s, r)'
  PROVE  SyncInv'
<1>1. rows' \in RowSet /\ (\A r \in Evidence : rows'[r].rev = rows[r].rev) /\ MissingOnce'
  BY DEF SyncInv, SyncTypeOK, RowSet, MissingOnce
<1> QED
  BY <1>1, MoveRows

\* The text and the index are what they were.
LEMMA QuietSafe ==
  ASSUME SyncInv, UNCHANGED <<kind, hub, cursor, rows, indexed, torn>>, missed \subseteq missed'
  PROVE  IndexFollowsRows' /\ CursorPassesNoUpdate'
BY DEF SyncInv, IndexFollowsRows, CursorPassesNoUpdate, Stored

LEMMA BeginPreserves ==
  ASSUME SyncInv, NEW s \in Syncs, Begin(s) PROVE SyncInv'
<1> DEFINE value == [IdleSync EXCEPT !.pc = "list", !.since = cursor, !.at = clock]
<1>1. cursor \in 0..MaxClock /\ clock \in 0..MaxClock /\ cursor <= clock
  BY DEF SyncInv, SyncTypeOK, Ordered
<1>2. /\ value \in Execution /\ value.pc = "list" /\ value.phase = 1
      /\ value.since = cursor /\ value.at = clock
      /\ \A r \in Evidence : value.batch[r] = 0
  BY <1>1, IdleSyncIs, SyncAssumption DEF Execution, IdleSync
<1>3. /\ SyncSets(s, value) /\ sync'[s] = value
      /\ UNCHANGED <<kind, clock, hub, cursor, rows, indexed, torn, missed>>
  BY <1>2, SyncSetsIs DEF Begin, SyncInv
<1> HIDE DEF value
<1>4. ASSUME NEW r \in Evidence, Owes(s, r)' PROVE Covers(s, r)'
  <2>1. hub[r].there /\ r \notin missed
    BY <1>3, <1>4 DEF Owes
  <2>2. CASE hub[r].at < cursor
    BY <1>3, <2>1, <2>2 DEF SyncInv, CursorPassesNoUpdate, Covers, Current, Stored
  <2>3. CASE ~(hub[r].at < cursor)
    <3>1. hub[r].at >= cursor
      BY <1>1, <2>3 DEF SyncInv, SyncTypeOK
    <3>2. Awaits(s, r)'
      BY <1>2, <1>3, KindIsPhase DEF Awaits, PhaseOf
    <3>3. InWindow(s, r)'
      BY <1>2, <1>3, <3>1 DEF InWindow
    <3> QED
      BY <3>2, <3>3 DEF Covers
  <2> QED
    BY <2>2, <2>3
<1>5. \A r \in Evidence : value.batch[r] <= hub[r].rev
  BY <1>2 DEF SyncInv, SyncTypeOK, Revision
<1> QED
  BY <1>1, <1>2, <1>3, <1>4, <1>5, QuietSafe, MoveOf DEF SyncInv, SyncTypeOK

\* A listing: what it takes is in hand, what it leaves out of what matches is missed.
LEMMA ListPreserves ==
  ASSUME SyncInv, NEW s \in Syncs, List(s) PROVE SyncInv'
<1>1. sync[s] \in Execution /\ sync[s].pc = "list"
  BY DEF SyncInv, SyncTypeOK, List
<1>2. UNCHANGED <<kind, clock, hub, cursor, rows, indexed, torn>>
  BY DEF List
<1>3. PICK listed \in SUBSET Matching(s), capped \in BOOLEAN :
        /\ missed' = missed \cup (Matching(s) \ listed)
        /\ SyncSets(s, Listed([sync[s] EXCEPT !.result = IF capped /\ @ = "complete" THEN "capped" ELSE @], listed))
  BY DEF List
<1> DEFINE v == [sync[s] EXCEPT !.result = IF capped /\ @ = "complete" THEN "capped" ELSE @]
<1>4. /\ v \in Execution /\ v.pc = "list" /\ v.phase = sync[s].phase
      /\ v.since = sync[s].since /\ v.at = sync[s].at /\ v.batch = sync[s].batch
      /\ v.result = "failed" <=> sync[s].result = "failed"
  BY <1>1 DEF Execution
<1> DEFINE value == Listed(v, listed)
<1>5. SyncSets(s, value)
  BY <1>3
<1> HIDE DEF v
<1>6. listed \subseteq Evidence /\ Matching(s) \subseteq Evidence
  BY DEF Matching
<1>7. value.since = sync[s].since /\ value.at = sync[s].at
  <2>1. CASE listed = {}
    BY <1>4, <2>1, AfterSourceIs DEF Listed
  <2>2. CASE listed # {}
    BY <1>4, <2>2 DEF Listed, Execution
  <2> QED
    BY <2>1, <2>2
<1>8. value \in Execution /\ (value.result = "failed" <=> sync[s].result = "failed")
  <2>1. CASE listed = {}
    BY <1>4, <2>1, AfterSourceIs DEF Listed
  <2>2. CASE listed # {}
    <3>1. [r \in Evidence |-> IF r \in listed THEN hub[r].rev ELSE 0] \in [Evidence -> Revision]
      BY SyncAssumption DEF SyncInv, SyncTypeOK, Revision, SyncAssumption
    <3>2. v.seen \cup listed \in SUBSET Evidence
      BY <1>4, <1>6 DEF Execution
    <3>3. value = [v EXCEPT !.pc = "store", !.seen = v.seen \cup listed,
                     !.batch = [r \in Evidence |-> IF r \in listed THEN hub[r].rev ELSE 0]]
      BY <1>4, <2>2 DEF Listed, Execution
    <3> HIDE DEF value
    <3> QED
      BY <1>4, <3>1, <3>2, <3>3 DEF Execution
  <2> QED
    BY <2>1, <2>2
<1>9. CASE listed = {}
  <2>1. /\ value.batch = sync[s].batch
        /\ \/ value.pc = "missing" /\ sync[s].phase = 4
           \/ value.pc = "list" /\ value.phase = sync[s].phase + 1
    <3>1. value = AfterSource(v, TRUE)
      BY <1>9 DEF Listed
    <3> HIDE DEF value
    <3>2. v \in Execution /\ value.batch = v.batch
      BY <1>4, <3>1, AfterListingIs
    <3>3. \/ value.pc = "missing" /\ v.phase = 4
          \/ value.pc = "list" /\ value.phase = v.phase + 1
      BY <3>1, <3>2, AfterListingIs
    <3> QED
      BY <1>4, <3>2, <3>3
  <2> HIDE DEF value
  <2>2. sync'[s] = value
    BY <1>5, <1>8, SyncSetsIs DEF SyncInv
  <2>3. ASSUME NEW r \in Evidence, Owes(s, r)' PROVE Covers(s, r)'
    <3>1. Owes(s, r) /\ r \notin missed'
      BY <1>1, <1>2, <1>3, <1>7, <1>8, <2>2, <2>3 DEF Owes, Working
    <3>2. CASE Current(r)
      BY <1>2, <3>2 DEF Covers, Current, Stored
    <3>3. CASE ~Current(r)
      <4>1. Awaits(s, r) /\ InWindow(s, r) /\ hub[r].there
        BY <1>1, <3>1, <3>3 DEF SyncInv, Covered, Covers, Storing, Owes
      <4>2. r \notin Matching(s)
        BY <1>3, <1>9, <3>1
      <4>3. sync[s].phase # PhaseOf(r) /\ sync[s].phase \in 1..4 /\ PhaseOf(r) \in 1..3
        BY <1>1, <4>1, <4>2, KindIsPhase DEF Matching, SyncInv, Execution
      <4>4. sync[s].phase < PhaseOf(r)
        BY <4>1, <4>3 DEF Awaits
      <4>5. Awaits(s, r)'
        BY <1>2, <2>1, <2>2, <4>3, <4>4 DEF Awaits, PhaseOf
      <4> QED
        BY <1>2, <1>7, <2>2, <4>1, <4>5 DEF Covers, InWindow
    <3> QED
      BY <3>2, <3>3
  <2>4. value.at <= clock /\ \A r \in Evidence : value.batch[r] <= hub[r].rev
    BY <1>7, <2>1 DEF SyncInv, Ordered
  <2> QED
    BY <1>2, <1>3, <1>5, <1>6, <1>8, <2>3, <2>4, QuietSafe, MoveOf DEF SyncInv, SyncTypeOK, Ordered
<1>10. CASE listed # {}
  <2>1. /\ value.pc = "store" /\ value.phase = sync[s].phase
        /\ value.batch = [r \in Evidence |-> IF r \in listed THEN hub[r].rev ELSE 0]
    BY <1>4, <1>10 DEF Listed, Execution
  <2> HIDE DEF value
  <2>2. sync'[s] = value
    BY <1>5, <1>8, SyncSetsIs DEF SyncInv
  <2>3. ASSUME NEW r \in Evidence, Owes(s, r)' PROVE Covers(s, r)'
    <3>1. Owes(s, r) /\ r \notin missed'
      BY <1>1, <1>2, <1>3, <1>7, <1>8, <2>2, <2>3 DEF Owes, Working
    <3>2. CASE Current(r)
      BY <1>2, <3>2 DEF Covers, Current, Stored
    <3>3. CASE ~Current(r)
      <4>1. Awaits(s, r) /\ InWindow(s, r) /\ hub[r].there
        BY <1>1, <3>1, <3>3 DEF SyncInv, Covered, Covers, Storing, Owes
      <4>2. sync[s].phase \in 1..4 /\ PhaseOf(r) \in 1..3 /\ PhaseOf(r)' = PhaseOf(r)
        BY <1>1, <1>2, KindIsPhase DEF SyncInv, Execution, PhaseOf
      <4>3. CASE sync[s].phase = PhaseOf(r)
        <5>1. r \in Matching(s)
          BY <1>1, <4>1, <4>2, <4>3, KindIsPhase DEF Matching, SyncInv
        <5>2. r \in listed
          BY <1>3, <3>1, <5>1
        <5>3. hub[r].rev # 0 /\ sync'[s].batch[r] = hub[r].rev
          BY <2>1, <2>2, <5>2 DEF SyncInv, SyncTypeOK
        <5>4. Storing(s, r)'
          BY <2>1, <2>2, <4>2, <4>3 DEF Storing
        <5> QED
          BY <1>2, <5>3, <5>4 DEF Covers, InHand
      <4>4. CASE sync[s].phase # PhaseOf(r)
        <5>1. Awaits(s, r)'
          BY <2>1, <2>2, <4>1, <4>2, <4>4 DEF Awaits
        <5> QED
          BY <1>2, <1>7, <2>2, <4>1, <5>1 DEF Covers, InWindow
      <4> QED
        BY <4>3, <4>4
    <3> QED
      BY <3>2, <3>3
  <2>4. value.at <= clock /\ \A r \in Evidence : value.batch[r] <= hub[r].rev
    BY <1>7, <2>1 DEF SyncInv, Ordered, SyncTypeOK, Revision
  <2> QED
    BY <1>2, <1>3, <1>5, <1>6, <1>8, <2>3, <2>4, QuietSafe, MoveOf DEF SyncInv, SyncTypeOK, Ordered
<1> QED
  BY <1>9, <1>10

LEMMA ListFailsPreserves ==
  ASSUME SyncInv, NEW s \in Syncs, ListFails(s) PROVE SyncInv'
<1> DEFINE v == [sync[s] EXCEPT !.result = "failed"]
           value == AfterSource(v, FALSE)
<1>1. v \in Execution /\ v.result = "failed" /\ v.at = sync[s].at /\ v.batch = sync[s].batch
  BY DEF SyncInv, SyncTypeOK, Execution
<1>2. SyncSets(s, value) /\ UNCHANGED <<kind, clock, hub, cursor, rows, indexed, torn, missed>>
  BY DEF ListFails
<1> HIDE DEF v
<1>3. /\ value \in Execution /\ value.result = "failed"
      /\ value.at = sync[s].at /\ value.batch = sync[s].batch
  BY <1>1, AfterSourceIs
<1> HIDE DEF value
<1>4. sync'[s] = value
  BY <1>2, <1>3, SyncSetsIs DEF SyncInv
<1>5. \A r \in Evidence : ~Owes(s, r)'
  BY <1>3, <1>4 DEF Owes, Working
<1>6. value.at <= clock /\ \A r \in Evidence : value.batch[r] <= hub[r].rev
  BY <1>3 DEF SyncInv, Ordered
<1> QED
  BY <1>2, <1>3, <1>5, <1>6, QuietSafe, MoveOf DEF SyncInv, SyncTypeOK, Ordered

\* A sync that ends, for whatever reason, covers nothing any more.
LEMMA EndOf ==
  ASSUME SyncInv, NEW s \in Syncs, SyncSets(s, IdleSync),
         UNCHANGED <<kind, clock, hub, rows, missed>>,
         IndexFollowsRows', CursorPassesNoUpdate',
         indexed' \in [Evidence -> Revision], torn' \subseteq Evidence,
         cursor' \in 0..MaxClock, cursor' <= clock
  PROVE  SyncInv'
<1>1. /\ IdleSync \in Execution /\ IdleSync.pc = "idle" /\ IdleSync.at = 0
      /\ \A r \in Evidence : IdleSync.batch[r] = 0
  BY IdleSyncIs, SyncAssumption
<1>2. sync'[s] = IdleSync
  BY <1>1, SyncSetsIs DEF SyncInv
<1>3. \A r \in Evidence : ~Owes(s, r)'
  BY <1>1, <1>2 DEF Owes, Working
<1>4. IdleSync.at <= clock /\ \A r \in Evidence : IdleSync.batch[r] <= hub[r].rev
  BY <1>1, SyncAssumption DEF SyncInv, SyncTypeOK, SyncAssumption
<1> QED
  BY <1>1, <1>3, <1>4, MoveOf DEF SyncInv, SyncTypeOK

LEMMA DiesPreserves ==
  ASSUME SyncInv, NEW s \in Syncs, Dies(s) PROVE SyncInv'
BY QuietSafe, EndOf DEF Dies, SyncInv, SyncTypeOK, Ordered

\* The cursor moves to the start of a sync that has covered every record.
LEMMA FinishPreserves ==
  ASSUME SyncInv, NEW s \in Syncs, Finish(s) PROVE SyncInv'
<1>1. /\ UNCHANGED <<kind, clock, hub, rows, indexed, torn, missed>>
      /\ SyncSets(s, IdleSync) /\ sync[s].pc = "finish"
      /\ cursor' = (IF sync[s].result = "failed" THEN cursor ELSE sync[s].at)
  BY DEF Finish, CursorAfter
<1>2. cursor' \in 0..MaxClock /\ cursor' <= clock
  BY <1>1 DEF SyncInv, SyncTypeOK, Ordered, Execution
<1>3. IndexFollowsRows'
  BY <1>1 DEF SyncInv, IndexFollowsRows, Stored
<1>4. CursorPassesNoUpdate'
  <2> SUFFICES ASSUME NEW r \in Evidence, hub[r].there, hub[r].at < cursor', r \notin missed
               PROVE  Current(r)
    BY <1>1 DEF CursorPassesNoUpdate, Current, Stored
  <2>1. CASE sync[s].result = "failed"
    BY <1>1, <2>1 DEF SyncInv, CursorPassesNoUpdate, Current
  <2>2. CASE sync[s].result # "failed"
    <3>1. Owes(s, r)
      BY <1>1, <2>2 DEF Owes, Working
    <3> QED
      BY <1>1, <3>1 DEF SyncInv, Covered, Covers, Awaits, Storing
  <2> QED
    BY <2>1, <2>2
<1> QED
  BY <1>1, <1>2, <1>3, <1>4, EndOf DEF SyncInv, SyncTypeOK

-----------------------------------------------------------------------------
(* A batch and its index writes.                                            *)

\* What a store does to the rows and to their records.
LEMMA StoreIs ==
  ASSUME SyncInv, NEW s \in Syncs, Store(s)
  PROVE  /\ rows' \in RowSet
         /\ indexed' \in [Evidence -> Revision]
         /\ \A r \in Batched(s) :
              /\ rows'[r].rev = sync[s].batch[r] /\ rows'[r].active /\ rows'[r].missing = 0
              /\ indexed'[r] = (IF Changed(s, r) THEN sync[s].batch[r] ELSE indexed[r])
         /\ \A r \in Evidence \ Batched(s) : rows'[r] = rows[r] /\ indexed'[r] = indexed[r]
         /\ torn' = torn \ {r \in Batched(s) : Changed(s, r)}
         /\ torn' \subseteq Evidence /\ missed' \subseteq Evidence
<1>1. sync[s].batch \in [Evidence -> Revision] /\ Batched(s) \subseteq Evidence
  BY DEF SyncInv, SyncTypeOK, Execution, Batched
<1>2. \A r \in Batched(s) :
        [rev |-> sync[s].batch[r], active |-> TRUE, missing |-> 0]
          \in [rev : Revision, active : BOOLEAN, missing : 0..2]
  BY <1>1
<1>3. rows' \in RowSet
  BY <1>1, <1>2 DEF Store, RowSet, SyncInv, SyncTypeOK
<1>4. indexed' \in [Evidence -> Revision]
  BY <1>1 DEF Store, SyncInv, SyncTypeOK
<1>5. \A r \in Evidence :
        rows'[r] = IF r \in Batched(s)
                     THEN [rev |-> sync[s].batch[r], active |-> TRUE, missing |-> 0]
                     ELSE rows[r]
  BY DEF Store
<1>6. \A r \in Evidence :
        indexed'[r] = IF r \in Batched(s) /\ Changed(s, r) THEN sync[s].batch[r] ELSE indexed[r]
  BY DEF Store
<1>7. /\ torn' = torn \ {r \in Batched(s) : Changed(s, r)}
      /\ torn' \subseteq Evidence /\ missed' \subseteq Evidence
  BY <1>1 DEF Store, SyncInv, SyncTypeOK
<1>8. \A r \in Batched(s) :
        rows'[r].rev = sync[s].batch[r] /\ rows'[r].active /\ rows'[r].missing = 0
  <2> TAKE r \in Batched(s)
  <2>1. rows'[r] = [rev |-> sync[s].batch[r], active |-> TRUE, missing |-> 0]
    BY <1>1, <1>5
  <2> QED
    BY <2>1
<1>9. \A r \in Batched(s) :
        indexed'[r] = (IF Changed(s, r) THEN sync[s].batch[r] ELSE indexed[r])
  BY <1>1, <1>6
<1>10. \A r \in Evidence \ Batched(s) : rows'[r] = rows[r] /\ indexed'[r] = indexed[r]
  BY <1>5, <1>6
<1> QED
  BY <1>3, <1>4, <1>7, <1>8, <1>9, <1>10

\* A record that is not missed after a store is as current as it was, and is current if
\* the batch held what GitHub has.
LEMMA StoreKeepsCurrent ==
  ASSUME SyncInv, NEW s \in Syncs, Store(s), NEW r \in Evidence, r \notin missed'
  PROVE  /\ r \notin missed \/ Current(r)'
         /\ Current(r) => Current(r)'
         /\ r \in Batched(s) /\ InHand(s, r) => Current(r)'
<1>1. /\ missed' = (missed \ {q \in Batched(s) : sync[s].batch[q] = hub[q].rev})
                     \cup {q \in Batched(s) : sync[s].batch[q] < rows[q].rev}
      /\ UNCHANGED <<kind, hub>>
  BY DEF Store
<1>2. CASE r \notin Batched(s)
  BY <1>1, <1>2, StoreIs DEF Current, Stored
<1>3. CASE r \in Batched(s) /\ kind[r] = "release"
  BY <1>1, <1>3, StoreIs DEF Current, Stored, Batched
<1>4. CASE r \in Batched(s) /\ kind[r] # "release" /\ sync[s].batch[r] = hub[r].rev
  BY <1>1, <1>4, StoreIs DEF Current
<1>5. CASE r \in Batched(s) /\ kind[r] # "release" /\ sync[s].batch[r] # hub[r].rev
  <2>1. r \notin missed /\ ~(sync[s].batch[r] < rows[r].rev)
    BY <1>1, <1>5
  <2>2. ~InHand(s, r)
    BY <1>5 DEF InHand
  <2>3. ~Current(r)
    <3>1. /\ sync[s].batch[r] \in Nat /\ hub[r].rev \in Nat /\ rows[r].rev \in Nat
          /\ sync[s].batch[r] <= hub[r].rev
      BY DEF SyncInv, SyncTypeOK, Execution, Revision, Ordered
    <3> QED
      BY <1>5, <2>1, <3>1 DEF Current
  <2> QED
    BY <2>1, <2>2, <2>3
<1> QED
  BY <1>2, <1>3, <1>4, <1>5

LEMMA StorePreserves ==
  ASSUME SyncInv, NEW s \in Syncs, Store(s) PROVE SyncInv'
<1> DEFINE v == [sync[s] EXCEPT !.batch = NoRevision]
           value == AfterSource(v, TRUE)
<1>1. /\ sync[s] \in Execution /\ sync[s].pc = "store" /\ SyncSets(s, value)
      /\ UNCHANGED <<kind, clock, hub, cursor>>
  BY DEF Store, SyncInv, SyncTypeOK
<1>2. /\ v \in Execution /\ v.phase = sync[s].phase /\ v.since = sync[s].since
      /\ v.at = sync[s].at /\ v.result = sync[s].result
      /\ \A r \in Evidence : v.batch[r] = 0
  BY <1>1, SyncAssumption DEF Execution, NoRevision, Revision, SyncAssumption
<1> HIDE DEF v
<1>3. /\ value \in Execution /\ value.since = sync[s].since /\ value.at = sync[s].at
      /\ value.result = sync[s].result
      /\ \A r \in Evidence : value.batch[r] = 0
      /\ \/ value.pc = "missing" /\ sync[s].phase = 4
         \/ value.pc = "list" /\ value.phase = sync[s].phase + 1
  <2>1. value = AfterSource(v, TRUE)
    OBVIOUS
  <2> HIDE DEF value
  <2>2. /\ value \in Execution /\ value.since = v.since /\ value.at = v.at
        /\ value.result = v.result /\ value.batch = v.batch
    BY <1>2, <2>1, AfterListingIs
  <2>3. \/ value.pc = "missing" /\ v.phase = 4
        \/ value.pc = "list" /\ value.phase = v.phase + 1
    BY <1>2, <2>1, AfterListingIs
  <2> QED
    BY <1>2, <2>2, <2>3
<1> HIDE DEF value
<1>4. /\ sync' \in [Syncs -> Execution] /\ sync'[s] = value
      /\ \A q \in Syncs : q # s => sync'[q] = sync[q]
  BY <1>1, <1>3, SyncSetsIs DEF SyncInv
<1>5. SyncTypeOK'
  BY <1>1, <1>4, StoreIs DEF SyncInv, SyncTypeOK, RowSet
<1>6. Ordered'
  <2>1. \A r \in Evidence : hub[r].rev >= 0
    BY DEF SyncInv, SyncTypeOK
  <2> QED
    BY <1>1, <1>3, <1>4, <2>1 DEF SyncInv, Ordered
<1>7. MissingOnce'
  BY StoreIs DEF SyncInv, MissingOnce
<1>8. IndexFollowsRows'
  <2> SUFFICES ASSUME NEW r \in Evidence, rows'[r].rev # 0, r \notin torn'
               PROVE  indexed'[r] = (IF rows'[r].active THEN rows'[r].rev ELSE 0)
    BY DEF IndexFollowsRows, Stored
  <2>1. CASE r \in Batched(s) /\ Changed(s, r)
    BY <2>1, StoreIs
  <2>2. CASE r \in Batched(s) /\ ~Changed(s, r)
    <3>1. rows[r].rev = sync[s].batch[r] /\ rows[r].active /\ r \notin torn /\ rows[r].rev # 0
      BY <2>2, StoreIs DEF Changed, Batched
    <3> QED
      BY <2>2, <3>1, StoreIs DEF SyncInv, IndexFollowsRows, Stored
  <2>3. CASE r \notin Batched(s)
    BY <2>3, StoreIs DEF SyncInv, IndexFollowsRows, Stored
  <2> QED
    BY <2>1, <2>2, <2>3
<1>9. CursorPassesNoUpdate'
  <2> SUFFICES ASSUME NEW r \in Evidence, hub[r].there, hub[r].at < cursor, r \notin missed'
               PROVE  Current(r)'
    BY <1>1 DEF CursorPassesNoUpdate, Current, Stored
  <2>1. CASE r \in missed
    BY <2>1, StoreKeepsCurrent
  <2>2. CASE r \notin missed
    <3>1. Current(r)
      BY <2>2 DEF SyncInv, CursorPassesNoUpdate, Current
    <3> QED
      BY <3>1, StoreKeepsCurrent
  <2> QED
    BY <2>1, <2>2
<1>10. Covered'
  <2> SUFFICES ASSUME NEW q \in Syncs, NEW r \in Evidence, Owes(q, r)', ~Current(r)'
               PROVE  Covers(q, r)'
    BY DEF Covered, Covers
  <2>1. r \notin missed' /\ r \notin missed /\ ~Current(r)
    BY StoreKeepsCurrent DEF Owes
  <2>2. CASE q = s
    <3>1. Owes(s, r)
      BY <1>1, <1>3, <1>4, <2>1, <2>2 DEF Owes, Working
    <3>2. ~(Storing(s, r) /\ InHand(s, r))
      <4> SUFFICES ASSUME InHand(s, r) PROVE r \in Batched(s)
        BY <2>1, StoreKeepsCurrent
      <4>1. hub[r].rev # 0
        BY DEF SyncInv, SyncTypeOK
      <4> QED
        BY <4>1 DEF InHand, Batched
    <3>3. Awaits(s, r) /\ InWindow(s, r)
      BY <2>1, <3>1, <3>2 DEF SyncInv, Covered, Covers
    <3>4. PhaseOf(r) \in 1..3 /\ PhaseOf(r)' = PhaseOf(r) /\ sync[s].phase \in 1..4
      BY <1>1, KindIsPhase DEF SyncInv, PhaseOf, Execution
    <3>5. Awaits(s, r)'
      BY <1>1, <1>3, <1>4, <3>3, <3>4 DEF Awaits
    <3> QED
      BY <1>1, <1>3, <1>4, <2>2, <3>3, <3>5 DEF Covers, InWindow
  <2>3. CASE q # s
    <3>1. Owes(q, r) /\ sync'[q] = sync[q]
      BY <1>1, <1>4, <2>1, <2>3 DEF Owes, Working
    <3>2. (Awaits(q, r) /\ InWindow(q, r)) \/ (Storing(q, r) /\ InHand(q, r))
      BY <2>1, <3>1 DEF SyncInv, Covered, Covers
    <3> QED
      BY <1>1, <3>1, <3>2 DEF Covers, Awaits, InWindow, Storing, InHand, PhaseOf
  <2> QED
    BY <2>2, <2>3
<1> QED
  BY <1>5, <1>6, <1>7, <1>8, <1>9, <1>10 DEF SyncInv

\* A transaction that is rolled back leaves rows that are torn.
LEMMA StoreFailsPreserves ==
  ASSUME SyncInv, NEW s \in Syncs, StoreFails(s) PROVE SyncInv'
<1>1. SyncSets(s, IdleSync) /\ UNCHANGED <<kind, clock, hub, cursor, rows, missed>>
  BY DEF StoreFails
<1>2. PICK some \in SUBSET {r \in Batched(s) : Stored(r) /\ Changed(s, r)} :
        /\ torn' = torn \cup some
        /\ indexed' \in {[r \in Evidence |-> IF r \in done THEN sync[s].batch[r]
                                           ELSE IF r \in some THEN 0 ELSE indexed[r]] :
                          done \in SUBSET some}
  BY DEF StoreFails
<1>3. PICK done \in SUBSET some :
        indexed' = [r \in Evidence |-> IF r \in done THEN sync[s].batch[r]
                                      ELSE IF r \in some THEN 0 ELSE indexed[r]]
  BY <1>2
<1>4. indexed' \in [Evidence -> Revision] /\ torn' \subseteq Evidence
  BY <1>2, <1>3, SyncAssumption
  DEF SyncInv, SyncTypeOK, Execution, Revision, Batched, SyncAssumption
<1>5. \A r \in Evidence : r \notin torn' => indexed'[r] = indexed[r]
  BY <1>2, <1>3
<1>6. IndexFollowsRows'
  BY <1>1, <1>2, <1>5 DEF SyncInv, IndexFollowsRows, Stored
<1>7. CursorPassesNoUpdate'
  BY <1>1 DEF SyncInv, CursorPassesNoUpdate, Stored
<1> QED
  BY <1>1, <1>4, <1>6, <1>7, EndOf DEF SyncInv, SyncTypeOK, Ordered

-----------------------------------------------------------------------------
(* What two listings in a row left out.                                     *)

LEMMA ConfirmMissingPreserves ==
  ASSUME SyncInv, NEW s \in Syncs, ConfirmMissing(s) PROVE SyncInv'
<1> DEFINE value == [sync[s] EXCEPT !.pc = "finish"]
<1>1. /\ sync[s] \in Execution /\ sync[s].pc = "missing" /\ SyncSets(s, value)
      /\ UNCHANGED <<kind, clock, hub, cursor, missed>>
  BY DEF ConfirmMissing, SyncInv, SyncTypeOK
<1>2. /\ value \in Execution /\ value.pc = "finish" /\ value.at = sync[s].at
      /\ value.result = sync[s].result /\ value.batch = sync[s].batch
  BY <1>1 DEF Execution
<1> HIDE DEF value
<1>3. sync'[s] = value
  BY <1>1, <1>2, SyncSetsIs DEF SyncInv
<1>4. /\ rows' \in RowSet /\ indexed' \in [Evidence -> Revision] /\ torn' \subseteq Evidence
      /\ \A r \in Evidence : rows'[r].rev = rows[r].rev
      /\ MissingOnce' /\ IndexFollowsRows'
  <2>1. CASE sync[s].result # "complete"
    BY <2>1 DEF ConfirmMissing, SyncInv, SyncTypeOK, RowSet, MissingOnce, IndexFollowsRows, Stored
  <2>2. CASE sync[s].result = "complete"
    <3>1. /\ rows' = [r \in Evidence |->
                        IF r \in Missing(s)
                          THEN [rows[r] EXCEPT !.missing = @ + 1, !.active = r \notin Confirmed(s)]
                          ELSE rows[r]]
          /\ indexed' = [r \in Evidence |-> IF r \in Confirmed(s) THEN 0 ELSE indexed[r]]
          /\ torn' = torn \ Confirmed(s)
      BY <2>2 DEF ConfirmMissing, Dropped
    <3>2. Missing(s) \subseteq Evidence /\ Confirmed(s) \subseteq Missing(s)
      BY DEF Missing, Confirmed
    <3>3. \A r \in Evidence : rows[r] \in [rev : Revision, active : BOOLEAN, missing : 0..2]
      BY DEF SyncInv, SyncTypeOK
    <3>4. \A r \in Missing(s) :
            /\ rows'[r] \in [rev : Revision, active : BOOLEAN, missing : 0..2]
            /\ rows'[r].rev = rows[r].rev
            /\ rows'[r].active <=> r \notin Confirmed(s)
            /\ rows'[r].active => rows'[r].missing <= 1
      <4> TAKE r \in Missing(s)
      <4>1. rows[r].active /\ rows[r].missing \in 0..2 /\ rows[r].missing <= 1
        BY <3>2, <3>3 DEF Missing, SyncInv, MissingOnce
      <4>2. rows'[r] = [rows[r] EXCEPT !.missing = @ + 1, !.active = r \notin Confirmed(s)]
        BY <3>1, <3>2
      <4>3. r \notin Confirmed(s) => rows[r].missing + 1 <= 1
        BY <4>1 DEF Confirmed
      <4> DEFINE stays == r \notin Confirmed(s)
      <4>4. stays \in BOOLEAN
        OBVIOUS
      <4>5. rows'[r] = [rows[r] EXCEPT !.missing = @ + 1, !.active = stays]
        BY <4>2
      <4> HIDE DEF stays
      <4>6. /\ rows'[r] \in [rev : Revision, active : BOOLEAN, missing : 0..2]
            /\ rows'[r].rev = rows[r].rev
            /\ rows'[r].missing = rows[r].missing + 1
        <5> DEFINE more == rows[r].missing + 1
        <5>1. more \in 0..2
          BY <4>1
        <5>2. rows'[r] = [rows[r] EXCEPT !.missing = more, !.active = stays]
          BY <4>5
        <5>3. rows[r] \in [rev : Revision, active : BOOLEAN, missing : 0..2]
          BY <3>2, <3>3
        <5> HIDE DEF more
        <5>4. rows'[r] \in [rev : Revision, active : BOOLEAN, missing : 0..2]
          BY <4>4, <5>1, <5>2, <5>3, Zenon
        <5>5. rows'[r].rev = rows[r].rev /\ rows'[r].missing = more
          BY <5>2, <5>3, Zenon
        <5> QED
          BY <5>4, <5>5 DEF more
      <4>7. rows'[r].active = stays
        BY <3>2, <3>3, <4>5, Zenon
      <4> QED
        BY <4>1, <4>3, <4>6, <4>7 DEF stays
    <3>5. \A r \in Evidence \ Missing(s) :
            rows'[r] = rows[r] /\ indexed'[r] = indexed[r] /\ (r \in torn' <=> r \in torn)
      BY <3>1, <3>2
    <3>6. rows' \in RowSet /\ \A r \in Evidence : rows'[r].rev = rows[r].rev
      BY <3>1, <3>3, <3>4, <3>5 DEF RowSet
    <3>7. indexed' \in [Evidence -> Revision] /\ torn' \subseteq Evidence
      <4>1. 0 \in Revision
        BY SyncAssumption DEF Revision, SyncAssumption
      <4>2. indexed \in [Evidence -> Revision] /\ torn \subseteq Evidence
        BY DEF SyncInv, SyncTypeOK
      <4> QED
        BY <3>1, <4>1, <4>2
    <3>8. MissingOnce'
      BY <3>4, <3>5 DEF SyncInv, MissingOnce
    <3>9. IndexFollowsRows'
      <4> SUFFICES ASSUME NEW r \in Evidence, rows'[r].rev # 0, r \notin torn'
                   PROVE  indexed'[r] = (IF rows'[r].active THEN rows'[r].rev ELSE 0)
        BY DEF IndexFollowsRows, Stored
      <4>1. CASE r \in Confirmed(s)
        BY <3>1, <3>2, <3>4, <4>1
      <4>2. CASE r \in Missing(s) /\ r \notin Confirmed(s)
        <5>1. rows[r].active /\ Stored(r) /\ r \notin torn /\ indexed'[r] = indexed[r]
          BY <3>1, <4>2 DEF Missing
        <5> QED
          BY <3>4, <4>2, <5>1 DEF SyncInv, IndexFollowsRows
      <4>3. CASE r \notin Missing(s)
        BY <3>5, <4>3 DEF SyncInv, IndexFollowsRows, Stored
      <4> QED
        BY <3>2, <4>1, <4>2, <4>3
    <3> QED
      BY <3>6, <3>7, <3>8, <3>9
  <2> QED
    BY <2>1, <2>2
<1>5. CursorPassesNoUpdate'
  BY <1>1, <1>4 DEF SyncInv, CursorPassesNoUpdate, Stored
<1>6. ASSUME NEW r \in Evidence, Owes(s, r)' PROVE Covers(s, r)'
  <2>1. Owes(s, r)
    BY <1>1, <1>2, <1>3, <1>6 DEF Owes, Working
  <2>2. Current(r)
    BY <1>1, <2>1 DEF SyncInv, Covered, Covers, Awaits, Storing
  <2> QED
    BY <1>1, <1>4, <2>2 DEF Covers, Current, Stored
<1>7. value.at <= clock /\ \A r \in Evidence : value.batch[r] <= hub[r].rev
  BY <1>2 DEF SyncInv, Ordered
<1> QED
  BY <1>1, <1>2, <1>4, <1>5, <1>6, <1>7, MoveRows DEF SyncInv, SyncTypeOK, Ordered

LEMMA ConfirmFailsPreserves ==
  ASSUME SyncInv, NEW s \in Syncs, ConfirmFails(s) PROVE SyncInv'
<1>1. SyncSets(s, IdleSync) /\ UNCHANGED <<kind, clock, hub, cursor, rows, missed>>
  BY DEF ConfirmFails
<1>2. PICK some \in SUBSET Confirmed(s) :
        /\ torn' = torn \cup some
        /\ indexed' = [r \in Evidence |-> IF r \in some THEN 0 ELSE indexed[r]]
  BY DEF ConfirmFails
<1>3. indexed' \in [Evidence -> Revision] /\ torn' \subseteq Evidence
  BY <1>2, SyncAssumption
  DEF SyncInv, SyncTypeOK, Revision, Confirmed, Missing, SyncAssumption
<1>4. \A r \in Evidence : r \notin torn' => indexed'[r] = indexed[r]
  BY <1>2
<1>5. IndexFollowsRows'
  BY <1>1, <1>2, <1>4 DEF SyncInv, IndexFollowsRows, Stored
<1>6. CursorPassesNoUpdate'
  BY <1>1 DEF SyncInv, CursorPassesNoUpdate, Stored
<1> QED
  BY <1>1, <1>3, <1>5, <1>6, EndOf DEF SyncInv, SyncTypeOK, Ordered

-----------------------------------------------------------------------------
LEMMA StutterPreserves ==
  ASSUME SyncInv, UNCHANGED syncVars PROVE SyncInv'
<1>1. SyncTypeOK' /\ Ordered' /\ MissingOnce'
  BY DEF SyncInv, syncVars, SyncTypeOK, Ordered, MissingOnce
<1>2. IndexFollowsRows' /\ CursorPassesNoUpdate'
  BY QuietSafe DEF syncVars
<1>3. Covered'
  BY QuietCovered DEF syncVars, Covered
<1> QED
  BY <1>1, <1>2, <1>3 DEF SyncInv

LEMMA StepPreserves == SyncInv /\ [SyncNext]_syncVars => SyncInv'
<1> SUFFICES ASSUME SyncInv, [SyncNext]_syncVars PROVE SyncInv'
  OBVIOUS
<1>1. CASE Tick
  BY <1>1, TickPreserves
<1>2. ASSUME NEW r \in Evidence, HubEdit(r) \/ HubDelete(r) PROVE SyncInv'
  BY <1>2, HubEditPreserves, HubDeletePreserves
<1>3. ASSUME NEW s \in Syncs, SyncStep(s) PROVE SyncInv'
  <2>1. CASE Begin(s)
    BY <2>1, BeginPreserves
  <2>2. CASE List(s)
    BY <2>2, ListPreserves
  <2>3. CASE ListFails(s)
    BY <2>3, ListFailsPreserves
  <2>4. CASE Store(s)
    BY <2>4, StorePreserves
  <2>5. CASE StoreFails(s)
    BY <2>5, StoreFailsPreserves
  <2>6. CASE ConfirmMissing(s)
    BY <2>6, ConfirmMissingPreserves
  <2>7. CASE ConfirmFails(s)
    BY <2>7, ConfirmFailsPreserves
  <2>8. CASE Finish(s)
    BY <2>8, FinishPreserves
  <2>9. CASE Dies(s)
    BY <2>9, DiesPreserves
  <2> QED
    BY <1>3, <2>1, <2>2, <2>3, <2>4, <2>5, <2>6, <2>7, <2>8, <2>9 DEF SyncStep
<1>4. CASE UNCHANGED syncVars
  BY <1>4, StutterPreserves
<1> QED
  BY <1>1, <1>2, <1>3, <1>4 DEF SyncNext

\* The invariant holds in every reachable state, whatever fails and however syncs of one
\* project overlap.
THEOREM SyncInvariant == SyncSpec => []SyncInv
<1>1. SyncInit => SyncInv
  BY InitEstablishes
<1>2. SyncInv /\ [SyncNext]_syncVars => SyncInv'
  BY StepPreserves
<1> QED
  BY <1>1, <1>2, PTL DEF SyncSpec

\* The cursor that run_incremental writes passes no update that is not stored, but for
\* what a listing skipped and what an older revision overwrote; and the vector index
\* follows the rows, but for the chunks of a transaction that was rolled back.
THEOREM SyncSafeHolds == SyncSpec => []SyncSafe
<1>1. SyncInv => SyncSafe
  BY DEF SyncInv, SyncSafe
<1> QED
  BY <1>1, SyncInvariant, PTL
=============================================================================
