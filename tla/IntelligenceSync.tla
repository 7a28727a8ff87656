--------------------------- MODULE IntelligenceSync ---------------------------
(***************************************************************************)
(* The synchronization of one intelligence project with its GitHub         *)
(* repository: syncs that may overlap list what changed since the cursor,  *)
(* store and index it, and confirm what is missing.  Each action is one    *)
(* listing, one transaction with the index writes inside it, or a change   *)
(* on GitHub.                                                              *)
(***************************************************************************)
EXTENDS Integers, FiniteSets

CONSTANTS
  Evidence,      \* what the repository has
  Syncs,         \* executions of sync_intelligence_project
  MaxClock,      \* bound of the clock
  MaxRevision,   \* bound: revisions of a record
  SyncFaults     \* subset of {"list", "skip", "cap", "store", "die"}

ASSUME SyncAssumption ==
  /\ MaxClock \in Nat
  /\ MaxRevision \in Nat \ {0}
  /\ SyncFaults \subseteq {"list", "skip", "cap", "store", "die"}

VARIABLES
  kind,       \* the source of each record; never changes
  clock,      \* the time, for GitHub and for the workers
  hub,        \* what GitHub has: revision, time of its stamp, still there
  cursor,     \* intelligence_projects.last_synced_at
  rows,       \* intelligence_records: stored revision (0: no row), active, missing
  indexed,     \* the revision whose chunks the index holds for a row (0: none)
  sync,       \* the executions
  torn,       \* history: rows whose chunks a rolled back transaction changed
  missed      \* history: records a listing left out although they match, or an older
              \* revision overwrote, and that were not stored as they are since

syncVars == <<kind, clock, hub, cursor, rows, indexed, sync, torn, missed>>

Revision == 0..MaxRevision

\* A comment is listed with its issue; the records of comments are left out.
Sources == <<"document", "release", "issue", "comment">>

NoRevision == [r \in Evidence |-> 0]

IdleSync == [pc |-> "idle", phase |-> 1, since |-> 0, at |-> 0, batch |-> NoRevision,
             seen |-> {}, result |-> "complete"]

Execution ==
  [pc : {"idle", "list", "store", "missing", "finish"}, phase : 1..4,
   since : 0..MaxClock, at : 0..MaxClock, batch : [Evidence -> Revision],
   seen : SUBSET Evidence, result : {"complete", "capped", "failed"}]

SyncTypeOK ==
  /\ kind \in [Evidence -> {"document", "release", "issue"}]
  /\ clock \in 0..MaxClock
  /\ hub \in [Evidence -> [rev : 1..MaxRevision, at : 0..MaxClock, there : BOOLEAN]]
  /\ cursor \in 0..MaxClock
  /\ rows \in [Evidence -> [rev : Revision, active : BOOLEAN, missing : 0..2]]
  /\ indexed \in [Evidence -> Revision]
  /\ sync \in [Syncs -> Execution]
  /\ torn \subseteq Evidence /\ missed \subseteq Evidence

Stored(r) == rows[r].rev # 0

SyncSets(s, value) == sync' = [sync EXCEPT ![s] = value]

-----------------------------------------------------------------------------
(* GitHub.                                                                  *)

Tick ==
  /\ clock < MaxClock
  /\ clock' = clock + 1
  /\ UNCHANGED <<kind, hub, cursor, rows, indexed, sync, torn, missed>>

\* An edit moves the stamp of an issue; that of a release is its publication.
HubEdit(r) ==
  /\ hub[r].there
  /\ hub[r].rev < MaxRevision
  /\ hub' = [hub EXCEPT ![r].rev = @ + 1,
               ![r].at = IF kind[r] = "release" THEN @ ELSE clock]
  /\ UNCHANGED <<kind, clock, cursor, rows, indexed, sync, torn, missed>>

HubDelete(r) ==
  /\ hub[r].there
  /\ hub' = [hub EXCEPT ![r].there = FALSE]
  /\ UNCHANGED <<kind, clock, cursor, rows, indexed, sync, torn, missed>>

-----------------------------------------------------------------------------
(* run_incremental                                                          *)

Begin(s) ==
  /\ sync[s].pc = "idle"
  /\ SyncSets(s, [IdleSync EXCEPT !.pc = "list", !.since = cursor, !.at = clock])
  /\ UNCHANGED <<kind, clock, hub, cursor, rows, indexed, torn, missed>>

\* The next source; comments are listed only after their issues.
AfterSource(v, listed) ==
  IF v.phase = 4 \/ (v.phase = 3 /\ ~listed)
    THEN [v EXCEPT !.pc = "missing"]
    ELSE [v EXCEPT !.pc = "list", !.phase = @ + 1]

\* iter_documents takes no window, the others compare a stamp with it.
InWindow(s, r) == kind[r] = "document" \/ hub[r].at >= sync[s].since

Matching(s) ==
  {r \in Evidence : kind[r] = Sources[sync[s].phase] /\ hub[r].there /\ InWindow(s, r)}

\* A batch without records opens no transaction.
Listed(v, records) ==
  IF records = {} THEN AfterSource(v, TRUE)
  ELSE [v EXCEPT !.pc = "store", !.seen = @ \cup records,
          !.batch = [r \in Evidence |-> IF r \in records THEN hub[r].rev ELSE 0]]

\* A file that cannot be read is skipped; a listing of 1000 issues, or of 20 comments
\* of one, is capped, and may have left others out.
List(s) ==
  /\ sync[s].pc = "list"
  /\ \E listed \in SUBSET Matching(s), capped \in BOOLEAN :
       /\ capped => "cap" \in SyncFaults /\ sync[s].phase \in {3, 4}
       /\ listed # Matching(s) => capped \/ ("skip" \in SyncFaults /\ sync[s].phase = 1)
       /\ missed' = missed \cup (Matching(s) \ listed)
       /\ SyncSets(s, Listed([sync[s] EXCEPT !.result = IF capped /\ @ = "complete" THEN "capped" ELSE @], listed))
  /\ UNCHANGED <<kind, clock, hub, cursor, rows, indexed, torn>>

\* Any exception of GitHub or of the normalizer fails the source.
ListFails(s) ==
  /\ "list" \in SyncFaults
  /\ sync[s].pc = "list"
  /\ SyncSets(s, AfterSource([sync[s] EXCEPT !.result = "failed"], FALSE))
  /\ UNCHANGED <<kind, clock, hub, cursor, rows, indexed, torn, missed>>

Batched(s) == {r \in Evidence : sync[s].batch[r] # 0}

\* Mutant: a row that comes back with the text it had counts as unchanged.
Changed_hashOnly(s, r) == rows[r].rev # sync[s].batch[r]

\* upsert_record: a new hash, or a row that was not active.
Changed(s, r) == rows[r].rev # sync[s].batch[r] \/ ~rows[r].active

\* _persist_batch: upsert, mark as seen, and replace the chunks of what changed.
Store(s) ==
  /\ sync[s].pc = "store"
  /\ rows' = [r \in Evidence |->
                IF r \in Batched(s)
                  THEN [rev |-> sync[s].batch[r], active |-> TRUE, missing |-> 0]
                  ELSE rows[r]]
  /\ LET changed == {r \in Batched(s) : Changed(s, r)}
     IN /\ indexed' = [r \in Evidence |-> IF r \in changed THEN sync[s].batch[r] ELSE indexed[r]]
        /\ torn' = torn \ changed
  /\ missed' = (missed \ {r \in Batched(s) : sync[s].batch[r] = hub[r].rev})
                 \cup {r \in Batched(s) : sync[s].batch[r] < rows[r].rev}
  /\ SyncSets(s, AfterSource([sync[s] EXCEPT !.batch = NoRevision], TRUE))
  /\ UNCHANGED <<kind, clock, hub, cursor>>

\* The index or the commit fails: the rows are as before, the chunks of some rows are
\* not, and the exception ends the sync.  Chunks of a row that was not committed have
\* an id that no row will have, and are never read.
StoreFails(s) ==
  /\ "store" \in SyncFaults
  /\ sync[s].pc = "store"
  /\ \E some \in SUBSET {r \in Batched(s) : Stored(r) /\ Changed(s, r)} :
       /\ torn' = torn \cup some
       /\ indexed' \in {[r \in Evidence |-> IF r \in done THEN sync[s].batch[r]
                                         ELSE IF r \in some THEN 0 ELSE indexed[r]] :
                        done \in SUBSET some}
  /\ SyncSets(s, IdleSync)
  /\ UNCHANGED <<kind, clock, hub, cursor, rows, missed>>

\* What two complete listings in a row left out leaves the index.
Missing(s) == {r \in Evidence : Stored(r) /\ rows[r].active /\ r \notin sync[s].seen}

Confirmed(s) == {r \in Missing(s) : rows[r].missing + 1 >= 2}

\* delete_records: the chunks that go.
Dropped(s) == Confirmed(s)

\* _reconcile_missing, unless a source failed or was capped.
ConfirmMissing(s) ==
  /\ sync[s].pc = "missing"
  /\ IF sync[s].result # "complete"
       THEN UNCHANGED <<rows, indexed, torn>>
       ELSE /\ rows' = [r \in Evidence |->
                          IF r \in Missing(s)
                            THEN [rows[r] EXCEPT !.missing = @ + 1, !.active = r \notin Confirmed(s)]
                            ELSE rows[r]]
            /\ indexed' = [r \in Evidence |-> IF r \in Dropped(s) THEN 0 ELSE indexed[r]]
            /\ torn' = torn \ Confirmed(s)
  /\ SyncSets(s, [sync[s] EXCEPT !.pc = "finish"])
  /\ UNCHANGED <<kind, clock, hub, cursor, missed>>

\* The chunks are deleted, and the transaction is rolled back.
ConfirmFails(s) ==
  /\ "store" \in SyncFaults
  /\ sync[s].pc = "missing"
  /\ sync[s].result = "complete"
  /\ \E some \in SUBSET Confirmed(s) :
       /\ torn' = torn \cup some
       /\ indexed' = [r \in Evidence |-> IF r \in some THEN 0 ELSE indexed[r]]
  /\ SyncSets(s, IdleSync)
  /\ UNCHANGED <<kind, clock, hub, cursor, rows, missed>>

\* The start of a sync without failures becomes the cursor.
CursorAfter(s) == IF sync[s].result = "failed" THEN cursor ELSE sync[s].at

Finish(s) ==
  /\ sync[s].pc = "finish"
  /\ cursor' = CursorAfter(s)
  /\ SyncSets(s, IdleSync)
  /\ UNCHANGED <<kind, clock, hub, rows, indexed, torn, missed>>

\* The worker dies between two transactions.
Dies(s) ==
  /\ "die" \in SyncFaults
  /\ sync[s].pc # "idle"
  /\ SyncSets(s, IdleSync)
  /\ UNCHANGED <<kind, clock, hub, cursor, rows, indexed, torn, missed>>

-----------------------------------------------------------------------------
SyncInit ==
  /\ kind \in [Evidence -> {"document", "release", "issue"}]
  /\ clock = 0
  /\ hub = [r \in Evidence |-> [rev |-> 1, at |-> 0, there |-> TRUE]]
  /\ cursor = 0
  /\ rows = [r \in Evidence |-> [rev |-> 0, active |-> FALSE, missing |-> 0]]
  /\ indexed = [r \in Evidence |-> 0]
  /\ sync = [s \in Syncs |-> IdleSync]
  /\ torn = {}
  /\ missed = {}

SyncStep(s) ==
  \/ Begin(s) \/ List(s) \/ ListFails(s) \/ Store(s) \/ StoreFails(s)
  \/ ConfirmMissing(s) \/ ConfirmFails(s) \/ Finish(s) \/ Dies(s)

SyncNext ==
  \/ Tick
  \/ \E r \in Evidence : HubEdit(r) \/ HubDelete(r)
  \/ \E s \in Syncs : SyncStep(s)

SyncSpec == SyncInit /\ [][SyncNext]_syncVars

-----------------------------------------------------------------------------
(* Properties.                                                              *)

\* The index holds the stored text of each active record and nothing of an inactive
\* one, unless a transaction that changed its chunks was rolled back.
IndexFollowsRows ==
  \A r \in Evidence : Stored(r) =>
    indexed[r] = (IF rows[r].active THEN rows[r].rev ELSE 0) \/ r \in torn

\* The cursor never passes an update that is not stored, unless a listing left it out
\* or a sync that had listed an older revision stored it later.  The first sync has no
\* cursor, and a release is stored once.
CursorPassesNoUpdate ==
  \A r \in Evidence :
    hub[r].there /\ hub[r].at < cursor /\ r \notin missed =>
      IF kind[r] = "release" THEN Stored(r) ELSE rows[r].rev = hub[r].rev

SyncSafe == IndexFollowsRows /\ CursorPassesNoUpdate

\* What is still on GitHub is not taken out of the active index.
PresentStaysActive ==
  \A r \in Evidence : Stored(r) /\ ~rows[r].active => ~hub[r].there
=============================================================================
