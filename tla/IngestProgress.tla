---------------------------- MODULE IngestProgress ----------------------------
(***************************************************************************)
(* The chunks of one source on their way into its index: tasks (attempts)  *)
(* that embed all the chunks batch after batch, each in a worker that may  *)
(* die and be redelivered under the same task id; the checkpoint row of    *)
(* the source; the sweep that calls a silent ingest stalled; the route     *)
(* that drops the row.  Each action is one transaction or one write of a   *)
(* file: a faiss save writes index.faiss and then index.json, which says   *)
(* which chunk each of its rows is.  A chunk that is stored twice counts   *)
(* once.                                                                   *)
(***************************************************************************)
EXTENDS Integers, FiniteSets

CONSTANTS
  Attempts,     \* Celery task ids of the ingests and syncs of the source
  Workers,      \* worker processes
  ChunkCount,   \* chunks of the source, the same in every attempt
  MaxBatch      \* EMBEDDINGS_BATCH_SIZE; a batch that fails goes in parts

ASSUME IngestAssumption == ChunkCount \in Nat \ {0} /\ MaxBatch \in Nat \ {0}

VARIABLES
  store,        \* VECTOR_STORE: "table" commits each batch, "faiss" rewrites a file
  checkpoint,   \* ingest_chunk_progress: the row of the source
  vectors,      \* the table, or index.faiss: the pairs <<attempt, chunk>> it holds
  sidecar,      \* index.json: "none", "fits" index.faiss, or "skewed", of another save
  worker,       \* the deliveries at work
  adrift,       \* history: the checkpoint does not tell what the index holds
  lapsed        \* history: a sweep hit the row while a delivery was at work

ingestVars == <<store, checkpoint, vectors, sidecar, worker, adrift, lapsed>>

Chunks       == 1..ChunkCount
NoCheckpoint == [attempt |-> "none", next |-> 1, stalled |-> FALSE]
OffDuty      == [pc |-> "idle", attempt |-> "none", next |-> 1, memory |-> {},
                 unsaved |-> FALSE, skewed |-> FALSE, then |-> "none"]

IngestTypeOK ==
  /\ store \in {"table", "faiss"}
  /\ checkpoint \in [attempt : Attempts \cup {"none"}, next : 1..(ChunkCount + 1),
                     stalled : BOOLEAN]
  /\ vectors \subseteq Attempts \X Chunks
  /\ sidecar \in {"none", "fits", "skewed"}
  /\ worker \in [Workers ->
       [pc : {"idle", "begun", "seed", "add", "sidecar", "record", "check", "done"},
        attempt : Attempts \cup {"none"}, next : 1..(ChunkCount + 1),
        memory : SUBSET (Attempts \X Chunks), unsaved : BOOLEAN, skewed : BOOLEAN,
        then : {"none", "record", "failed", "check"}]]
  /\ {adrift, lapsed} \subseteq BOOLEAN

WorkerAt(w, pc) == worker[w].pc = pc

OthersBusy(w) == \E v \in Workers \ {w} : ~WorkerAt(v, "idle")

\* The delivery ends without success.  A seed that was recorded and never saved
\* leaves the checkpoint ahead of the index; a save that was not finished leaves a
\* new index.faiss beside the old index.json.
GivesUp(w) ==
  /\ worker' = [worker EXCEPT ![w] = OffDuty]
  /\ adrift' = (adrift \/ worker[w].unsaved
                 \/ (WorkerAt(w, "sidecar") /\ sidecar = "skewed"))

-----------------------------------------------------------------------------
\* Mutant: every attempt resumes from the checkpoint that is there.
Resumes_any(a) == checkpoint.attempt # "none"

\* The same task again: the upsert keeps the checkpoint.
Resumes(a) == checkpoint.attempt = a

\* Mutant: the upsert keeps a stalled status.
Restarted_keepsStatus(a) ==
  [attempt |-> a, next |-> IF Resumes(a) THEN checkpoint.next ELSE 1,
   stalled |-> checkpoint.stalled]

\* The row after init_progress.
Restarted(a) ==
  [attempt |-> a, next |-> IF Resumes(a) THEN checkpoint.next ELSE 1,
   stalled |-> FALSE]

Begins(w, a, next) ==
  worker' = [worker EXCEPT ![w] =
               [OffDuty EXCEPT !.pc = "begun", !.attempt = a, !.next = next]]

\* A delivery of attempt a starts: init_progress ...
BeginIngest(w, a) ==
  /\ WorkerAt(w, "idle")
  /\ checkpoint' = Restarted(a)
  /\ Begins(w, a, checkpoint'.next)
  /\ adrift' = (OthersBusy(w) \/ (adrift /\ Resumes(a)))
  /\ lapsed' = FALSE
  /\ UNCHANGED <<store, vectors, sidecar>>

\* ... or, if the database fails, chunk 1 and the row as it was.
BeginUnrecorded(w, a) ==
  /\ WorkerAt(w, "idle")
  /\ Begins(w, a, 1)
  /\ adrift' = (adrift \/ OthersBusy(w) \/ checkpoint # NoCheckpoint)
  /\ UNCHANGED <<store, checkpoint, vectors, sidecar, lapsed>>

\* A fresh run empties the table; for faiss it builds chunk 1 in memory, and the
\* files stay as they were.  A resume keeps the table, or loads the files, whether or
\* not they are of one save.
OpenStore(w) ==
  LET fresh == worker[w].next = 1
      first == {<<worker[w].attempt, 1>>}
  IN /\ WorkerAt(w, "begun")
     /\ IF store = "table"
          THEN /\ vectors' = IF fresh THEN {} ELSE vectors
               /\ worker' = [worker EXCEPT ![w].pc = "add"]
          ELSE /\ fresh \/ sidecar # "none"
               /\ worker' = [worker EXCEPT
                    ![w].pc = IF fresh THEN "seed" ELSE "add",
                    ![w].memory = IF fresh THEN first ELSE vectors,
                    ![w].skewed = ~fresh /\ sidecar = "skewed"]
               /\ UNCHANGED vectors
     /\ UNCHANGED <<store, checkpoint, sidecar, adrift, lapsed>>

\* Loading the files raises: one is missing.
NoFile(w) ==
  /\ WorkerAt(w, "begun")
  /\ store = "faiss" /\ worker[w].next > 1 /\ sidecar = "none"
  /\ GivesUp(w)
  /\ UNCHANGED <<store, checkpoint, vectors, sidecar, lapsed>>

\* record_chunk, whatever attempt the row is at; its failure is only logged.
Records(next) ==
  \/ checkpoint' = IF checkpoint.attempt = "none" THEN checkpoint
                   ELSE [checkpoint EXCEPT !.next = next]
  \/ UNCHANGED checkpoint

\* The chunk in memory is recorded before anything is saved.
RecordSeed(w) ==
  /\ WorkerAt(w, "seed")
  /\ Records(2)
  /\ worker' = [worker EXCEPT ![w].pc = "add", ![w].next = 2, ![w].unsaved = TRUE]
  /\ UNCHANGED <<store, vectors, sidecar, adrift, lapsed>>

Batch(w, n) == {worker[w].attempt} \X (worker[w].next..(worker[w].next + n - 1))

\* faiss appends to its memory, and _save_to_storage replaces index.faiss ...  What the
\* last save wrote is written again at the end: the index.json that is there still fits.
\* The memory is looked at again only to record a batch.
SaveRows(w, then, next, n) ==
  LET all   == worker[w].memory \cup Batch(w, n)
      again == then = "check" /\ ~worker[w].unsaved /\ vectors = all
  IN /\ worker[w].next + n <= ChunkCount + 1
     /\ vectors' = all
     /\ sidecar' = IF again \/ sidecar = "none" THEN sidecar ELSE "skewed"
     /\ worker' = [worker EXCEPT ![w].pc = "sidecar", ![w].then = then,
              ![w].next = next, ![w].memory = IF then = "record" THEN all ELSE {}]

\* ... and then the sidecars.  A memory that was loaded from two saves stays skewed.
SaveSidecar(w) ==
  /\ WorkerAt(w, "sidecar")
  /\ sidecar' = IF worker[w].skewed THEN "skewed" ELSE "fits"
  /\ worker' = [worker EXCEPT ![w] =
       IF worker[w].then = "failed" THEN OffDuty
       ELSE [@ EXCEPT !.pc = worker[w].then, !.then = "none", !.unsaved = FALSE]]
  /\ UNCHANGED <<store, checkpoint, vectors, adrift, lapsed>>

\* add_texts: the batch, or one chunk of a batch that failed, more of which a save
\* that raised may have left in the memory of faiss.
AddBatch(w, n) ==
  /\ WorkerAt(w, "add")
  /\ worker[w].next + n <= ChunkCount + 1
  /\ IF store = "table"
       THEN /\ vectors' = vectors \cup Batch(w, n)
            /\ worker' = [worker EXCEPT ![w].pc = "record", ![w].next = @ + n]
            /\ UNCHANGED sidecar
       ELSE \E m \in n..MaxBatch : SaveRows(w, "record", worker[w].next + n, m)
  /\ UNCHANGED <<store, checkpoint, adrift, lapsed>>

\* Mutant: the checkpoint is one chunk ahead.
RecordBatch_ahead(w) ==
  /\ WorkerAt(w, "record")
  /\ Records(IF worker[w].next > ChunkCount THEN worker[w].next ELSE worker[w].next + 1)
  /\ worker' = [worker EXCEPT ![w].pc = "add"]
  /\ UNCHANGED <<store, vectors, sidecar, adrift, lapsed>>

RecordBatch(w) ==
  /\ WorkerAt(w, "record")
  /\ Records(worker[w].next)
  /\ worker' = [worker EXCEPT ![w].pc = "add"]
  /\ UNCHANGED <<store, vectors, sidecar, adrift, lapsed>>

\* A chunk fails on its own: faiss saves what it has in memory, where some appends
\* of the batch may have gone through, and the task raises.
EmbedFails(w) ==
  /\ WorkerAt(w, "add")
  /\ worker[w].next <= ChunkCount
  /\ IF store = "table"
       THEN worker' = [worker EXCEPT ![w] = OffDuty] /\ UNCHANGED <<vectors, sidecar>>
       ELSE \E n \in 0..MaxBatch : SaveRows(w, "failed", worker[w].next, n)
  /\ UNCHANGED <<store, checkpoint, adrift, lapsed>>

\* All the chunks are in: faiss saves once more.
AllIn(w) ==
  /\ WorkerAt(w, "add")
  /\ worker[w].next > ChunkCount
  /\ IF store = "table"
       THEN worker' = [worker EXCEPT ![w].pc = "check"] /\ UNCHANGED <<vectors, sidecar>>
       ELSE SaveRows(w, "check", worker[w].next, 0)
  /\ UNCHANGED <<store, checkpoint, adrift, lapsed>>

\* assert_index_complete: a row that is behind raises; no row, or none that can be
\* read, does not.
CheckComplete(w) ==
  /\ WorkerAt(w, "check")
  /\ \/ worker' = [worker EXCEPT ![w].pc = "done"]
     \/ checkpoint.next <= ChunkCount /\ checkpoint.attempt # "none"
        /\ worker' = [worker EXCEPT ![w] = OffDuty]
  /\ UNCHANGED <<store, checkpoint, vectors, sidecar, adrift, lapsed>>

\* The task has returned; acks_late may still redeliver it.
Returns(w) ==
  /\ WorkerAt(w, "done")
  /\ worker' = [worker EXCEPT ![w] = OffDuty]
  /\ UNCHANGED <<store, checkpoint, vectors, sidecar, adrift, lapsed>>

\* The worker dies, or saving or opening the index raises.
IngestDies(w) ==
  /\ worker[w].pc \notin {"idle", "done"}
  /\ GivesUp(w)
  /\ UNCHANGED <<store, checkpoint, vectors, sidecar, lapsed>>

\* Q4 of the reconciler: half an hour without a beat or a batch.
SweepIngest ==
  /\ checkpoint.attempt # "none"
  /\ checkpoint.next <= ChunkCount
  /\ ~checkpoint.stalled
  /\ checkpoint' = [checkpoint EXCEPT !.stalled = TRUE]
  /\ lapsed' = \E w \in Workers : ~WorkerAt(w, "idle")
  /\ UNCHANGED <<store, vectors, sidecar, worker, adrift>>

\* The reingest route deletes the row before it enqueues its task.
DropCheckpoint ==
  /\ checkpoint # NoCheckpoint
  /\ checkpoint' = NoCheckpoint
  /\ adrift' = (adrift /\ \E w \in Workers : ~WorkerAt(w, "idle"))
  /\ UNCHANGED <<store, vectors, sidecar, worker, lapsed>>

IngestInit ==
  /\ store \in {"table", "faiss"}
  /\ checkpoint = NoCheckpoint
  /\ vectors = {}
  /\ sidecar = "none"
  /\ worker = [w \in Workers |-> OffDuty]
  /\ adrift = FALSE
  /\ lapsed = FALSE

WorkerStep(w) ==
  \/ \E a \in Attempts : BeginIngest(w, a) \/ BeginUnrecorded(w, a)
  \/ OpenStore(w) \/ NoFile(w) \/ RecordSeed(w)
  \/ \E n \in 1..MaxBatch : AddBatch(w, n)
  \/ SaveSidecar(w) \/ RecordBatch(w) \/ EmbedFails(w) \/ AllIn(w)
  \/ CheckComplete(w) \/ Returns(w) \/ IngestDies(w)

IngestNext == (\E w \in Workers : WorkerStep(w)) \/ SweepIngest \/ DropCheckpoint

IngestSpec == IngestInit /\ [][IngestNext]_ingestVars

-----------------------------------------------------------------------------
(* Properties.                                                              *)

\* A task that reports success has all of its chunks in the index, and none of an
\* earlier run, and a faiss index whose sidecar is of the same save, however often it
\* died, resumed or lost a checkpoint: unless two deliveries of the source ran at once,
\* a start could not be recorded, or a faiss delivery died between the record of its
\* first chunk and the first save, or between the files of a save.
IndexComplete ==
  \A w \in Workers :
    WorkerAt(w, "done") /\ ~adrift =>
      /\ vectors = {worker[w].attempt} \X Chunks
      /\ store = "faiss" => sidecar = "fits"

\* A source whose task succeeded is not shown as failed, unless a sweep took the task
\* at work for dead.
NotShownFailed ==
  \A w \in Workers :
    WorkerAt(w, "done") /\ ~adrift /\ ~lapsed => ~checkpoint.stalled

IngestSafe == IndexComplete /\ NotShownFailed
=============================================================================
