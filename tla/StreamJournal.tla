--------------------------- MODULE StreamJournal ---------------------------
(***************************************************************************)
(* The journal of one chat message: the generator that streams an answer    *)
(* and writes its events in batches, the Redis channel on which each event  *)
(* is published once its row is committed, the continuation that resumes    *)
(* the same message after a tool pause, and one client that loses its       *)
(* connection and reads the rest through the reconnect endpoint.            *)
(*                                                                         *)
(* Every table row and channel is keyed by message_id and readers only      *)
(* read, so one message and one client suffice.  An action is one           *)
(* transaction, one publish or one frame handed to the client.  An event is *)
(* named by its stream and its place in that stream; of its payload only    *)
(* matters whether it is terminal.                                          *)
(***************************************************************************)
EXTENDS Integers, Sequences

CONSTANTS
  MaxData,      \* bound: events a stream emits before it pauses or ends
  BatchSize,    \* DEFAULT_BATCH_SIZE
  MaxConns,     \* bound: reconnects of the client
  Faults,       \* the faults enabled in this instance
  MaxFaults     \* bound: faults in one behaviour

FaultKinds == {"crash",      \* a process dies while it streams
               "agent",      \* the agent yields an error event and goes on
               "error",      \* the generator raises
               "drop",       \* Redis loses a publish
               "db",         \* a batch, or the read of a snapshot, fails
               "redis",      \* a subscription is refused or breaks
               "stale",      \* a living stream stops stamping its heartbeat
               "truncate",   \* a retry or an edit deletes the message row
               "early"}      \* a client resumes before the last batch is out

ASSUME StreamJournalAssumption ==
  /\ MaxData \in Nat \ {0}
  /\ BatchSize \in Nat \ {0}
  /\ MaxConns \in Nat
  /\ Faults \subseteq FaultKinds
  /\ MaxFaults \in Nat

VARIABLES
  st,       \* per stream: its place in complete_stream and its journal writer
  wire,     \* per stream: the frames yielded to the POST that started it
  journal,  \* message_events: number -> event
  row,      \* status of the conversation_messages row; "gone" if deleted
  saved,    \* a pending_tool_state is there to be resumed
  cl,       \* the client and the reader coroutine that serves it
  left,     \* faults that may still happen
  seen,     \* history: frames the client was given
  lost,     \* history: numbers not published to a channel the client listened on
  overlap   \* history: a continuation started while the first stream was open

vars == <<st, wire, journal, row, saved, cl, left, seen, lost, overlap>>

Streams == {0, 1}                        \* the first stream, its continuation
Kinds   == {"data", "pause", "error", "end"}   \* "pause": tool_calls_pending
Events  == [by : Streams, n : Nat, kind : Kinds]
Frames  == [seq : Nat, ev : Events]
Terminal(e) == e.kind \in {"error", "end"}   \* _TERMINAL_EVENT_TYPES

NewStream(pc, seq) ==
  [pc |-> pc, seq |-> seq, buf |-> <<>>, missing |-> FALSE,
   io |-> "idle", batch |-> <<>>, retry |-> 0, frames |-> <<>>,
   dropped |-> FALSE]    \* history: an event was given up

NewClient(mode) ==
  [mode |-> mode, src |-> 0, base |-> 0, cursor |-> -1,
   subscribed |-> FALSE, loaded |-> FALSE, inbox |-> <<>>, conns |-> 0]

TypeOK ==
  /\ st \in [Streams ->
       [pc : {"none", "run", "pausing", "closing", "ending", "failing", "close",
              "done", "dead"},
        seq : Nat \cup {-1}, buf : Seq(Frames), missing : BOOLEAN,
        io : {"idle", "bulk", "rows", "retry"}, batch : Seq(Frames), retry : Nat,
        frames : Seq(Frames), dropped : BOOLEAN]]
  /\ wire \in [Streams -> Seq(Frames)]
  /\ DOMAIN journal \subseteq Nat
  /\ \A s \in DOMAIN journal : journal[s] \in Events
  /\ row \in {"pending", "complete", "failed", "gone"}
  /\ saved \in BOOLEAN
  /\ cl \in [mode : {"live", "away", "open", "over"}, src : Streams, base : Nat,
             cursor : Nat \cup {-1}, subscribed : BOOLEAN,
             loaded : BOOLEAN, inbox : Seq(Frames), conns : 0..MaxConns]
  /\ seen \subseteq Frames
  /\ lost \subseteq Nat
  /\ overlap \in BOOLEAN
  /\ left \in 0..MaxFaults

\* The generator has control: no flush is under way.
Ready(p) == st[p].io = "idle" /\ st[p].frames = <<>>
\* A frame whose record flushes is yielded after the flush.
Held(p) == ~Ready(p) /\ st[p].pc # "done"
Yielded(p) == IF Held(p) THEN SubSeq(wire[p], 1, Len(wire[p]) - 1) ELSE wire[p]
\* The stream is over and its process wrote all it is going to write.
Quiet(p) == st[p].pc \in {"none", "done", "dead"} /\ Ready(p)

\* What a statement sees of message_events: the rows go with the message.
Rows == IF row = "gone" THEN {} ELSE DOMAIN journal
Vacant(s) == row # "gone" /\ s \notin DOMAIN journal
\* latest_sequence_no, -1 for NULL
Latest == IF Rows = {} THEN -1
          ELSE CHOOSE s \in Rows : \A t \in Rows : t <= s

\* `journal` with the rows of the frames in `batch`.
With(batch) ==
  LET new == {batch[i].seq : i \in DOMAIN batch}
  IN  [s \in DOMAIN journal \cup new |->
        IF s \in new
          THEN (batch[CHOOSE i \in DOMAIN batch : batch[i].seq = s]).ev
          ELSE journal[s]]

\* A fault of this kind happens.
Fault(kind) == kind \in Faults /\ left > 0 /\ left' = left - 1

Init ==
  /\ st = [p \in Streams |-> NewStream(IF p = 0 THEN "run" ELSE "none", -1)]
  /\ wire = [p \in Streams |-> <<>>]
  /\ journal = [s \in {} |-> 0]
  /\ row = "pending"
  /\ saved = FALSE
  /\ cl = NewClient("live")
  /\ left = MaxFaults
  /\ seen = {} /\ lost = {} /\ overlap = FALSE

-----------------------------------------------------------------------------
(* The generator.                                                           *)

\* BatchedJournalWriter.record under `_emit`.  The batch is flushed when it is
\* full, or when this record finds 100 ms elapsed.
Emit(p, kind, next) ==
  LET f   == [seq |-> st[p].seq + 1,
              ev  |-> [by |-> p, n |-> Len(wire[p]) + 1, kind |-> kind]]
      buf == IF st[p].missing THEN <<>> ELSE Append(st[p].buf, f)
  IN  /\ Ready(p)
      /\ wire' = [wire EXCEPT ![p] = Append(@, f)]
      /\ \/ /\ Len(buf) < BatchSize
            /\ st' = [st EXCEPT ![p].pc = next, ![p].seq = f.seq, ![p].buf = buf]
         \/ /\ buf # <<>>
            /\ st' = [st EXCEPT ![p].pc = next, ![p].seq = f.seq, ![p].buf = <<>>,
                                ![p].batch = buf, ![p].io = "bulk"]
      /\ UNCHANGED <<journal, row, saved, cl, seen, lost, overlap>>

\* message_id first, then what the agent yields.
EmitData(p) ==
  /\ st[p].pc = "run" /\ Len(wire[p]) < MaxData
  /\ Emit(p, "data", "run")
  /\ UNCHANGED left

\* An error event of the agent is passed on and does not end the stream.
EmitAgentError(p) ==
  /\ Fault("agent")
  /\ st[p].pc = "run" /\ Len(wire[p]) \in 1..MaxData
  /\ Emit(p, "error", "run")

\* The generator is in its loop, or just after it: the agent may stop anywhere.
Generating(p) == st[p].pc = "run" /\ Ready(p) /\ wire[p] # <<>>

\* A tool pause: the state is saved, and only then the pause event is emitted.
\* (The stateless rounds of /v1 emit it as data, and finalize.)
Pause ==
  /\ Generating(0)
  /\ saved' = TRUE
  /\ st' = [st EXCEPT ![0].pc = "pausing"]
  /\ UNCHANGED <<wire, journal, row, cl, seen, lost, overlap, left>>

\* The state cannot be saved; the pause goes out all the same.
PauseUnsaved ==
  /\ Fault("db")
  /\ Generating(0)
  /\ st' = [st EXCEPT ![0].pc = "pausing"]
  /\ UNCHANGED <<wire, journal, row, saved, cl, seen, lost, overlap>>

\* Mutant: the terminal events are emitted, and the row is left for later.
Finalize_later(p) ==
  /\ Generating(p)
  /\ st' = [st EXCEPT ![p].pc = "closing"]
  /\ UNCHANGED <<wire, journal, row, saved, cl, seen, lost, overlap, left>>

\* finalize_message: complete, or failed when an error left nothing to show.
Finalize(p) ==
  /\ Generating(p)
  /\ row' \in (IF row = "pending" THEN {"complete", "failed"} ELSE {row})
  /\ st' = [st EXCEPT ![p].pc = "closing"]
  /\ UNCHANGED <<wire, journal, saved, cl, seen, lost, overlap, left>>

\* The generic handler: the row is failed, then a terminal error is emitted.
Raise(p) ==
  /\ Fault("error")
  /\ Generating(p) \/ (st[p].pc = "closing" /\ Ready(p) /\ row # "pending")
  /\ row' = IF row = "pending" THEN "failed" ELSE row
  /\ st' = [st EXCEPT ![p].pc = "failing"]
  /\ UNCHANGED <<wire, journal, saved, cl, seen, lost, overlap>>

\* The heartbeat found the row deleted: StreamSuperseded.
Supersede(p) ==
  /\ Generating(p) /\ row = "gone"
  /\ st' = [st EXCEPT ![p].pc = "close"]
  /\ UNCHANGED <<wire, journal, row, saved, cl, seen, lost, overlap, left>>

EmitTail(p) ==
  /\ \/ st[p].pc = "pausing" /\ Emit(p, "pause", "closing")
     \/ st[p].pc = "closing" /\ Emit(p, "data", "ending")     \* the `id` event
     \/ st[p].pc = "ending"  /\ Emit(p, "end", "close")
     \/ st[p].pc = "failing" /\ Emit(p, "error", "close")
  /\ UNCHANGED left

\* Mutant: the stream ends without its final flush.
Close_unflushed(p) ==
  /\ st[p].pc = "close" /\ Ready(p)
  /\ st' = [st EXCEPT ![p].pc = "done", ![p].buf = <<>>]
  /\ UNCHANGED <<wire, journal, row, saved, cl, seen, lost, overlap, left>>

\* BatchedJournalWriter.close: the final flush.
Close(p) ==
  /\ st[p].pc = "close" /\ Ready(p)
  /\ st' = [st EXCEPT ![p].pc = "done", ![p].buf = <<>>, ![p].batch = st[p].buf,
                      ![p].io = IF st[p].buf = <<>> THEN "idle" ELSE "bulk"]
  /\ UNCHANGED <<wire, journal, row, saved, cl, seen, lost, overlap, left>>

\* What was buffered is lost, and what was committed stays unpublished.
Crash(p) ==
  /\ Fault("crash") /\ ~Quiet(p)
  /\ st' = [st EXCEPT ![p] = [NewStream("dead", -1) EXCEPT !.dropped = st[p].dropped]]
  /\ wire' = [wire EXCEPT ![p] = Yielded(p)]
  /\ lost' = lost \cup (IF cl.mode = "open"
                         THEN {st[p].frames[i].seq : i \in DOMAIN st[p].frames} ELSE {})
  /\ UNCHANGED <<journal, row, saved, cl, seen, overlap>>

\* What a continuation counts on from.
Seed == Latest

\* The claim, and a stream over the same message numbered from `seed`.  The
\* client of the new POST may be the one we follow; it starts afresh.
Continue(seed) ==
  /\ saved /\ st[1].pc = "none"
  /\ saved' = FALSE
  /\ overlap' = ~Quiet(0)
  /\ st' = [st EXCEPT ![1] = NewStream("run", seed)]
  /\ \/ UNCHANGED cl
     \/ /\ cl.mode \in {"live", "over"}
        /\ cl' = [NewClient("live") EXCEPT !.src = 1, !.base = seed + 1,
                                           !.conns = cl.conns]
  /\ UNCHANGED <<wire, journal, row, seen, lost>>

\* The tool results arrive.
Resume == Quiet(0) /\ Continue(Seed) /\ UNCHANGED left

\* They arrive when `end` is out and the last batch of its stream still is not.
ResumeEarly ==
  /\ Fault("early") /\ ~Quiet(0)
  /\ st[0].pc = "done" \/ (st[0].pc = "close" /\ Ready(0))
  /\ Continue(Seed)

\* The lookup of the latest number fails, and the continuation starts at zero.
\* (Not counted in MaxFaults: only after another fault does it meet free numbers.)
ResumeUnseeded == "db" \in Faults /\ Quiet(0) /\ Continue(-1) /\ UNCHANGED left

\* truncate_after: the message row goes, and its journal with it.
Truncate ==
  /\ Fault("truncate") /\ row # "gone"
  /\ row' = "gone"
  /\ UNCHANGED <<st, wire, journal, saved, cl, seen, lost, overlap>>

-----------------------------------------------------------------------------
(* The journal writer: flush, in the thread of the generator.               *)

\* One INSERT for the batch; committed, its frames are published in order.
BulkInsert(p) ==
  /\ st[p].io = "bulk"
  /\ \A i \in DOMAIN st[p].batch : Vacant(st[p].batch[i].seq)
  /\ journal' = With(st[p].batch)
  /\ st' = [st EXCEPT ![p].io = "idle", ![p].batch = <<>>, ![p].frames = st[p].batch]
  /\ UNCHANGED <<wire, row, saved, cl, seen, lost, overlap, left>>

\* Foreign key violation: nothing can be written for this message any more.
BulkOrphaned(p) ==
  /\ st[p].io = "bulk" /\ row = "gone"
  /\ st' = [st EXCEPT ![p].io = "idle", ![p].batch = <<>>, ![p].missing = TRUE]
  /\ UNCHANGED <<wire, journal, row, saved, cl, seen, lost, overlap, left>>

\* A number is taken: fall back to one INSERT per event.
BulkCollides(p) ==
  /\ st[p].io = "bulk" /\ row # "gone"
  /\ \E i \in DOMAIN st[p].batch : ~Vacant(st[p].batch[i].seq)
  /\ st' = [st EXCEPT ![p].io = "rows"]
  /\ UNCHANGED <<wire, journal, row, saved, cl, seen, lost, overlap, left>>

\* Any other failure drops the batch.
BulkFails(p) ==
  /\ Fault("db") /\ st[p].io = "bulk"
  /\ st' = [st EXCEPT ![p].io = "idle", ![p].batch = <<>>, ![p].dropped = TRUE]
  /\ UNCHANGED <<wire, journal, row, saved, cl, seen, lost, overlap>>

\* The writer after the head of the batch, with `out` to publish: that event
\* as it was committed, or nothing when it is given up.
NextRow(p, out) ==
  [st EXCEPT ![p].io = IF Len(st[p].batch) = 1 THEN "idle" ELSE "rows",
             ![p].batch = Tail(@), ![p].frames = out, ![p].retry = 0,
             ![p].dropped = @ \/ out = <<>>]

\* _flush_per_row: the INSERT of one event, published as soon as it commits.
InsertRow(p) ==
  LET f == Head(st[p].batch) IN
  /\ st[p].io = "rows" /\ st[p].frames = <<>>
  /\ Vacant(f.seq)
  /\ journal' = With(<<f>>)
  /\ st' = NextRow(p, <<f>>)
  /\ UNCHANGED <<wire, row, saved, cl, seen, lost, overlap, left>>

\* The INSERT collides, and the number after the latest is looked up.
LookUpLatest(p) ==
  /\ st[p].io = "rows" /\ st[p].frames = <<>>
  /\ ~Vacant(Head(st[p].batch).seq)
  /\ st' = [st EXCEPT ![p].io = "retry", ![p].retry = Latest + 1]
  /\ UNCHANGED <<wire, journal, row, saved, cl, seen, lost, overlap, left>>

\* Mutant: the frame of a renumbered event keeps its first number.
RetryRow_oldNumber(p) ==
  LET f == [Head(st[p].batch) EXCEPT !.seq = st[p].retry] IN
  /\ st[p].io = "retry"
  /\ IF Vacant(f.seq)
       THEN journal' = With(<<f>>) /\ st' = NextRow(p, <<Head(st[p].batch)>>)
       ELSE UNCHANGED journal /\ st' = NextRow(p, <<>>)
  /\ UNCHANGED <<wire, row, saved, cl, seen, lost, overlap, left>>

\* The event is written at that number, or dropped when it is taken as well.
RetryRow(p) ==
  LET f == [Head(st[p].batch) EXCEPT !.seq = st[p].retry] IN
  /\ st[p].io = "retry"
  /\ IF Vacant(f.seq)
       THEN journal' = With(<<f>>) /\ st' = NextRow(p, <<f>>)
       ELSE UNCHANGED journal /\ st' = NextRow(p, <<>>)
  /\ UNCHANGED <<wire, row, saved, cl, seen, lost, overlap, left>>

\* An INSERT of the fallback, its retry, or the lookup fails: that event is
\* dropped, and the next one is tried.
RowFails(p) ==
  /\ Fault("db")
  /\ st[p].io = "retry" \/ (st[p].io = "rows" /\ st[p].frames = <<>>)
  /\ st' = NextRow(p, <<>>)
  /\ UNCHANGED <<wire, journal, row, saved, cl, seen, lost, overlap>>

\* A publish reaches the client's reader from the SUBSCRIBE on.
Listening == cl.mode = "open" /\ cl.subscribed

\* Topic.publish: at most once, to whoever listens.
Publish(p) ==
  LET f == Head(st[p].frames) IN
  /\ st[p].frames # <<>>
  /\ st' = [st EXCEPT ![p].frames = Tail(@)]
  /\ cl' = IF Listening THEN [cl EXCEPT !.inbox = Append(@, f)] ELSE cl
  /\ UNCHANGED <<wire, journal, row, saved, seen, lost, overlap, left>>

\* The publish raises, or its frame is lost on the way.
PublishLost(p) ==
  /\ Fault("drop") /\ st[p].frames # <<>> /\ Listening
  /\ lost' = lost \cup {Head(st[p].frames).seq}
  /\ st' = [st EXCEPT ![p].frames = Tail(@)]
  /\ UNCHANGED <<wire, journal, row, saved, cl, seen, overlap>>

-----------------------------------------------------------------------------
(* The client, and the reader that serves it.                               *)

\* The reader of `c` returns.
Closed(c, mode) ==
  [c EXCEPT !.mode = mode, !.subscribed = FALSE, !.loaded = FALSE, !.inbox = <<>>]

\* A reconnected client is handed `frames`.
Hand(frames) == seen' = seen \cup frames

\* The client has received the first `k` frames of its POST.
Received(k, mode) ==
  LET got == SubSeq(Yielded(cl.src), 1, k) IN
  /\ cl' = [cl EXCEPT !.mode = mode, !.cursor = IF k = 0 THEN @ ELSE got[k].seq]
  /\ seen' = seen \cup {got[i] : i \in 1..k}
  /\ UNCHANGED <<st, wire, journal, row, saved, lost, overlap, left>>

\* The POST's connection drops somewhere; the stream goes on, the pump drains it.
LiveDrops ==
  cl.mode = "live" /\ \E k \in 0..Len(Yielded(cl.src)) : Received(k, "away")

\* The POST closes: without a terminal event the client will reconnect.
LiveEnds ==
  LET w == wire[cl.src] IN
  /\ cl.mode = "live" /\ Quiet(cl.src)
  /\ Received(Len(w), IF \E i \in DOMAIN w : Terminal(w[i].ev) THEN "over" ELSE "away")

\* The reconnect's connection drops.  (A client that will not come back is not
\* followed.)
Disconnect ==
  /\ cl.mode = "open" /\ cl.conns < MaxConns
  /\ cl' = Closed(cl, "away")
  /\ UNCHANGED <<st, wire, journal, row, saved, seen, lost, overlap, left>>

\* GET /api/messages/<id>/events with the last id received; SUBSCRIBE comes
\* first, and the snapshot is read when it is acknowledged.
Open(subscribed) ==
  /\ cl.mode = "away" /\ cl.conns < MaxConns /\ row # "gone"
  /\ cl' = [cl EXCEPT !.mode = "open", !.subscribed = subscribed, !.conns = @ + 1]
  /\ UNCHANGED <<st, wire, journal, row, saved, seen, lost, overlap>>

Connect == Open(TRUE) /\ UNCHANGED left

\* Redis is unavailable: the snapshot is all the reader has.
SubscribeRefused == Fault("redis") /\ Open(FALSE)

\* Mutant: the cursor is taken for the next number the client expects.
Backlog_fromNext == {s \in Rows : s > cl.cursor + 1}

\* read_after
Backlog == {s \in Rows : s > cl.cursor}

RowsAt(numbers) == {[seq |-> s, ev |-> journal[s]] : s \in numbers}

\* read_snapshot_lines, and the flush of its lines before any queued frame; with
\* a terminal event among them the connection closes after the last line.
Snapshot ==
  LET c == [cl EXCEPT !.loaded = TRUE, !.cursor = IF Backlog = {} THEN @ ELSE Latest] IN
  /\ cl.mode = "open" /\ ~cl.loaded
  /\ Hand(RowsAt(Backlog))
  /\ cl' = IF \E s \in Backlog : Terminal(journal[s]) THEN Closed(c, "over") ELSE c
  /\ UNCHANGED <<st, wire, journal, row, saved, lost, overlap, left>>

\* The connection drops amid the lines, after the one numbered `last`.
SnapshotCut ==
  /\ cl.mode = "open" /\ ~cl.loaded /\ cl.conns < MaxConns
  /\ \E last \in Backlog :
       /\ Hand(RowsAt({s \in Backlog : s <= last}))
       /\ cl' = Closed([cl EXCEPT !.cursor = last], "away")
  /\ UNCHANGED <<st, wire, journal, row, saved, lost, overlap, left>>

\* The snapshot cannot be read: a synthetic error, and the stream closes.
SnapshotFails ==
  /\ Fault("db")
  /\ cl.mode = "open" /\ ~cl.loaded
  /\ cl' = Closed(cl, "over")
  /\ UNCHANGED <<st, wire, journal, row, saved, seen, lost, overlap>>

Tailing == cl.mode = "open" /\ cl.loaded /\ cl.subscribed

\* Mutant: the tail delivers what the snapshot already covered.
Fresh_always(f) == TRUE

\* The dedup floor of the tail.
Fresh(f) == f.seq > cl.cursor

\* A queued frame: dropped, delivered, or delivered as the last one.
TailFrame ==
  LET f    == Head(cl.inbox)
      rest == [cl EXCEPT !.inbox = Tail(@)]
      c    == [rest EXCEPT !.cursor = f.seq]
  IN  /\ Tailing /\ cl.inbox # <<>>
      /\ IF Fresh(f)
           THEN Hand({f}) /\ cl' = IF Terminal(f.ev) THEN Closed(c, "over") ELSE c
           ELSE cl' = rest /\ UNCHANGED seen
      /\ UNCHANGED <<st, wire, journal, row, saved, lost, overlap, left>>

\* Mutant: the watchdog looks at the status only.
ProducerGone_statusOnly == row # "pending"

\* The row is terminal or missing, or its heartbeat went stale: the age is
\* dropped, and a stream that is not over stamps it in time.
ProducerGone == row # "pending" \/ \A p \in Streams : Quiet(p)

\* _check_producer_liveness on an idle tick: a synthetic terminal event.
Watchdog ==
  /\ Tailing /\ cl.inbox = <<>> /\ ProducerGone
  /\ cl' = Closed(cl, "over")
  /\ UNCHANGED <<st, wire, journal, row, saved, seen, lost, overlap, left>>

\* The heartbeat of a stream that goes on is stale: its stamps fail, or the hour
\* of STREAM_HEARTBEAT_MAX_SECONDS is over.
WatchdogStale ==
  /\ Fault("stale") /\ Tailing /\ cl.inbox = <<>>
  /\ cl' = Closed(cl, "over")
  /\ UNCHANGED <<st, wire, journal, row, saved, seen, lost, overlap>>

\* get_message raises: what was read is still flushed, and nothing follows.
SubscriptionBreaks ==
  /\ Fault("redis") /\ cl.mode = "open" /\ cl.subscribed
  /\ cl' = [cl EXCEPT !.subscribed = FALSE, !.inbox = <<>>]
  /\ UNCHANGED <<st, wire, journal, row, saved, seen, lost, overlap>>

\* Without a subscription the connection closes after the snapshot.
CloseUntailed ==
  /\ cl.mode = "open" /\ cl.loaded /\ ~cl.subscribed
  /\ cl' = Closed(cl, "away")
  /\ UNCHANGED <<st, wire, journal, row, saved, seen, lost, overlap, left>>

-----------------------------------------------------------------------------
Generate(p) == EmitData(p) \/ Finalize(p) \/ Supersede(p) \/ EmitTail(p) \/ Close(p)
Flush(p)    == BulkInsert(p) \/ BulkOrphaned(p) \/ BulkCollides(p) \/ InsertRow(p)
               \/ LookUpLatest(p) \/ RetryRow(p) \/ Publish(p)
Read        == Snapshot \/ TailFrame \/ Watchdog \/ CloseUntailed
Client      == Connect \/ Disconnect \/ SnapshotCut \/ LiveDrops \/ LiveEnds \/ Resume
StreamFault(p) == EmitAgentError(p) \/ Raise(p) \/ Crash(p) \/ BulkFails(p)
                  \/ RowFails(p) \/ PublishLost(p)
OtherFault  == PauseUnsaved \/ ResumeEarly \/ ResumeUnseeded \/ Truncate
               \/ SubscribeRefused \/ SnapshotFails \/ SubscriptionBreaks \/ WatchdogStale

Next ==
  \/ \E p \in Streams : Generate(p) \/ Flush(p) \/ StreamFault(p)
  \/ Pause \/ Read \/ Client \/ OtherFault

Spec == Init /\ [][Next]_vars

\* A generator that is not dead goes on, a flush returns, and the reader takes
\* what its loop finds.  Clients, pauses and faults owe nothing.
FairSpec ==
  /\ Spec
  /\ \A p \in Streams : WF_vars(Generate(p)) /\ WF_vars(Flush(p))
  /\ WF_vars(Read)

-----------------------------------------------------------------------------
(* Properties.                                                              *)

\* A frame on the channel is the event of a committed row with its number, also
\* after a collision moved it: a client that reconnects at once finds it
\* (message_journal.py: "the INSERT commits before the publish").
FrameHasRow ==
  \A i \in DOMAIN cl.inbox :
    LET f == cl.inbox[i] IN f.seq \in DOMAIN journal /\ journal[f.seq] = f.ev

\* A stream that closed its journal has each of its events there, in its own
\* order, at whatever numbers the collisions left: neither a stale seed nor a
\* second writer costs an event, if none was given up (message_journal.py:
\* "one bad seq doesn't drop the rest of the batch").  A hole in the journal of
\* the first stream would be filled by an unseeded continuation out of order.
JournalKeepsOrder ==
  (row # "gone" /\ \A p \in Streams : ~st[p].dropped) =>
    \A p \in Streams :
      (st[p].pc = "done" /\ Ready(p)) =>
        \A i \in DOMAIN wire[p] :
          \E s \in DOMAIN journal :
            /\ journal[s] = wire[p][i].ev
            /\ \A t \in DOMAIN journal :
                 (journal[t].by = p /\ journal[t].n < i) => t < s

\* The journal has, at a number that was on a wire, another event.
Reused(s) ==
  \E p \in Streams : \E i \in DOMAIN wire[p] :
    wire[p][i].seq = s /\ s \in DOMAIN journal /\ journal[s] # wire[p][i].ev

\* The cursor a client reconnects with never passes a row it was not given.
\* Three things make an exception: a lost publish, a number that an
\* unwritten batch left to be used twice, and two streams writing at once.
CursorPassesNothing ==
  \A s \in Rows :
    (cl.base <= s /\ s <= cl.cursor) =>
      \/ [seq |-> s, ev |-> journal[s]] \in seen
      \/ s \in lost
      \/ \E t \in 0..s : Reused(t)
      \/ overlap

\* A client that is told `end` finds the row finished, or the turn paused: the
\* generator finalizes before it emits (routes/base.py).
EndAfterFinalize ==
  \A f \in seen :
    f.ev.kind = "end" =>
      \/ row # "pending"
      \/ \E i \in DOMAIN wire[f.ev.by] : wire[f.ev.by][i].ev.kind = "pause"

\* A reconnected client is not left with keepalives for ever: whatever was
\* lost, some terminal event, or the end of the connection, reaches it
\* (event_replay.py, the watchdog).
ReaderEnds == cl.mode = "open" ~> cl.mode # "open"

\* "This replays the message's events past your last-seen sequence number and
\* tails the rest live" (docs/content/Agents/notifications.mdx): when the stream
\* is over, a client that was told so has all it journaled.
TailsTheRest ==
  (cl.mode = "over" /\ Quiet(0)) =>
    \A s \in DOMAIN journal :
      journal[s].by = 0 => [seq |-> s, ev |-> journal[s]] \in seen

-----------------------------------------------------------------------------
(* The promise to a client that reconnects, as a log.                       *)

\* The frames that the streams have put on their connections.
OnWire == UNION {{Yielded(p)[i] : i \in DOMAIN Yielded(p)} : p \in Streams}

Log == INSTANCE ReplayLog WITH
         Frame  <- Frames,
         Ending <- {e \in Events : Terminal(e)},
         log    <- journal,
         sent   <- OnWire,
         given  <- seen,
         cursor <- cl.cursor,
         mode   <- CASE cl.mode = "live" -> "following"
                     [] cl.mode = "over" -> "over"
                     [] OTHER            -> "away"

\* Whatever is batched, renumbered, published twice or late, lost or cut: a client that
\* reconnects is given committed rows only, all the rows of the snapshot and each later
\* one once, with rising ids and nothing after a terminal event
\* (async_event_replay.py: the snapshot, its cursor and the dedup floor of the tail).
ImplementsReplayLog == Log!Spec
=============================================================================
