------------------------ MODULE StreamJournalProofs ------------------------
(***************************************************************************)
(* Theorems about StreamJournal, for every batch size, number of events and *)
(* reconnects, and under any number of faults of every kind.                *)
(***************************************************************************)
EXTENDS StreamJournal, TLAPS

Places == {"none", "run", "pausing", "closing", "ending", "failing", "close",
           "done", "dead"}
StreamType ==
  [pc : Places, seq : Nat \cup {-1}, buf : Seq(Frames), missing : BOOLEAN,
   io : {"idle", "bulk", "rows", "retry"}, batch : Seq(Frames), retry : Nat,
   frames : Seq(Frames), dropped : BOOLEAN]
ClientType ==
  [mode : {"live", "away", "open", "over"}, src : Streams, base : Nat,
   cursor : Nat \cup {-1}, subscribed : BOOLEAN,
   loaded : BOOLEAN, inbox : Seq(Frames), conns : 0..MaxConns]

\* The numbers of the frames `fs` go up.
Increasing(fs) == \A i, j \in DOMAIN fs : i < j => fs[i].seq < fs[j].seq

\* Each of the frames `fs` is the event of the row with its number.
Committed(fs) ==
  \A i \in DOMAIN fs : fs[i].seq \in DOMAIN journal /\ journal[fs[i].seq] = fs[i].ev

\* A writer whose numbers go up and which publishes only what it has committed.
StreamOK(r) ==
  /\ r \in StreamType
  /\ Increasing(r.buf) /\ Increasing(r.batch)
  /\ \A i \in DOMAIN r.buf : r.buf[i].seq <= r.seq
  /\ r.io # "idle" => r.batch # <<>>
  /\ Committed(r.frames)

\* The journal holds events, and it has a last row unless it is empty.
JournalOK ==
  /\ DOMAIN journal \subseteq Nat
  /\ \A s \in DOMAIN journal : journal[s] \in Events
  /\ \/ DOMAIN journal = {}
     \/ \E m \in DOMAIN journal : \A s \in DOMAIN journal : s <= m

StreamsOK == st \in [Streams -> StreamType] /\ \A p \in Streams : StreamOK(st[p])

\* What the reader has queued is committed.
ClientOK == cl \in ClientType /\ Committed(cl.inbox)

RestOK ==
  /\ wire \in [Streams -> Seq(Frames)]
  /\ row \in {"pending", "complete", "failed", "gone"}
  /\ saved \in BOOLEAN
  /\ seen \subseteq Frames
  /\ lost \subseteq Nat
  /\ overlap \in BOOLEAN
  /\ left \in 0..MaxFaults

JournalInv == StreamsOK /\ JournalOK /\ ClientOK /\ RestOK

LEMMA InvImplies == JournalInv => TypeOK /\ FrameHasRow
BY DEF JournalInv, StreamsOK, JournalOK, ClientOK, RestOK, TypeOK, StreamType,
       ClientType, Places, FrameHasRow, Committed

-----------------------------------------------------------------------------
(* The journal only grows, and what was committed stays so.                 *)

Kept == \A s \in DOMAIN journal : s \in DOMAIN journal' /\ journal'[s] = journal[s]

LEMMA SameIsKept == ASSUME UNCHANGED journal PROVE Kept
BY DEF Kept

LEMMA JournalStays == ASSUME JournalOK, UNCHANGED journal PROVE JournalOK'
BY DEF JournalOK

LEMMA CommittedStays ==
  ASSUME NEW fs, Committed(fs), Kept PROVE Committed(fs)'
BY DEF Committed, Kept

LEMMA ClientStays == ASSUME ClientOK, Kept, UNCHANGED cl PROVE ClientOK'
BY DEF ClientOK, Committed, Kept

\* A step of stream `p` leaves it as `r`, and the other stream alone.
LEMMA StreamsStay ==
  ASSUME StreamsOK, Kept, NEW p \in Streams, NEW r, StreamOK(r)',
         st' = [st EXCEPT ![p] = r]
  PROVE  StreamsOK'
<1>1. r \in StreamType
  BY DEF StreamOK
<1>2. st' \in [Streams -> StreamType]
  BY <1>1 DEF StreamsOK
<1>3. ASSUME NEW q \in Streams PROVE StreamOK(st[q])'
  <2>1. CASE q = p
    <3>1. st'[q] = r
      BY <2>1 DEF StreamsOK
    <3> QED
      BY <3>1 DEF StreamOK, Committed
  <2>2. CASE q # p
    <3>1. st'[q] = st[q] /\ StreamOK(st[q])
      BY <2>2 DEF StreamsOK
    <3> QED
      BY <3>1 DEF StreamOK, Committed, Kept
  <2> QED
    BY <2>1, <2>2
<1> QED
  BY <1>2, <1>3 DEF StreamsOK

LEMMA AllStreamsStay == ASSUME StreamsOK, Kept, UNCHANGED st PROVE StreamsOK'
BY DEF StreamsOK, StreamOK, Committed, Kept

LEMMA LatestIsRow ==
  ASSUME JournalOK
  PROVE  /\ Latest \in Nat \cup {-1}
         /\ Rows # {} => Latest \in Rows /\ \A s \in Rows : s <= Latest
<1>1. CASE Rows = {}
  BY <1>1 DEF Latest
<1>2. CASE Rows # {}
  <2>1. \E m \in Rows : \A s \in Rows : s <= m
    BY <1>2 DEF JournalOK, Rows
  <2>2. Latest \in Rows /\ \A s \in Rows : s <= Latest
    BY <1>2, <2>1 DEF Latest
  <2> QED
    BY <2>2 DEF JournalOK, Rows
<1> QED
  BY <1>1, <1>2

\* The rows of a batch with new, rising numbers: the batch is committed, and
\* what was there stays.
LEMMA WithCommits ==
  ASSUME JournalOK, NEW b \in Seq(Frames), Increasing(b), b # <<>>,
         \A i \in DOMAIN b : Vacant(b[i].seq), journal' = With(b)
  PROVE  Kept /\ Committed(b)' /\ JournalOK'
<1> DEFINE new == {b[i].seq : i \in DOMAIN b}
<1>1. \A i \in DOMAIN b : b[i] \in Frames /\ b[i].seq \in Nat /\ b[i].ev \in Events
  <2>1. \A i \in DOMAIN b : b[i] \in Frames
    OBVIOUS
  <2> QED
    BY <2>1 DEF Frames
<1>2. /\ DOMAIN journal' = DOMAIN journal \cup new
      /\ \A s \in DOMAIN journal' : journal'[s] =
           IF s \in new THEN (b[CHOOSE i \in DOMAIN b : b[i].seq = s]).ev ELSE journal[s]
  BY DEF With
<1>3. Kept
  BY <1>2 DEF Kept, Vacant
<1>4. \A i \in DOMAIN b : (CHOOSE j \in DOMAIN b : b[j].seq = b[i].seq) = i
  <2> SUFFICES ASSUME NEW i \in DOMAIN b
               PROVE  (CHOOSE j \in DOMAIN b : b[j].seq = b[i].seq) = i
    OBVIOUS
  <2>1. \A j \in DOMAIN b : b[j].seq = b[i].seq => j = i
    BY <1>1 DEF Increasing
  <2> QED
    BY <2>1
<1>5. Committed(b)'
  BY <1>2, <1>4 DEF Committed
<1>6. DOMAIN journal' \subseteq Nat /\ \A s \in DOMAIN journal' : journal'[s] \in Events
  <2>1. \A s \in new : journal'[s] \in Events
    BY <1>1, <1>2, <1>4
  <2> QED
    BY <1>1, <1>2, <2>1 DEF JournalOK
<1>7. \E m \in DOMAIN journal' : \A s \in DOMAIN journal' : s <= m
  <2>1. Len(b) \in DOMAIN b /\ \A i \in DOMAIN b : b[i].seq <= b[Len(b)].seq
    BY <1>1 DEF Increasing
  <2> DEFINE top == b[Len(b)].seq
  <2>2. top \in new /\ top \in Nat /\ \A s \in new : s <= top
    BY <1>1, <2>1
  <2>3. DOMAIN journal' = DOMAIN journal \cup new /\ new \subseteq Nat
    BY <1>1, <1>2
  <2> HIDE DEF new, top
  <2>4. CASE DOMAIN journal = {}
    BY <2>2, <2>4, <2>3
  <2>5. CASE \E m \in DOMAIN journal : \A s \in DOMAIN journal : s <= m
    <3>1. PICK m \in DOMAIN journal : \A s \in DOMAIN journal : s <= m
      BY <2>5
    <3>2. m \in Nat /\ DOMAIN journal \subseteq Nat
      BY <3>1 DEF JournalOK
    <3>3. CASE m <= top
      <4>1. \A s \in DOMAIN journal' : s <= top
        BY <2>2, <2>3, <3>1, <3>2, <3>3
      <4> QED
        BY <4>1, <2>2, <2>3
    <3>4. CASE top < m
      <4>1. \A s \in DOMAIN journal' : s <= m
        <5> SUFFICES ASSUME NEW s \in DOMAIN journal' PROVE s <= m
          OBVIOUS
        <5>1. CASE s \in DOMAIN journal
          BY <5>1, <3>1
        <5>2. CASE s \in new
          <6>1. s \in Nat /\ s <= top
            BY <5>2, <2>2, <2>3
          <6> QED
            BY <6>1, <2>2, <3>2, <3>4
        <5> QED
          BY <5>1, <5>2, <2>3
      <4> QED
        BY <4>1, <3>1, <2>3
    <3> QED
      BY <2>2, <3>2, <3>3, <3>4
  <2> QED
    BY <2>4, <2>5 DEF JournalOK
<1> QED
  BY <1>3, <1>5, <1>6, <1>7 DEF JournalOK
-----------------------------------------------------------------------------
(* What the steps leave of a stream.                                        *)

\* The generator moves on without emitting.
LEMMA Moved ==
  ASSUME StreamsOK, UNCHANGED journal, NEW p \in Streams, NEW x \in Places,
         st' = [st EXCEPT ![p].pc = x]
  PROVE  StreamsOK'
<1>1. PICK r : r = [st[p] EXCEPT !.pc = x]
  OBVIOUS
<1>2. StreamOK(st[p])
  BY DEF StreamsOK
<1>3. StreamOK(r)'
  BY <1>1, <1>2 DEF StreamOK, StreamType, Committed
<1>4. st' = [st EXCEPT ![p] = r]
  BY <1>1 DEF StreamsOK
<1> QED
  BY <1>3, <1>4, StreamsStay, SameIsKept

LEMMA Appended ==
  ASSUME NEW q \in Nat \cup {-1}, NEW s \in Seq(Frames), NEW f \in Frames,
         f.seq = q + 1, Increasing(s), \A i \in DOMAIN s : s[i].seq <= q
  PROVE  /\ Append(s, f) \in Seq(Frames) /\ Increasing(Append(s, f))
         /\ \A i \in DOMAIN Append(s, f) : Append(s, f)[i].seq <= f.seq
<1>1. \A i \in DOMAIN s : s[i] \in Frames
  OBVIOUS
<1>2. \A i \in DOMAIN s : s[i].seq \in Nat /\ s[i].seq < f.seq
  BY <1>1 DEF Frames
<1>3. f.seq \in Nat
  BY DEF Frames
<1>4. /\ DOMAIN Append(s, f) = 1..(Len(s) + 1)
      /\ \A i \in DOMAIN s : Append(s, f)[i] = s[i]
      /\ Append(s, f)[Len(s) + 1] = f
      /\ \A i \in DOMAIN Append(s, f) : i \in DOMAIN s \/ i = Len(s) + 1
  OBVIOUS
<1>5. \A i, j \in DOMAIN Append(s, f) : i < j => i \in DOMAIN s
  BY <1>4
<1>6. Increasing(Append(s, f))
  BY <1>2, <1>4, <1>5 DEF Increasing
<1>7. \A i \in DOMAIN Append(s, f) : Append(s, f)[i].seq <= f.seq
  BY <1>2, <1>3, <1>4
<1> QED
  BY <1>6, <1>7

LEMMA TailOf ==
  ASSUME NEW s \in Seq(Frames), s # <<>>
  PROVE  /\ Head(s) \in Frames /\ Tail(s) \in Seq(Frames)
         /\ 1 \in DOMAIN s /\ Head(s) = s[1]
         /\ \A i \in DOMAIN Tail(s) : i + 1 \in DOMAIN s /\ Tail(s)[i] = s[i + 1]
         /\ Increasing(s) => Increasing(Tail(s))
         /\ Len(s) # 1 => Tail(s) # <<>>
<1>1. /\ Head(s) \in Frames /\ Tail(s) \in Seq(Frames)
      /\ 1 \in DOMAIN s /\ Head(s) = s[1] /\ Len(Tail(s)) = Len(s) - 1
      /\ \A i \in DOMAIN Tail(s) : i \in Nat /\ i + 1 \in DOMAIN s /\ Tail(s)[i] = s[i + 1]
  OBVIOUS
<1>2. Increasing(s) => Increasing(Tail(s))
  BY <1>1 DEF Increasing
<1> QED
  BY <1>1, <1>2

\* The head of the batch is dealt with: nothing is to be published, or `out`.
LEMMA NextRowOK ==
  ASSUME StreamsOK, Kept, NEW p \in Streams, st[p].batch # <<>>,
         NEW out \in Seq(Frames), Committed(out)', st' = NextRow(p, out)
  PROVE  StreamsOK'
<1> DEFINE b == st[p].batch
<1>1. PICK r : r = [st[p] EXCEPT !.io = IF Len(b) = 1 THEN "idle" ELSE "rows",
                                 !.batch = Tail(b), !.frames = out, !.retry = 0,
                                 !.dropped = st[p].dropped \/ out = <<>>]
  OBVIOUS
<1>2. StreamOK(st[p]) /\ st[p] \in StreamType
  BY DEF StreamsOK
<1>3. b \in Seq(Frames) /\ Increasing(b)
  BY <1>2 DEF StreamOK, StreamType
<1>4. Tail(b) \in Seq(Frames) /\ Increasing(Tail(b)) /\ (Len(b) # 1 => Tail(b) # <<>>)
  BY <1>3, TailOf
<1>5. /\ r.buf = st[p].buf /\ r.seq = st[p].seq /\ r.batch = Tail(b)
      /\ r.frames = out /\ r.io = IF Len(b) = 1 THEN "idle" ELSE "rows"
  BY <1>1, <1>2 DEF StreamType
<1>6. r \in StreamType
  BY <1>1, <1>2, <1>4 DEF StreamType
<1>7. StreamOK(r)'
  BY <1>2, <1>4, <1>5, <1>6 DEF StreamOK
<1>8. st' = [st EXCEPT ![p] = r]
  BY <1>1 DEF StreamsOK, NextRow
<1> QED
  BY <1>7, <1>8, StreamsStay

\* An event is emitted, and the batch flushed or not.
LEMMA EmitOK ==
  ASSUME StreamsOK, wire \in [Streams -> Seq(Frames)], NEW p \in Streams,
         NEW kind \in Kinds, NEW next \in Places, Emit(p, kind, next)
  PROVE  StreamsOK' /\ wire' \in [Streams -> Seq(Frames)]
<1> DEFINE f   == [seq |-> st[p].seq + 1,
                   ev  |-> [by |-> p, n |-> Len(wire[p]) + 1, kind |-> kind]]
           buf == IF st[p].missing THEN <<>> ELSE Append(st[p].buf, f)
<1>1. StreamOK(st[p]) /\ st[p] \in StreamType /\ Kept
  BY SameIsKept DEF StreamsOK, Emit
<1>2. f \in Frames /\ f.seq = st[p].seq + 1
  <2>1. Len(wire[p]) + 1 \in Nat /\ st[p].seq + 1 \in Nat
    BY <1>1 DEF StreamType
  <2> QED
    BY <2>1 DEF Frames, Events
<1>3. /\ buf \in Seq(Frames) /\ Increasing(buf)
      /\ \A i \in DOMAIN buf : buf[i].seq <= f.seq
  <2>1. CASE st[p].missing
    BY <2>1 DEF Increasing
  <2>2. CASE ~st[p].missing
    <3>1. /\ Append(st[p].buf, f) \in Seq(Frames) /\ Increasing(Append(st[p].buf, f))
          /\ \A i \in DOMAIN Append(st[p].buf, f) : Append(st[p].buf, f)[i].seq <= f.seq
      <4> HIDE DEF f
      <4> QED
        BY <1>1, <1>2, Appended DEF StreamOK, StreamType
    <3> QED
      BY <2>2, <3>1
  <2> QED
    BY <2>1, <2>2
<1>4. wire' = [wire EXCEPT ![p] = Append(@, f)]
  BY DEF Emit
<1>5. \/ st' = [st EXCEPT ![p].pc = next, ![p].seq = f.seq, ![p].buf = buf]
      \/ buf # <<>> /\ st' = [st EXCEPT ![p].pc = next, ![p].seq = f.seq, ![p].buf = <<>>,
                                         ![p].batch = buf, ![p].io = "bulk"]
  BY DEF Emit
<1>6. f.seq \in Nat
  BY <1>2 DEF Frames
<1> HIDE DEF f, buf
<1>9. wire' \in [Streams -> Seq(Frames)]
  <2>1. Append(wire[p], f) \in Seq(Frames)
    BY <1>2
  <2> QED
    BY <1>4, <2>1
<1>7. CASE st' = [st EXCEPT ![p].pc = next, ![p].seq = f.seq, ![p].buf = buf]
  <2>1. PICK r : r = [st[p] EXCEPT !.pc = next, !.seq = f.seq, !.buf = buf]
    OBVIOUS
  <2>2. /\ r \in StreamType /\ r.buf = buf /\ r.seq = f.seq /\ r.io = st[p].io
        /\ r.batch = st[p].batch /\ r.frames = st[p].frames
    BY <1>1, <1>3, <1>6, <2>1 DEF StreamType
  <2>3. StreamOK(r)'
    BY <1>1, <1>3, <2>2 DEF StreamOK, Committed, Kept
  <2>4. st' = [st EXCEPT ![p] = r]
    BY <1>7, <2>1 DEF StreamsOK
  <2> QED
    BY <1>1, <1>9, <2>3, <2>4, StreamsStay
<1>8. CASE buf # <<>> /\ st' = [st EXCEPT ![p].pc = next, ![p].seq = f.seq,
                             ![p].buf = <<>>, ![p].batch = buf, ![p].io = "bulk"]
  <2>1. PICK r : r = [st[p] EXCEPT !.pc = next, !.seq = f.seq, !.buf = <<>>,
                                   !.batch = buf, !.io = "bulk"]
    OBVIOUS
  <2>2. /\ r.buf = <<>> /\ r.batch = buf /\ r.frames = st[p].frames
        /\ r.seq = f.seq /\ r.io = "bulk" /\ r.pc = next
    BY <1>1, <2>1 DEF StreamType
  <2>3. <<>> \in Seq(Frames) /\ "bulk" \in {"idle", "bulk", "rows", "retry"}
    OBVIOUS
  <2>4. r \in StreamType
    BY <1>1, <1>3, <1>6, <2>1, <2>3 DEF StreamType
  <2>5. StreamOK(r)'
    BY <1>1, <1>3, <1>8, <2>2, <2>4 DEF StreamOK, Increasing, Committed, Kept
  <2>6. st' = [st EXCEPT ![p] = r]
    BY <1>8, <2>1 DEF StreamsOK
  <2> QED
    BY <1>1, <1>9, <2>5, <2>6, StreamsStay
<1> QED
  BY <1>5, <1>7, <1>8

-----------------------------------------------------------------------------
(* The steps.                                                               *)

LEMMA FaultLeft ==
  ASSUME RestOK, NEW kind, Fault(kind) PROVE left' \in 0..MaxFaults
BY StreamJournalAssumption DEF RestOK, Fault

LEMMA GenerateStep ==
  ASSUME JournalInv, NEW p \in Streams, Generate(p) PROVE JournalInv'
<1> USE DEF JournalInv
<1>1. CASE EmitData(p)
  <2>1. Emit(p, "data", "run") /\ UNCHANGED <<journal, cl>>
    BY <1>1 DEF EmitData, Emit
  <2>2. StreamsOK' /\ wire' \in [Streams -> Seq(Frames)]
    BY <2>1, EmitOK DEF RestOK, Kinds, Places
  <2> QED
    BY <1>1, <2>1, <2>2, JournalStays, ClientStays, SameIsKept DEF EmitData, Emit, RestOK
<1>2. CASE Finalize(p)
  <2>1. StreamsOK'
    BY <1>2, Moved DEF Finalize, Places
  <2>2. RestOK'
    BY <1>2 DEF Finalize, RestOK
  <2> QED
    BY <1>2, <2>1, <2>2, JournalStays, ClientStays, SameIsKept DEF Finalize
<1>3. CASE Supersede(p)
  <2>1. StreamsOK'
    BY <1>3, Moved DEF Supersede, Places
  <2>2. RestOK'
    BY <1>3 DEF Supersede, RestOK
  <2> QED
    BY <1>3, <2>1, <2>2, JournalStays, ClientStays, SameIsKept DEF Supersede
<1>4. CASE EmitTail(p)
  <2>1. PICK kind \in Kinds, next \in Places : Emit(p, kind, next)
    BY <1>4 DEF EmitTail, Kinds, Places
  <2>2. StreamsOK' /\ wire' \in [Streams -> Seq(Frames)]
    BY <2>1, EmitOK DEF RestOK
  <2>3. UNCHANGED <<journal, row, saved, cl, seen, lost, overlap, left>>
    BY <1>4, <2>1 DEF EmitTail, Emit
  <2> QED
    BY <2>2, <2>3, JournalStays, ClientStays, SameIsKept DEF RestOK
<1>5. CASE Close(p)
  <2>1. PICK r : r = [st[p] EXCEPT !.pc = "done", !.buf = <<>>, !.batch = st[p].buf,
                        !.io = IF st[p].buf = <<>> THEN "idle" ELSE "bulk"]
    OBVIOUS
  <2>2. StreamOK(st[p]) /\ st[p] \in StreamType /\ Kept
    BY <1>5, SameIsKept DEF StreamsOK, Close
  <2>3. /\ r.buf = <<>> /\ r.batch = st[p].buf /\ r.frames = st[p].frames
        /\ r.io = IF st[p].buf = <<>> THEN "idle" ELSE "bulk"
    BY <2>1, <2>2 DEF StreamType
  <2>4. <<>> \in Seq(Frames) /\ st[p].buf \in Seq(Frames)
    BY <2>2 DEF StreamType
  <2>5. r \in StreamType
    BY <2>1, <2>2, <2>4 DEF StreamType, Places
  <2>6. StreamOK(r)'
    BY <2>2, <2>3, <2>5 DEF StreamOK, Increasing, Committed, Kept
  <2>7. st' = [st EXCEPT ![p] = r]
    BY <1>5, <2>1 DEF StreamsOK, Close
  <2>8. StreamsOK'
    BY <2>2, <2>6, <2>7, StreamsStay
  <2> QED
    BY <1>5, <2>2, <2>8, JournalStays, ClientStays DEF Close, RestOK
<1> QED
  BY <1>1, <1>2, <1>3, <1>4, <1>5 DEF Generate

LEMMA FlushStep ==
  ASSUME JournalInv, NEW p \in Streams, Flush(p) PROVE JournalInv'
<1> USE DEF JournalInv
<1> DEFINE b == st[p].batch
<1>1. StreamOK(st[p]) /\ st[p] \in StreamType
  BY DEF StreamsOK
<1>2. b \in Seq(Frames) /\ Increasing(b)
  BY <1>1 DEF StreamOK, StreamType
<1>3. <<>> \in Seq(Frames) /\ Increasing(<<>>)
  BY DEF Increasing
<1>4. CASE BulkInsert(p)
  <2>1. b # <<>>
    BY <1>1, <1>4 DEF BulkInsert, StreamOK
  <2>2. PICK c : c = b
    OBVIOUS
  <2>3. Kept /\ Committed(c)' /\ JournalOK'
    BY <1>2, <1>4, <2>1, <2>2, WithCommits DEF BulkInsert
  <2>4. PICK r : r = [st[p] EXCEPT !.io = "idle", !.batch = <<>>, !.frames = b]
    OBVIOUS
  <2>5. /\ r.buf = st[p].buf /\ r.seq = st[p].seq /\ r.batch = <<>> /\ r.frames = c
        /\ r.io = "idle"
    BY <1>1, <2>2, <2>4 DEF StreamType
  <2>6. r \in StreamType
    BY <1>1, <1>2, <1>3, <2>4 DEF StreamType
  <2>7. StreamOK(r)'
    BY <1>1, <1>3, <2>3, <2>5, <2>6 DEF StreamOK
  <2>8. st' = [st EXCEPT ![p] = r]
    BY <1>4, <2>4 DEF StreamsOK, BulkInsert
  <2>9. StreamsOK'
    BY <2>3, <2>7, <2>8, StreamsStay
  <2> QED
    BY <1>4, <2>3, <2>9, ClientStays DEF BulkInsert, RestOK
<1>5. CASE BulkOrphaned(p)
  <2>1. PICK r : r = [st[p] EXCEPT !.io = "idle", !.batch = <<>>, !.missing = TRUE]
    OBVIOUS
  <2>2. /\ r.buf = st[p].buf /\ r.seq = st[p].seq /\ r.batch = <<>>
        /\ r.frames = st[p].frames /\ r.io = "idle" /\ r \in StreamType
    BY <1>1, <1>3, <2>1 DEF StreamType
  <2>3. Kept
    BY <1>5, SameIsKept DEF BulkOrphaned
  <2>4. StreamOK(r)'
    BY <1>1, <1>3, <2>2, <2>3 DEF StreamOK, Committed, Kept
  <2>5. st' = [st EXCEPT ![p] = r]
    BY <1>5, <2>1 DEF StreamsOK, BulkOrphaned
  <2>6. StreamsOK'
    BY <2>3, <2>4, <2>5, StreamsStay
  <2> QED
    BY <1>5, <2>3, <2>6, JournalStays, ClientStays DEF BulkOrphaned, RestOK
<1>6. CASE BulkCollides(p)
  <2>1. PICK r : r = [st[p] EXCEPT !.io = "rows"]
    OBVIOUS
  <2>2. /\ r.buf = st[p].buf /\ r.seq = st[p].seq /\ r.batch = b
        /\ r.frames = st[p].frames /\ r \in StreamType
    BY <1>1, <2>1 DEF StreamType
  <2>3. Kept /\ b # <<>>
    BY <1>1, <1>6, SameIsKept DEF BulkCollides, StreamOK
  <2>4. StreamOK(r)'
    BY <1>1, <2>2, <2>3 DEF StreamOK, Committed, Kept
  <2>5. st' = [st EXCEPT ![p] = r]
    BY <1>6, <2>1 DEF StreamsOK, BulkCollides
  <2>6. StreamsOK'
    BY <2>3, <2>4, <2>5, StreamsStay
  <2> QED
    BY <1>6, <2>3, <2>6, JournalStays, ClientStays DEF BulkCollides, RestOK
<1>7. CASE InsertRow(p)
  <2>1. b # <<>>
    BY <1>1, <1>7 DEF InsertRow, StreamOK
  <2>2. PICK c : c = <<Head(b)>>
    OBVIOUS
  <2>3. c \in Seq(Frames) /\ Increasing(c) /\ c # <<>> /\ Head(b) \in Frames
    BY <1>2, <2>1, <2>2, TailOf DEF Increasing
  <2>4. journal' = With(c) /\ (\A i \in DOMAIN c : Vacant(c[i].seq)) /\ st' = NextRow(p, c)
    BY <1>7, <2>2 DEF InsertRow
  <2>5. Kept /\ Committed(c)' /\ JournalOK'
    BY <2>3, <2>4, WithCommits
  <2>6. StreamsOK'
    BY <2>1, <2>3, <2>4, <2>5, NextRowOK
  <2> QED
    BY <1>7, <2>5, <2>6, ClientStays DEF InsertRow, RestOK
<1>8. CASE LookUpLatest(p)
  <2>1. PICK r : r = [st[p] EXCEPT !.io = "retry", !.retry = Latest + 1]
    OBVIOUS
  <2>2. Latest + 1 \in Nat
    BY LatestIsRow
  <2>3. /\ r.buf = st[p].buf /\ r.seq = st[p].seq /\ r.batch = b
        /\ r.frames = st[p].frames /\ r \in StreamType
    BY <1>1, <2>1, <2>2 DEF StreamType
  <2>4. Kept /\ b # <<>>
    BY <1>1, <1>8, SameIsKept DEF LookUpLatest, StreamOK
  <2>5. StreamOK(r)'
    BY <1>1, <2>3, <2>4 DEF StreamOK, Committed, Kept
  <2>6. st' = [st EXCEPT ![p] = r]
    BY <1>8, <2>1 DEF StreamsOK, LookUpLatest
  <2>7. StreamsOK'
    BY <2>4, <2>5, <2>6, StreamsStay
  <2> QED
    BY <1>8, <2>4, <2>7, JournalStays, ClientStays DEF LookUpLatest, RestOK
<1>9. CASE RetryRow(p)
  <2>1. b # <<>>
    BY <1>1, <1>9 DEF RetryRow, StreamOK
  <2>2. PICK f : f = [Head(b) EXCEPT !.seq = st[p].retry]
    OBVIOUS
  <2>3. f \in Frames
    <3>1. Head(b) \in Frames
      BY <1>2, <2>1, TailOf
    <3>2. st[p].retry \in Nat
      BY <1>1 DEF StreamType
    <3> QED
      BY <2>2, <3>1, <3>2 DEF Frames
  <2>4. PICK c : c = <<f>>
    OBVIOUS
  <2>5. c \in Seq(Frames) /\ Increasing(c) /\ c # <<>>
    BY <2>3, <2>4 DEF Increasing
  <2>6. CASE Vacant(f.seq)
    <3>1. journal' = With(c) /\ st' = NextRow(p, c) /\ \A i \in DOMAIN c : Vacant(c[i].seq)
      <4>1. journal' = With(<<f>>) /\ st' = NextRow(p, <<f>>)
        BY <1>9, <2>2, <2>6 DEF RetryRow
      <4> QED
        BY <2>4, <2>6, <4>1
    <3>2. Kept /\ Committed(c)' /\ JournalOK'
      BY <2>5, <3>1, WithCommits
    <3>3. StreamsOK'
      BY <2>1, <2>5, <3>1, <3>2, NextRowOK
    <3> QED
      BY <1>9, <3>2, <3>3, ClientStays DEF RetryRow, RestOK
  <2>7. CASE ~Vacant(f.seq)
    <3>1. UNCHANGED journal /\ st' = NextRow(p, <<>>)
      BY <1>9, <2>2, <2>7 DEF RetryRow
    <3>2. Kept /\ Committed(<<>>)' /\ JournalOK'
      BY <3>1, SameIsKept, JournalStays DEF Committed
    <3>3. StreamsOK'
      BY <1>3, <2>1, <3>1, <3>2, NextRowOK
    <3> QED
      BY <1>9, <3>2, <3>3, ClientStays DEF RetryRow, RestOK
  <2> QED
    BY <2>6, <2>7
<1>10. CASE Publish(p)
  <2>1. PICK fs : fs = st[p].frames
    OBVIOUS
  <2>2. fs \in Seq(Frames) /\ fs # <<>> /\ Committed(fs) /\ Kept
    BY <1>1, <1>10, <2>1, SameIsKept DEF Publish, StreamOK, StreamType
  <2>3. /\ Head(fs) \in Frames /\ Tail(fs) \in Seq(Frames)
        /\ Committed(Tail(fs)) /\ Committed(<<Head(fs)>>)
    BY <2>2, TailOf DEF Committed
  <2>4. PICK r : r = [st[p] EXCEPT !.frames = Tail(fs)]
    OBVIOUS
  <2>5. /\ r.buf = st[p].buf /\ r.seq = st[p].seq /\ r.batch = b
        /\ r.frames = Tail(fs) /\ r.io = st[p].io /\ r \in StreamType
    BY <1>1, <2>3, <2>4 DEF StreamType
  <2>6. StreamOK(r)'
    BY <1>1, <2>2, <2>3, <2>5 DEF StreamOK, Committed, Kept
  <2>7. st' = [st EXCEPT ![p] = r]
    BY <1>10, <2>1, <2>4 DEF StreamsOK, Publish
  <2>8. StreamsOK'
    BY <2>2, <2>6, <2>7, StreamsStay
  <2>9. ClientOK'
    <3>1. CASE UNCHANGED cl
      BY <2>2, <3>1, ClientStays
    <3>2. CASE cl' = [cl EXCEPT !.inbox = Append(@, Head(fs))]
      <4>1. cl.inbox \in Seq(Frames) /\ cl \in ClientType
        BY DEF ClientOK, ClientType
      <4>2. cl'.inbox = Append(cl.inbox, Head(fs)) /\ cl' \in ClientType
        <5>1. Append(cl.inbox, Head(fs)) \in Seq(Frames)
          BY <2>3, <4>1
        <5>2. cl' = [cl EXCEPT !.inbox = Append(cl.inbox, Head(fs))]
          BY <3>2
        <5> QED
          BY <4>1, <5>1, <5>2 DEF ClientType
      <4>3. \A i \in DOMAIN cl'.inbox :
              \/ i \in DOMAIN cl.inbox /\ cl'.inbox[i] = cl.inbox[i]
              \/ cl'.inbox[i] = Head(fs)
        BY <2>3, <4>1, <4>2
      <4>4. Head(fs).seq \in DOMAIN journal /\ journal[Head(fs).seq] = Head(fs).ev
        BY <2>2, TailOf DEF Committed
      <4> QED
        BY <1>10, <4>2, <4>3, <4>4 DEF ClientOK, Committed, Publish
    <3> QED
      BY <1>10, <2>1, <3>1, <3>2 DEF Publish
  <2> QED
    BY <1>10, <2>8, <2>9, JournalStays DEF Publish, RestOK
<1> QED
  BY <1>4, <1>5, <1>6, <1>7, <1>8, <1>9, <1>10 DEF Flush

LEMMA StreamFaultStep ==
  ASSUME JournalInv, NEW p \in Streams, StreamFault(p) PROVE JournalInv'
<1> USE DEF JournalInv
<1> DEFINE b == st[p].batch
<1>1. StreamOK(st[p]) /\ st[p] \in StreamType
  BY DEF StreamsOK
<1>2. <<>> \in Seq(Frames) /\ Increasing(<<>>) /\ Committed(<<>>)
  BY DEF Increasing, Committed
<1>3. CASE EmitAgentError(p)
  <2>1. Emit(p, "error", "run")
    BY <1>3 DEF EmitAgentError
  <2>2. StreamsOK' /\ wire' \in [Streams -> Seq(Frames)]
    BY <2>1, EmitOK DEF RestOK, Kinds, Places
  <2>3. left' \in 0..MaxFaults
    BY <1>3, FaultLeft DEF EmitAgentError
  <2> QED
    BY <2>1, <2>2, <2>3, JournalStays, ClientStays, SameIsKept DEF Emit, RestOK
<1>4. CASE Raise(p)
  <2>1. StreamsOK'
    BY <1>4, Moved DEF Raise, Places
  <2>2. left' \in 0..MaxFaults
    BY <1>4, FaultLeft DEF Raise
  <2> QED
    BY <1>4, <2>1, <2>2, JournalStays, ClientStays, SameIsKept DEF Raise, RestOK
<1>5. CASE Crash(p)
  <2>1. PICK r : r = [NewStream("dead", -1) EXCEPT !.dropped = st[p].dropped]
    OBVIOUS
  <2>2. /\ r.buf = <<>> /\ r.batch = <<>> /\ r.frames = <<>> /\ r.io = "idle"
        /\ r \in StreamType
    BY <1>1, <1>2, <2>1 DEF StreamType, NewStream, Places
  <2>3. Kept /\ StreamOK(r)'
    BY <1>2, <1>5, <2>2, SameIsKept DEF StreamOK, Committed, Crash
  <2>4. st' = [st EXCEPT ![p] = r]
    BY <1>5, <2>1 DEF Crash
  <2>5. StreamsOK'
    BY <2>3, <2>4, StreamsStay
  <2>6. left' \in 0..MaxFaults
    BY <1>5, FaultLeft DEF Crash
  <2>7. Yielded(p) \in Seq(Frames)
    <3>1. wire[p] \in Seq(Frames)
      BY DEF RestOK
    <3>2. SubSeq(wire[p], 1, Len(wire[p]) - 1) \in Seq(Frames)
      BY <3>1
    <3> QED
      BY <3>1, <3>2 DEF Yielded
  <2>8. wire' \in [Streams -> Seq(Frames)]
    BY <1>5, <2>7 DEF Crash, RestOK
  <2>9. \A i \in DOMAIN st[p].frames : st[p].frames[i].seq \in Nat
    BY <1>1 DEF StreamOK, Committed, JournalOK
  <2>10. lost' \subseteq Nat
    BY <1>5, <2>9 DEF Crash, RestOK
  <2> QED
    BY <1>5, <2>3, <2>5, <2>6, <2>8, <2>10, JournalStays, ClientStays DEF Crash, RestOK
<1>6. CASE BulkFails(p)
  <2>1. PICK r : r = [st[p] EXCEPT !.io = "idle", !.batch = <<>>, !.dropped = TRUE]
    OBVIOUS
  <2>2. /\ r.buf = st[p].buf /\ r.seq = st[p].seq /\ r.batch = <<>>
        /\ r.frames = st[p].frames /\ r.io = "idle" /\ r \in StreamType
    BY <1>1, <1>2, <2>1 DEF StreamType
  <2>3. Kept
    BY <1>6, SameIsKept DEF BulkFails
  <2>4. StreamOK(r)'
    BY <1>1, <1>2, <2>2, <2>3 DEF StreamOK, Committed, Kept
  <2>5. st' = [st EXCEPT ![p] = r]
    BY <1>6, <2>1 DEF StreamsOK, BulkFails
  <2>6. StreamsOK'
    BY <2>3, <2>4, <2>5, StreamsStay
  <2>7. left' \in 0..MaxFaults
    BY <1>6, FaultLeft DEF BulkFails
  <2> QED
    BY <1>6, <2>3, <2>6, <2>7, JournalStays, ClientStays DEF BulkFails, RestOK
<1>7. CASE RowFails(p)
  <2>1. b # <<>> /\ st' = NextRow(p, <<>>) /\ Kept
    BY <1>1, <1>7, SameIsKept DEF RowFails, StreamOK
  <2>2. StreamsOK'
    BY <1>2, <2>1, CommittedStays, NextRowOK
  <2>3. left' \in 0..MaxFaults
    BY <1>7, FaultLeft DEF RowFails
  <2> QED
    BY <1>7, <2>1, <2>2, <2>3, JournalStays, ClientStays DEF RowFails, RestOK
<1>8. CASE PublishLost(p)
  <2>1. PICK fs : fs = st[p].frames
    OBVIOUS
  <2>2. fs \in Seq(Frames) /\ fs # <<>> /\ Committed(fs) /\ Kept
    BY <1>1, <1>8, <2>1, SameIsKept DEF PublishLost, StreamOK, StreamType
  <2>3. Head(fs) \in Frames /\ Tail(fs) \in Seq(Frames) /\ Committed(Tail(fs))
    BY <2>2, TailOf DEF Committed
  <2>4. PICK r : r = [st[p] EXCEPT !.frames = Tail(fs)]
    OBVIOUS
  <2>5. /\ r.buf = st[p].buf /\ r.seq = st[p].seq /\ r.batch = b
        /\ r.frames = Tail(fs) /\ r.io = st[p].io /\ r \in StreamType
    BY <1>1, <2>3, <2>4 DEF StreamType
  <2>6. StreamOK(r)'
    BY <1>1, <2>2, <2>3, <2>5 DEF StreamOK, Committed, Kept
  <2>7. st' = [st EXCEPT ![p] = r]
    BY <1>8, <2>1, <2>4 DEF StreamsOK, PublishLost
  <2>8. StreamsOK'
    BY <2>2, <2>6, <2>7, StreamsStay
  <2>9. left' \in 0..MaxFaults
    BY <1>8, FaultLeft DEF PublishLost
  <2>10. lost' \subseteq Nat
    BY <1>8, <2>1, <2>3 DEF PublishLost, RestOK, Frames
  <2> QED
    BY <1>8, <2>2, <2>8, <2>9, <2>10, JournalStays, ClientStays DEF PublishLost, RestOK
<1> QED
  BY <1>3, <1>4, <1>5, <1>6, <1>7, <1>8 DEF StreamFault

\* A step of the client or its reader: it writes nothing that others read.
LEMMA ReaderStep ==
  ASSUME JournalInv, UNCHANGED <<st, wire, journal, row, saved, lost, overlap>>,
         cl' \in ClientType, Committed(cl'.inbox), seen' \subseteq Frames,
         left' \in 0..MaxFaults
  PROVE  JournalInv'
<1>1. StreamsOK' /\ JournalOK'
  BY AllStreamsStay, JournalStays, SameIsKept DEF JournalInv
<1>2. ClientOK'
  BY DEF ClientOK, Committed
<1> QED
  BY <1>1, <1>2 DEF JournalInv, RestOK

LEMMA ClosedType ==
  ASSUME NEW c \in ClientType, NEW m \in {"live", "away", "open", "over"}
  PROVE  Closed(c, m) \in ClientType /\ Committed(Closed(c, m).inbox)
<1>1. <<>> \in Seq(Frames)
  OBVIOUS
<1>2. /\ Closed(c, m) = [c EXCEPT !.mode = m, !.subscribed = FALSE, !.loaded = FALSE,
                                  !.inbox = <<>>]
      /\ Closed(c, m).inbox = <<>>
  BY DEF Closed, ClientType
<1>3. Closed(c, m) \in ClientType
  BY <1>1, <1>2 DEF ClientType
<1> QED
  BY <1>2, <1>3 DEF Committed

LEMMA NewClientType ==
  NewClient("live") \in ClientType /\ Committed(NewClient("live").inbox)
<1>1. 0 \in 0..MaxConns /\ <<>> \in Seq(Frames)
  BY StreamJournalAssumption
<1> QED
  BY <1>1 DEF NewClient, ClientType, Committed, Streams

LEMMA RowsAtType ==
  ASSUME JournalOK, NEW N, N \subseteq Rows PROVE RowsAt(N) \subseteq Frames
<1>1. \A s \in N : s \in Nat /\ journal[s] \in Events
  BY DEF JournalOK, Rows
<1> QED
  BY <1>1 DEF RowsAt, Frames

LEMMA ReadStep ==
  ASSUME JournalInv, Read PROVE JournalInv'
<1> USE DEF JournalInv
<1>1. cl \in ClientType /\ Committed(cl.inbox)
  BY DEF ClientOK
<1>2. Backlog \subseteq Rows
  BY DEF Backlog
<1>3. CASE Snapshot
  <2>1. PICK c : c = [cl EXCEPT !.loaded = TRUE,
                                !.cursor = IF Backlog = {} THEN cl.cursor ELSE Latest]
    OBVIOUS
  <2>2. c \in ClientType /\ c.inbox = cl.inbox
    BY <1>1, <2>1, LatestIsRow DEF ClientType
  <2>3. cl' = Closed(c, "over") \/ cl' = c
    BY <1>3, <2>1 DEF Snapshot
  <2>4. cl' \in ClientType /\ Committed(cl'.inbox)
    BY <1>1, <2>2, <2>3, ClosedType
  <2>5. seen' \subseteq Frames
    BY <1>2, <1>3, RowsAtType DEF Snapshot, Hand, RestOK
  <2> QED
    BY <1>3, <2>4, <2>5, ReaderStep DEF Snapshot, RestOK
<1>4. CASE TailFrame
  <2>1. cl.inbox \in Seq(Frames) /\ cl.inbox # <<>>
    BY <1>1, <1>4 DEF TailFrame, ClientType
  <2>2. PICK f : f = Head(cl.inbox)
    OBVIOUS
  <2>3. PICK rest : rest = [cl EXCEPT !.inbox = Tail(cl.inbox)]
    OBVIOUS
  <2>4. PICK c : c = [rest EXCEPT !.cursor = f.seq]
    OBVIOUS
  <2>5. f \in Frames /\ Tail(cl.inbox) \in Seq(Frames) /\ Committed(Tail(cl.inbox))
    BY <1>1, <2>1, <2>2, TailOf DEF Committed
  <2>6. rest \in ClientType /\ rest.inbox = Tail(cl.inbox)
    BY <1>1, <2>3, <2>5 DEF ClientType
  <2>7. f.seq \in Nat
    BY <2>5 DEF Frames
  <2>8. c \in ClientType /\ c.inbox = Tail(cl.inbox)
    BY <2>4, <2>6, <2>7 DEF ClientType
  <2>9. cl' \in {Closed(c, "over"), c, rest}
    BY <1>4, <2>2, <2>3, <2>4 DEF TailFrame
  <2>10. cl' \in ClientType /\ Committed(cl'.inbox)
    BY <2>5, <2>6, <2>8, <2>9, ClosedType
  <2>11. seen' \subseteq Frames
    BY <1>4, <2>2, <2>5 DEF TailFrame, Hand, RestOK
  <2> QED
    BY <1>4, <2>10, <2>11, ReaderStep DEF TailFrame, RestOK
<1>5. CASE Watchdog
  <2>1. cl' \in ClientType /\ Committed(cl'.inbox)
    BY <1>1, <1>5, ClosedType DEF Watchdog
  <2> QED
    BY <1>5, <2>1, ReaderStep DEF Watchdog, RestOK
<1>6. CASE CloseUntailed
  <2>1. cl' \in ClientType /\ Committed(cl'.inbox)
    BY <1>1, <1>6, ClosedType DEF CloseUntailed
  <2> QED
    BY <1>6, <2>1, ReaderStep DEF CloseUntailed, RestOK
<1> QED
  BY <1>3, <1>4, <1>5, <1>6 DEF Read

LEMMA OpenStep ==
  ASSUME JournalInv, NEW s \in BOOLEAN, Open(s), left' \in 0..MaxFaults
  PROVE  JournalInv'
<1>1. cl \in ClientType /\ Committed(cl.inbox)
  BY DEF JournalInv, ClientOK
<1>2. cl.conns + 1 \in 0..MaxConns
  BY <1>1, StreamJournalAssumption DEF Open, ClientType
<1>3. cl' \in ClientType /\ cl'.inbox = cl.inbox
  BY <1>1, <1>2 DEF Open, ClientType
<1> QED
  BY <1>1, <1>3, ReaderStep DEF Open, JournalInv, RestOK

LEMMA ReceivedStep ==
  ASSUME JournalInv, NEW k \in 0..Len(Yielded(cl.src)), NEW m \in {"away", "over"},
         Received(k, m)
  PROVE  JournalInv'
<1>1. cl \in ClientType /\ Committed(cl.inbox)
  BY DEF JournalInv, ClientOK
<1>2. Yielded(cl.src) \in Seq(Frames)
  <2>1. wire[cl.src] \in Seq(Frames)
    BY <1>1 DEF JournalInv, RestOK, ClientType
  <2>2. SubSeq(wire[cl.src], 1, Len(wire[cl.src]) - 1) \in Seq(Frames)
    BY <2>1
  <2> QED
    BY <2>1, <2>2 DEF Yielded
<1>3. PICK got : got = SubSeq(Yielded(cl.src), 1, k)
  OBVIOUS
<1>4. \A i \in 1..k : got[i] \in Frames
  BY <1>2, <1>3
<1>5. k # 0 => got[k].seq \in Nat
  BY <1>4 DEF Frames
<1>6. cl' = [cl EXCEPT !.mode = m, !.cursor = IF k = 0 THEN cl.cursor ELSE got[k].seq]
  BY <1>3 DEF Received
<1>7. cl' \in ClientType /\ cl'.inbox = cl.inbox
  BY <1>1, <1>5, <1>6 DEF ClientType
<1>8. seen' \subseteq Frames
  BY <1>3, <1>4 DEF Received, JournalInv, RestOK
<1> QED
  BY <1>1, <1>7, <1>8, ReaderStep DEF Received, JournalInv, RestOK

\* The paused state is claimed, by the client we follow or by another.
LEMMA ContinueStep ==
  ASSUME JournalInv, NEW seed \in Nat \cup {-1}, Continue(seed), left' \in 0..MaxFaults
  PROVE  JournalInv'
<1>1. PICK r : r = NewStream("run", seed)
  OBVIOUS
<1>2. <<>> \in Seq(Frames) /\ Increasing(<<>>)
  BY DEF Increasing
<1>3. /\ r.buf = <<>> /\ r.batch = <<>> /\ r.frames = <<>> /\ r.io = "idle"
      /\ r \in StreamType
  BY <1>1, <1>2 DEF NewStream, StreamType, Places
<1>4. Kept /\ StreamOK(r)'
  BY <1>2, <1>3, SameIsKept DEF StreamOK, Committed, Continue
<1>5. st' = [st EXCEPT ![1] = r] /\ 1 \in Streams
  BY <1>1 DEF Continue, Streams
<1>6. StreamsOK'
  BY <1>4, <1>5, StreamsStay DEF JournalInv
<1>7. ClientOK'
  <2>1. CASE UNCHANGED cl
    BY <1>4, <2>1, ClientStays DEF JournalInv
  <2>2. CASE cl' = [NewClient("live") EXCEPT !.src = 1, !.base = seed + 1,
                                             !.conns = cl.conns]
    <3>1. cl.conns \in 0..MaxConns
      BY DEF JournalInv, ClientOK, ClientType
    <3>2. PICK n : n = NewClient("live")
      OBVIOUS
    <3>3. n \in ClientType /\ n.inbox = <<>> /\ seed + 1 \in Nat /\ 1 \in Streams
      BY <3>2, NewClientType DEF NewClient, Streams
    <3>4. cl' = [n EXCEPT !.src = 1, !.base = seed + 1, !.conns = cl.conns]
      BY <2>2, <3>2
    <3>5. cl' \in ClientType /\ cl'.inbox = <<>>
      BY <3>1, <3>3, <3>4 DEF ClientType
    <3> QED
      BY <3>5 DEF ClientOK, Committed
  <2> QED
    BY <2>1, <2>2 DEF Continue
<1> QED
  BY <1>6, <1>7, JournalStays DEF Continue, JournalInv, RestOK

LEMMA ClientStep ==
  ASSUME JournalInv, Client PROVE JournalInv'
<1> USE DEF JournalInv
<1>1. cl \in ClientType /\ Committed(cl.inbox)
  BY DEF ClientOK
<1>2. left \in 0..MaxFaults
  BY DEF RestOK
<1>3. CASE Connect
  BY <1>2, <1>3, OpenStep DEF Connect
<1>4. CASE Disconnect
  <2>1. cl' \in ClientType /\ Committed(cl'.inbox)
    BY <1>1, <1>4, ClosedType DEF Disconnect
  <2> QED
    BY <1>4, <2>1, ReaderStep DEF Disconnect, RestOK
<1>5. CASE SnapshotCut
  <2>1. PICK last \in Backlog :
          /\ Hand(RowsAt({s \in Backlog : s <= last}))
          /\ cl' = Closed([cl EXCEPT !.cursor = last], "away")
    BY <1>5 DEF SnapshotCut
  <2>2. last \in Nat /\ {s \in Backlog : s <= last} \subseteq Rows
    BY <2>1 DEF Backlog, Rows, JournalOK
  <2>3. [cl EXCEPT !.cursor = last] \in ClientType
    BY <1>1, <2>2 DEF ClientType
  <2>4. cl' \in ClientType /\ Committed(cl'.inbox)
    BY <2>1, <2>3, ClosedType
  <2>5. seen' \subseteq Frames
    BY <2>1, <2>2, RowsAtType DEF Hand, RestOK
  <2> QED
    BY <1>2, <1>5, <2>4, <2>5, ReaderStep DEF SnapshotCut
<1>6. CASE LiveDrops
  BY <1>6, ReceivedStep DEF LiveDrops
<1>7. CASE LiveEnds
  <2>1. wire[cl.src] \in Seq(Frames)
    BY <1>1 DEF RestOK, ClientType
  <2>2. Yielded(cl.src) = wire[cl.src]
    BY <1>7 DEF LiveEnds, Quiet, Yielded, Held
  <2>3. Len(wire[cl.src]) \in 0..Len(Yielded(cl.src))
    BY <2>1, <2>2
  <2>4. PICK m \in {"away", "over"} : Received(Len(wire[cl.src]), m)
    BY <1>7 DEF LiveEnds
  <2> QED
    BY <2>3, <2>4, ReceivedStep
<1>8. CASE Resume
  <2>1. Seed \in Nat \cup {-1}
    BY LatestIsRow DEF Seed
  <2> QED
    BY <1>2, <1>8, <2>1, ContinueStep DEF Resume
<1> QED
  BY <1>3, <1>4, <1>5, <1>6, <1>7, <1>8 DEF Client

LEMMA OtherFaultStep ==
  ASSUME JournalInv, OtherFault PROVE JournalInv'
<1> USE DEF JournalInv
<1>1. cl \in ClientType /\ Committed(cl.inbox)
  BY DEF ClientOK
<1>2. CASE PauseUnsaved
  <2>1. StreamsOK'
    BY <1>2, Moved DEF PauseUnsaved, Places, Streams
  <2>2. left' \in 0..MaxFaults
    BY <1>2, FaultLeft DEF PauseUnsaved
  <2> QED
    BY <1>2, <2>1, <2>2, JournalStays, ClientStays, SameIsKept DEF PauseUnsaved, RestOK
<1>3. CASE ResumeEarly
  <2>1. Seed \in Nat \cup {-1}
    BY LatestIsRow DEF Seed
  <2>2. left' \in 0..MaxFaults
    BY <1>3, FaultLeft DEF ResumeEarly
  <2> QED
    BY <1>3, <2>1, <2>2, ContinueStep DEF ResumeEarly
<1>4. CASE ResumeUnseeded
  <2>1. left' \in 0..MaxFaults
    BY <1>4 DEF ResumeUnseeded, RestOK
  <2> QED
    BY <1>4, <2>1, ContinueStep DEF ResumeUnseeded
<1>5. CASE Truncate
  <2>1. StreamsOK' /\ JournalOK' /\ ClientOK'
    BY <1>5, AllStreamsStay, JournalStays, ClientStays, SameIsKept DEF Truncate
  <2>2. left' \in 0..MaxFaults
    BY <1>5, FaultLeft DEF Truncate
  <2> QED
    BY <1>5, <2>1, <2>2 DEF Truncate, RestOK
<1>6. CASE SubscribeRefused
  BY <1>6, FaultLeft, OpenStep DEF SubscribeRefused
<1>7. CASE SnapshotFails
  <2>1. cl' \in ClientType /\ Committed(cl'.inbox) /\ left' \in 0..MaxFaults
    BY <1>1, <1>7, ClosedType, FaultLeft DEF SnapshotFails
  <2> QED
    BY <1>7, <2>1, ReaderStep DEF SnapshotFails, RestOK
<1>8. CASE SubscriptionBreaks
  <2>1. left' \in 0..MaxFaults
    BY <1>8, FaultLeft DEF SubscriptionBreaks
  <2>2. <<>> \in Seq(Frames) /\ Committed(<<>>)
    BY DEF Committed
  <2>3. cl' \in ClientType /\ cl'.inbox = <<>>
    BY <1>1, <1>8, <2>2 DEF SubscriptionBreaks, ClientType
  <2> QED
    BY <1>8, <2>1, <2>2, <2>3, ReaderStep DEF SubscriptionBreaks, RestOK
<1>9. CASE WatchdogStale
  <2>1. cl' \in ClientType /\ Committed(cl'.inbox) /\ left' \in 0..MaxFaults
    BY <1>1, <1>9, ClosedType, FaultLeft DEF WatchdogStale
  <2> QED
    BY <1>9, <2>1, ReaderStep DEF WatchdogStale, RestOK
<1> QED
  BY <1>2, <1>3, <1>4, <1>5, <1>6, <1>7, <1>8, <1>9 DEF OtherFault

-----------------------------------------------------------------------------
(* The theorems.                                                            *)

LEMMA InvInit == Init => JournalInv
<1> SUFFICES ASSUME Init PROVE JournalInv
  OBVIOUS
<1>1. <<>> \in Seq(Frames) /\ Increasing(<<>>) /\ Committed(<<>>)
  BY DEF Increasing, Committed
<1>2. ASSUME NEW pc \in {"none", "run"} PROVE StreamOK(NewStream(pc, -1))
  <2>1. PICK r : r = NewStream(pc, -1)
    OBVIOUS
  <2>2. /\ r.buf = <<>> /\ r.batch = <<>> /\ r.frames = <<>> /\ r.io = "idle"
        /\ r \in StreamType
    BY <1>1, <2>1 DEF NewStream, StreamType, Places
  <2> QED
    BY <1>1, <2>1, <2>2 DEF StreamOK
<1>3. \A p \in Streams : st[p] \in StreamType /\ StreamOK(st[p])
  BY <1>2 DEF Init, StreamOK
<1>4. StreamsOK
  BY <1>3 DEF Init, StreamsOK
<1>5. JournalOK
  BY DEF Init, JournalOK
<1>6. ClientOK
  BY NewClientType DEF Init, ClientOK
<1>7. RestOK
  <2>1. wire \in [Streams -> Seq(Frames)]
    BY <1>1 DEF Init
  <2>2. left \in 0..MaxFaults
    BY StreamJournalAssumption DEF Init
  <2> QED
    BY <2>1, <2>2 DEF Init, RestOK
<1> QED
  BY <1>4, <1>5, <1>6, <1>7 DEF JournalInv

LEMMA InvStep == JournalInv /\ [Next]_vars => JournalInv'
<1> SUFFICES ASSUME JournalInv, [Next]_vars PROVE JournalInv'
  OBVIOUS
<1>1. CASE UNCHANGED vars
  <2>1. UNCHANGED <<st, wire, journal, row, saved, cl, left, seen, lost, overlap>>
    BY <1>1 DEF vars
  <2>2. StreamsOK' /\ JournalOK' /\ ClientOK'
    BY <2>1, AllStreamsStay, JournalStays, ClientStays, SameIsKept DEF JournalInv
  <2> QED
    BY <2>1, <2>2 DEF JournalInv, RestOK
<1>2. CASE Pause
  <2>1. StreamsOK'
    BY <1>2, Moved DEF Pause, JournalInv, Places, Streams
  <2> QED
    BY <1>2, <2>1, JournalStays, ClientStays, SameIsKept DEF Pause, JournalInv, RestOK
<1>3. CASE \E p \in Streams : Generate(p) \/ Flush(p) \/ StreamFault(p)
  BY <1>3, GenerateStep, FlushStep, StreamFaultStep
<1>4. CASE Read \/ Client \/ OtherFault
  BY <1>4, ReadStep, ClientStep, OtherFaultStep
<1> QED
  BY <1>1, <1>2, <1>3, <1>4 DEF Next

\* Every variable keeps its type (message_journal.py, async_event_replay.py),
\* under every fault.
THEOREM TypeCorrect == Spec => []TypeOK
<1>1. JournalInv => TypeOK
  BY InvImplies
<1> QED
  BY <1>1, InvInit, InvStep, PTL DEF Spec

\* A frame queued for a reader is the event of a committed row with its number,
\* whatever collides, fails, crashes or is renumbered (message_journal.py, flush
\* and _flush_per_row: the publish follows the commit).
THEOREM FrameHasRowHolds == Spec => []FrameHasRow
<1>1. JournalInv => FrameHasRow
  BY InvImplies
<1> QED
  BY <1>1, InvInit, InvStep, PTL DEF Spec

-----------------------------------------------------------------------------
(* `end` comes after the row is finalized, or after a pause.  An `end` that  *)
(* is known anywhere was emitted by a stream that had reached its tail; what *)
(* brought it there, a finalized row or a pause, stays: a crash takes back   *)
(* only the frame that was not yielded yet, and then no `end` followed it.   *)

StreamKnows(r, e) == \/ \E i \in DOMAIN r.buf : r.buf[i].ev = e
                     \/ \E i \in DOMAIN r.batch : r.batch[i].ev = e

Known(e) ==
  \/ \E p \in Streams : \E i \in DOMAIN wire[p] : wire[p][i].ev = e
  \/ \E p \in Streams : StreamKnows(st[p], e)
  \/ \E s \in DOMAIN journal : journal[s] = e
  \/ \E f \in seen : f.ev = e

PauseOut(p) ==
  \E j \in DOMAIN wire[p] : /\ wire[p][j].ev.kind = "pause"
                            /\ st[p].pc = "dead" \/ j < Len(wire[p])
InTail(p) == st[p].pc \in {"closing", "ending"}

EndInv ==
  /\ \A e \in Events : Known(e) /\ e.kind = "end" => row # "pending" \/ PauseOut(e.by)
  /\ \A p \in Streams : InTail(p) =>
       row # "pending" \/ \E j \in DOMAIN wire[p] : wire[p][j].ev.kind = "pause"
  /\ \A p \in Streams : st[p].pc = "dead" => Ready(p)

\* What a step does that emits nothing and is no crash.
Silent ==
  /\ UNCHANGED wire
  /\ row # "pending" => row' # "pending"
  /\ \A e \in Events : Known(e)' => Known(e)
  /\ \A p \in Streams : /\ st'[p].pc = "dead" <=> st[p].pc = "dead"
                        /\ st[p].pc = "dead" => Ready(p)'
                        /\ InTail(p)' => InTail(p) \/ row' # "pending"

LEMMA SilentKeeps == ASSUME EndInv, Silent PROVE EndInv'
<1>1. ASSUME NEW p \in Streams, PauseOut(p) PROVE PauseOut(p)'
  BY <1>1 DEF Silent, PauseOut
<1>2. \A e \in Events : Known(e)' /\ e.kind = "end" => row' # "pending" \/ PauseOut(e.by)'
  BY <1>1 DEF Silent, EndInv, Events
<1>3. \A p \in Streams : InTail(p)' =>
        row' # "pending" \/ \E j \in DOMAIN wire'[p] : wire'[p][j].ev.kind = "pause"
  BY DEF Silent, EndInv
<1>4. \A p \in Streams : st'[p].pc = "dead" => Ready(p)'
  BY DEF Silent, EndInv
<1> QED
  BY <1>2, <1>3, <1>4 DEF EndInv

\* A step of stream `p` leaves it as `r`, which knows no more than before.
LEMMA SilentStream ==
  ASSUME StreamsOK, EndInv, NEW p \in Streams, NEW r, st' = [st EXCEPT ![p] = r],
         UNCHANGED <<wire, seen>>, row # "pending" => row' # "pending",
         \A e \in Events : StreamKnows(r, e) => StreamKnows(st[p], e),
         \A s \in DOMAIN journal' : Known(journal'[s]),
         r.pc # "dead", st[p].pc # "dead",
         r.pc \in {"closing", "ending"} => InTail(p) \/ row' # "pending"
  PROVE  Silent
<1>1. st'[p] = r /\ \A q \in Streams : q # p => st'[q] = st[q]
  BY DEF StreamsOK
<1>2. ASSUME NEW e \in Events, Known(e)' PROVE Known(e)
  <2>1. CASE \E s \in DOMAIN journal' : journal'[s] = e
    BY <2>1
  <2>2. CASE \E q \in Streams : StreamKnows(st'[q], e)
    <3>1. \E q \in Streams : StreamKnows(st[q], e)
      BY <1>1, <2>2
    <3> QED
      BY <3>1 DEF Known
  <2>3. CASE \/ \E q \in Streams : \E i \in DOMAIN wire'[q] : wire'[q][i].ev = e
             \/ \E f \in seen' : f.ev = e
    BY <2>3 DEF Known
  <2>4. StreamKnows(st[p], e)' <=> StreamKnows(st'[p], e)
    BY DEF StreamKnows
  <2>5. \A q \in Streams : (\E i \in DOMAIN st'[q].buf : st'[q].buf[i].ev = e)
                           \/ (\E i \in DOMAIN st'[q].batch : st'[q].batch[i].ev = e)
                           => StreamKnows(st'[q], e)
    BY DEF StreamKnows
  <2> QED
    BY <1>2, <2>1, <2>2, <2>3, <2>5 DEF Known, StreamKnows
<1>3. \A q \in Streams : /\ st'[q].pc = "dead" <=> st[q].pc = "dead"
                         /\ InTail(q)' => InTail(q) \/ row' # "pending"
  BY <1>1 DEF InTail
<1>4. \A q \in Streams : st[q].pc = "dead" => Ready(q)'
  BY <1>1 DEF EndInv, Ready
<1> QED
  BY <1>2, <1>3, <1>4 DEF Silent

LEMMA JournalKnown ==
  ASSUME UNCHANGED journal PROVE \A s \in DOMAIN journal' : Known(journal'[s])
BY DEF Known

\* The rows of a batch add what its stream knew.
LEMMA WithKnown ==
  ASSUME NEW p \in Streams, NEW b \in Seq(Frames), journal' = With(b),
         \A i \in DOMAIN b : StreamKnows(st[p], b[i].ev)
  PROVE  \A s \in DOMAIN journal' : Known(journal'[s])
<1> SUFFICES ASSUME NEW s \in DOMAIN journal' PROVE Known(journal'[s])
  OBVIOUS
<1> DEFINE new == {b[i].seq : i \in DOMAIN b}
<1>1. /\ DOMAIN journal' = DOMAIN journal \cup new
      /\ journal'[s] = IF s \in new THEN (b[CHOOSE i \in DOMAIN b : b[i].seq = s]).ev
                                    ELSE journal[s]
  BY DEF With
<1>2. CASE s \in new
  <2>1. (CHOOSE i \in DOMAIN b : b[i].seq = s) \in DOMAIN b
    BY <1>2
  <2> QED
    BY <1>1, <1>2, <2>1 DEF Known
<1>3. CASE s \notin new
  BY <1>1, <1>3 DEF Known
<1> QED
  BY <1>2, <1>3

\* The generator of `p` moves on without emitting.
LEMMA SilentMove ==
  ASSUME StreamsOK, EndInv, NEW p \in Streams, NEW x \in Places \ {"dead"},
         st[p].pc # "dead", st' = [st EXCEPT ![p].pc = x],
         UNCHANGED <<wire, journal, seen>>, row # "pending" => row' # "pending",
         x \in {"closing", "ending"} => InTail(p) \/ row' # "pending"
  PROVE  Silent
<1>1. PICK r : r = [st[p] EXCEPT !.pc = x]
  OBVIOUS
<1>2. st[p] \in StreamType
  BY DEF StreamsOK
<1>3. r.buf = st[p].buf /\ r.batch = st[p].batch /\ r.pc = x
  BY <1>1, <1>2 DEF StreamType
<1>4. \A e \in Events : StreamKnows(r, e) => StreamKnows(st[p], e)
  BY <1>3 DEF StreamKnows
<1>5. st' = [st EXCEPT ![p] = r]
  BY <1>1 DEF StreamsOK
<1> QED
  BY <1>3, <1>4, <1>5, SilentStream, JournalKnown

\* A step of the writer of `p`: the head of its batch is dealt with.
LEMMA SilentNextRow ==
  ASSUME StreamsOK, EndInv, NEW p \in Streams, NEW out, st[p].batch # <<>>,
         st[p].pc # "dead", st' = NextRow(p, out), UNCHANGED <<wire, row, seen>>,
         \A s \in DOMAIN journal' : Known(journal'[s])
  PROVE  Silent
<1> DEFINE b == st[p].batch
<1>1. PICK r : r = [st[p] EXCEPT !.io = IF Len(b) = 1 THEN "idle" ELSE "rows",
                                 !.batch = Tail(b), !.frames = out, !.retry = 0,
                                 !.dropped = st[p].dropped \/ out = <<>>]
  OBVIOUS
<1>2. st[p] \in StreamType
  BY DEF StreamsOK
<1>3. b \in Seq(Frames)
  BY <1>2 DEF StreamType
<1>4. r.buf = st[p].buf /\ r.batch = Tail(b) /\ r.pc = st[p].pc
  BY <1>1, <1>2 DEF StreamType
<1>5. \A i \in DOMAIN Tail(b) : i + 1 \in DOMAIN b /\ Tail(b)[i] = b[i + 1]
  BY <1>3, TailOf
<1>6. \A e \in Events : StreamKnows(r, e) => StreamKnows(st[p], e)
  BY <1>4, <1>5 DEF StreamKnows
<1>7. st' = [st EXCEPT ![p] = r]
  BY <1>1 DEF StreamsOK, NextRow
<1> QED
  BY <1>4, <1>6, <1>7, SilentStream DEF InTail

\* A step of the client or its reader, which is given what was known.
LEMMA SilentReader ==
  ASSUME EndInv, UNCHANGED <<st, wire, journal, row>>,
         \A f \in seen' : f \in seen \/ Known(f.ev)
  PROVE  Silent
<1>1. ASSUME NEW e \in Events, Known(e)' PROVE Known(e)
  BY <1>1 DEF Known, StreamKnows
<1> QED
  BY <1>1 DEF Silent, EndInv, Ready, InTail

\* A stream that writes or publishes is not dead.
LEMMA BusyAlive ==
  ASSUME EndInv, NEW p \in Streams, ~Ready(p) PROVE st[p].pc # "dead"
BY DEF EndInv

LEMMA SilentFlush ==
  ASSUME JournalInv, EndInv, NEW p \in Streams,
         Flush(p) \/ BulkFails(p) \/ RowFails(p) \/ PublishLost(p)
  PROVE  Silent
<1> DEFINE b == st[p].batch
<1>1. StreamsOK /\ StreamOK(st[p]) /\ st[p] \in StreamType
  BY DEF JournalInv, StreamsOK
<1>2. b \in Seq(Frames) /\ (st[p].io # "idle" => b # <<>>)
  BY <1>1 DEF StreamOK, StreamType
<1>3. st[p].pc # "dead"
  <2>1. ~Ready(p)
    BY DEF Flush, BulkFails, RowFails, PublishLost, BulkInsert, BulkOrphaned,
       BulkCollides, InsertRow, LookUpLatest, RetryRow, Publish, Ready
  <2> QED
    BY <2>1, BusyAlive
<1>4. ASSUME NEW r, r.buf = st[p].buf, r.batch \in {b, <<>>}, r.pc = st[p].pc,
             st' = [st EXCEPT ![p] = r], UNCHANGED <<wire, row, seen>>,
             \A s \in DOMAIN journal' : Known(journal'[s])
      PROVE  Silent
  <2>1. \A e \in Events : StreamKnows(r, e) => StreamKnows(st[p], e)
    BY <1>4 DEF StreamKnows
  <2> QED
    BY <1>1, <1>3, <1>4, <2>1, SilentStream DEF InTail
<1>5. CASE BulkInsert(p)
  <2>1. \A s \in DOMAIN journal' : Known(journal'[s])
    BY <1>2, <1>5, WithKnown DEF BulkInsert, StreamKnows
  <2>2. PICK r : r = [st[p] EXCEPT !.io = "idle", !.batch = <<>>, !.frames = b]
    OBVIOUS
  <2>3. r.buf = st[p].buf /\ r.batch = <<>> /\ r.pc = st[p].pc
    BY <1>1, <2>2 DEF StreamType
  <2>4. st' = [st EXCEPT ![p] = r]
    BY <1>1, <1>5, <2>2 DEF StreamsOK, BulkInsert
  <2> QED
    BY <1>4, <1>5, <2>1, <2>3, <2>4 DEF BulkInsert
<1>6. CASE BulkOrphaned(p)
  <2>1. PICK r : r = [st[p] EXCEPT !.io = "idle", !.batch = <<>>, !.missing = TRUE]
    OBVIOUS
  <2>2. r.buf = st[p].buf /\ r.batch = <<>> /\ r.pc = st[p].pc
    BY <1>1, <2>1 DEF StreamType
  <2>3. st' = [st EXCEPT ![p] = r]
    BY <1>1, <1>6, <2>1 DEF StreamsOK, BulkOrphaned
  <2> QED
    BY <1>4, <1>6, <2>2, <2>3, JournalKnown DEF BulkOrphaned
<1>7. CASE BulkCollides(p)
  <2>1. PICK r : r = [st[p] EXCEPT !.io = "rows"]
    OBVIOUS
  <2>2. r.buf = st[p].buf /\ r.batch = b /\ r.pc = st[p].pc
    BY <1>1, <2>1 DEF StreamType
  <2>3. st' = [st EXCEPT ![p] = r]
    BY <1>1, <1>7, <2>1 DEF StreamsOK, BulkCollides
  <2> QED
    BY <1>4, <1>7, <2>2, <2>3, JournalKnown DEF BulkCollides
<1>8. CASE InsertRow(p)
  <2>1. b # <<>> /\ Head(b) \in Frames /\ 1 \in DOMAIN b /\ Head(b) = b[1]
    BY <1>2, <1>8, TailOf DEF InsertRow
  <2>2. PICK c : c = <<Head(b)>>
    OBVIOUS
  <2>3. c \in Seq(Frames) /\ \A i \in DOMAIN c : StreamKnows(st[p], c[i].ev)
    BY <2>1, <2>2 DEF StreamKnows
  <2>4. \A s \in DOMAIN journal' : Known(journal'[s])
    BY <1>8, <2>2, <2>3, WithKnown DEF InsertRow
  <2> QED
    BY <1>1, <1>3, <1>8, <2>1, <2>4, SilentNextRow DEF InsertRow
<1>9. CASE LookUpLatest(p)
  <2>1. PICK r : r = [st[p] EXCEPT !.io = "retry", !.retry = Latest + 1]
    OBVIOUS
  <2>2. r.buf = st[p].buf /\ r.batch = b /\ r.pc = st[p].pc
    BY <1>1, <2>1 DEF StreamType
  <2>3. st' = [st EXCEPT ![p] = r]
    BY <1>1, <1>9, <2>1 DEF StreamsOK, LookUpLatest
  <2> QED
    BY <1>4, <1>9, <2>2, <2>3, JournalKnown DEF LookUpLatest
<1>10. CASE RetryRow(p)
  <2>1. b # <<>> /\ Head(b) \in Frames /\ 1 \in DOMAIN b /\ Head(b) = b[1]
    BY <1>2, <1>10, TailOf DEF RetryRow
  <2>2. PICK f : f = [Head(b) EXCEPT !.seq = st[p].retry]
    OBVIOUS
  <2>3. st[p].retry \in Nat
    BY <1>1 DEF StreamType
  <2>4. f \in Frames /\ f.ev = b[1].ev
    BY <2>1, <2>2, <2>3 DEF Frames
  <2>5. PICK c : c = <<f>>
    OBVIOUS
  <2>6. c \in Seq(Frames) /\ \A i \in DOMAIN c : StreamKnows(st[p], c[i].ev)
    BY <2>1, <2>4, <2>5 DEF StreamKnows
  <2>7. (journal' = With(c) /\ st' = NextRow(p, c))
        \/ (UNCHANGED journal /\ st' = NextRow(p, <<>>))
    BY <1>10, <2>2, <2>5 DEF RetryRow
  <2>8. \A s \in DOMAIN journal' : Known(journal'[s])
    BY <2>6, <2>7, WithKnown, JournalKnown
  <2>9. UNCHANGED <<wire, row, seen>>
    BY <1>10 DEF RetryRow
  <2> QED
    BY <1>1, <1>3, <2>1, <2>7, <2>8, <2>9, SilentNextRow
<1>11. CASE Publish(p) \/ PublishLost(p)
  <2>1. PICK r : r = [st[p] EXCEPT !.frames = Tail(st[p].frames)]
    OBVIOUS
  <2>2. r.buf = st[p].buf /\ r.batch = b /\ r.pc = st[p].pc
    BY <1>1, <2>1 DEF StreamType
  <2>3. st' = [st EXCEPT ![p] = r]
    BY <1>1, <1>11, <2>1 DEF StreamsOK, Publish, PublishLost
  <2> QED
    BY <1>4, <1>11, <2>2, <2>3, JournalKnown DEF Publish, PublishLost
<1>12. CASE BulkFails(p)
  <2>1. PICK r : r = [st[p] EXCEPT !.io = "idle", !.batch = <<>>, !.dropped = TRUE]
    OBVIOUS
  <2>2. r.buf = st[p].buf /\ r.batch = <<>> /\ r.pc = st[p].pc
    BY <1>1, <2>1 DEF StreamType
  <2>3. st' = [st EXCEPT ![p] = r]
    BY <1>1, <1>12, <2>1 DEF StreamsOK, BulkFails
  <2> QED
    BY <1>4, <1>12, <2>2, <2>3, JournalKnown DEF BulkFails
<1>13. CASE RowFails(p)
  <2>1. b # <<>>
    BY <1>2, <1>13 DEF RowFails
  <2> QED
    BY <1>1, <1>3, <1>13, <2>1, SilentNextRow, JournalKnown DEF RowFails
<1> QED
  BY <1>5, <1>6, <1>7, <1>8, <1>9, <1>10, <1>11, <1>12, <1>13 DEF Flush

\* The generator finalizes, raises, pauses, gives way or closes.
LEMMA SilentGenerator ==
  ASSUME JournalInv, EndInv, NEW p \in Streams,
         \/ Finalize(p) \/ Supersede(p) \/ Raise(p) \/ Close(p)
         \/ (p = 0 /\ (Pause \/ PauseUnsaved))
  PROVE  Silent
<1>1. StreamsOK /\ st[p] \in StreamType
  BY DEF JournalInv, StreamsOK
<1>2. CASE Finalize(p)
  <2>1. row' # "pending"
    BY <1>2 DEF Finalize
  <2> QED
    BY <1>1, <1>2, <2>1, SilentMove DEF Finalize, Generating, Places
<1>3. CASE Supersede(p)
  BY <1>1, <1>3, SilentMove DEF Supersede, Generating, Places
<1>4. CASE Raise(p)
  BY <1>1, <1>4, SilentMove DEF Raise, Generating, Places
<1>5. CASE p = 0 /\ (Pause \/ PauseUnsaved)
  BY <1>1, <1>5, SilentMove DEF Pause, PauseUnsaved, Generating, Places
<1>6. CASE Close(p)
  <2>1. PICK r : r = [st[p] EXCEPT !.pc = "done", !.buf = <<>>, !.batch = st[p].buf,
                        !.io = IF st[p].buf = <<>> THEN "idle" ELSE "bulk"]
    OBVIOUS
  <2>2. r.buf = <<>> /\ r.batch = st[p].buf /\ r.pc = "done"
    BY <1>1, <2>1 DEF StreamType
  <2>3. \A e \in Events : StreamKnows(r, e) => StreamKnows(st[p], e)
    BY <2>2 DEF StreamKnows
  <2>4. st' = [st EXCEPT ![p] = r]
    BY <1>1, <1>6, <2>1 DEF StreamsOK, Close
  <2> QED
    BY <1>1, <1>6, <2>2, <2>3, <2>4, SilentStream, JournalKnown DEF Close
<1> QED
  BY <1>2, <1>3, <1>4, <1>5, <1>6

\* A continuation starts, and knows nothing yet.
LEMMA SilentContinue ==
  ASSUME JournalInv, EndInv, NEW seed, Continue(seed) PROVE Silent
<1>1. PICK r : r = NewStream("run", seed)
  OBVIOUS
<1>2. r.buf = <<>> /\ r.batch = <<>> /\ r.pc = "run"
  BY <1>1 DEF NewStream
<1>3. \A e \in Events : StreamKnows(r, e) => StreamKnows(st[1], e)
  BY <1>2 DEF StreamKnows
<1>4. st' = [st EXCEPT ![1] = r] /\ 1 \in Streams /\ st[1].pc = "none"
  BY <1>1 DEF Continue, Streams
<1> QED
  BY <1>2, <1>3, <1>4, SilentStream, JournalKnown DEF Continue, JournalInv

\* The client is given frames of a wire, rows of the journal, or what was
\* published of them; a continuation starts without an event.
LEMMA SilentClient ==
  ASSUME JournalInv, EndInv, Read \/ Client
  PROVE  Silent
<1>1. ASSUME NEW N, N \subseteq Rows PROVE \A f \in RowsAt(N) : Known(f.ev)
  BY <1>1 DEF RowsAt, Rows, Known
<1>2. Backlog \subseteq Rows
  BY DEF Backlog
<1>3. CASE Snapshot
  BY <1>1, <1>2, <1>3, SilentReader DEF Snapshot, Hand
<1>4. CASE SnapshotCut
  <2>1. PICK last \in Backlog : Hand(RowsAt({s \in Backlog : s <= last}))
    BY <1>4 DEF SnapshotCut
  <2>2. {s \in Backlog : s <= last} \subseteq Rows
    BY <1>2
  <2> QED
    BY <1>1, <1>4, <2>1, <2>2, SilentReader DEF SnapshotCut, Hand
<1>5. CASE TailFrame
  <2>1. cl.inbox \in Seq(Frames) /\ cl.inbox # <<>> /\ Committed(cl.inbox)
    BY <1>5 DEF TailFrame, JournalInv, ClientOK, ClientType
  <2>2. Known(Head(cl.inbox).ev)
    BY <2>1, TailOf DEF Committed, Known
  <2> QED
    BY <1>5, <2>2, SilentReader DEF TailFrame, Hand
<1>6. CASE Watchdog \/ CloseUntailed
  BY <1>6, SilentReader DEF Watchdog, CloseUntailed
<1>7. CASE LiveDrops \/ LiveEnds
  <2>1. cl.src \in Streams /\ wire[cl.src] \in Seq(Frames)
    BY DEF JournalInv, ClientOK, ClientType, RestOK
  <2>2. PICK w : w = Yielded(cl.src)
    OBVIOUS
  <2>3. w \in Seq(Frames) /\ Len(w) <= Len(wire[cl.src])
        /\ \A i \in 1..Len(w) : i \in DOMAIN wire[cl.src] /\ w[i] = wire[cl.src][i]
    <3>1. CASE w = wire[cl.src]
      BY <2>1, <3>1
    <3>2. CASE w = SubSeq(wire[cl.src], 1, Len(wire[cl.src]) - 1) /\ wire[cl.src] # <<>>
      BY <2>1, <3>2
    <3>3. CASE w = SubSeq(wire[cl.src], 1, Len(wire[cl.src]) - 1) /\ wire[cl.src] = <<>>
      <4>1. w = <<>>
        BY <3>3
      <4> QED
        BY <2>1, <4>1
    <3> QED
      BY <2>2, <3>1, <3>2, <3>3 DEF Yielded
  <2>4. PICK k \in 0..Len(w) : \E m : Received(k, m)
    <3>1. CASE LiveDrops
      BY <2>2, <3>1 DEF LiveDrops
    <3>2. CASE LiveEnds
      <4>1. w = wire[cl.src]
        BY <2>2, <3>2 DEF LiveEnds, Quiet, Yielded, Held
      <4>2. Len(wire[cl.src]) \in 0..Len(w)
        BY <2>1, <4>1
      <4> QED
        BY <3>2, <4>2 DEF LiveEnds
    <3> QED
      BY <1>7, <3>1, <3>2
  <2>5. \A i \in 1..k : SubSeq(w, 1, k)[i] = w[i]
    BY <2>3
  <2>6. \A f \in seen' : f \in seen \/ \E i \in 1..k : f = w[i]
    BY <2>2, <2>4, <2>5 DEF Received
  <2>7. \A i \in 1..k : Known(w[i].ev)
    BY <2>1, <2>3 DEF Known
  <2> QED
    BY <2>4, <2>6, <2>7, SilentReader DEF Received
<1>8. CASE Connect \/ Disconnect
  BY <1>8, SilentReader DEF Connect, Open, Disconnect
<1>9. CASE Resume
  BY <1>9, SilentContinue DEF Resume
<1> QED
  BY <1>3, <1>4, <1>5, <1>6, <1>7, <1>8, <1>9 DEF Read, Client

LEMMA SilentOther ==
  ASSUME JournalInv, EndInv, OtherFault
  PROVE  Silent
<1>1. CASE PauseUnsaved
  BY <1>1, SilentGenerator DEF Streams
<1>2. CASE ResumeEarly \/ ResumeUnseeded
  BY <1>2, SilentContinue DEF ResumeEarly, ResumeUnseeded
<1>3. CASE Truncate
  <2>1. \A e \in Events : Known(e)' => Known(e)
    BY <1>3 DEF Truncate, Known, StreamKnows
  <2> QED
    BY <1>3, <2>1 DEF Truncate, Silent, EndInv, Ready, InTail
<1>4. CASE SubscribeRefused \/ SnapshotFails \/ SubscriptionBreaks \/ WatchdogStale
  BY <1>4, SilentReader DEF SubscribeRefused, Open, SnapshotFails, SubscriptionBreaks,
     WatchdogStale
<1> QED
  BY <1>1, <1>2, <1>3, <1>4 DEF OtherFault

\* An event is emitted: `end` by a stream in its tail, and the tail is reached
\* from the tail or with a pause.
LEMMA EmitEnd ==
  ASSUME JournalInv, EndInv, NEW p \in Streams, NEW kind \in Kinds,
         NEW next \in Places \ {"dead"}, Emit(p, kind, next), st[p].pc # "dead",
         kind = "end" => InTail(p),
         next \in {"closing", "ending"} => InTail(p) \/ kind = "pause"
  PROVE  EndInv'
<1> DEFINE f == [seq |-> st[p].seq + 1,
                 ev  |-> [by |-> p, n |-> Len(wire[p]) + 1, kind |-> kind]]
<1>1. PICK e : e = f.ev
  OBVIOUS
<1>2. st[p] \in StreamType /\ st \in [Streams -> StreamType] /\ wire[p] \in Seq(Frames)
  BY DEF JournalInv, StreamsOK, RestOK
<1>3. st[p].buf \in Seq(Frames)
  BY <1>2 DEF StreamType
<1>4. UNCHANGED <<journal, row, seen>> /\ wire' = [wire EXCEPT ![p] = Append(@, f)]
  BY DEF Emit
<1>5. PICK buf : buf = IF st[p].missing THEN <<>> ELSE Append(st[p].buf, f)
  OBVIOUS
<1>6. \A i \in DOMAIN buf : buf[i].ev = e \/ \E j \in DOMAIN st[p].buf : buf[i] = st[p].buf[j]
  <2>1. \A i \in DOMAIN Append(st[p].buf, f) :
          (i \in DOMAIN st[p].buf /\ Append(st[p].buf, f)[i] = st[p].buf[i])
          \/ Append(st[p].buf, f)[i] = f
    BY <1>3
  <2> QED
    BY <1>1, <1>5, <2>1
<1>7. PICK r : /\ r.buf \in {buf, <<>>} /\ r.batch \in {st[p].batch, buf} /\ r.pc = next
               /\ st' = [st EXCEPT ![p] = r]
  <2>1. CASE st' = [st EXCEPT ![p].pc = next, ![p].seq = f.seq, ![p].buf = buf]
    <3>1. PICK r : r = [st[p] EXCEPT !.pc = next, !.seq = f.seq, !.buf = buf]
      OBVIOUS
    <3>2. r.buf = buf /\ r.batch = st[p].batch /\ r.pc = next
      BY <1>2, <3>1 DEF StreamType
    <3>3. st' = [st EXCEPT ![p] = r]
      BY <1>2, <2>1, <3>1
    <3> QED
      BY <3>2, <3>3
  <2>2. CASE st' = [st EXCEPT ![p].pc = next, ![p].seq = f.seq, ![p].buf = <<>>,
                              ![p].batch = buf, ![p].io = "bulk"]
    <3>1. PICK r : r = [st[p] EXCEPT !.pc = next, !.seq = f.seq, !.buf = <<>>,
                                     !.batch = buf, !.io = "bulk"]
      OBVIOUS
    <3>2. r.buf = <<>> /\ r.batch = buf /\ r.pc = next
      BY <1>2, <3>1 DEF StreamType
    <3>3. st' = [st EXCEPT ![p] = r]
      BY <1>2, <2>2, <3>1
    <3> QED
      BY <3>2, <3>3
  <2> QED
    BY <1>5, <2>1, <2>2 DEF Emit
<1>8. st'[p] = r /\ \A q \in Streams : q # p => st'[q] = st[q]
  BY <1>2, <1>7
<1>9. /\ wire'[p] = Append(wire[p], f) /\ \A q \in Streams : q # p => wire'[q] = wire[q]
      /\ Len(wire'[p]) = Len(wire[p]) + 1 /\ Len(wire[p]) \in Nat
      /\ \A j \in DOMAIN wire[p] : j \in DOMAIN wire'[p] /\ wire'[p][j] = wire[p][j]
                                   /\ j <= Len(wire[p])
      /\ \A j \in DOMAIN wire'[p] : j \in DOMAIN wire[p] \/ wire'[p][j] = f
      /\ Len(wire[p]) + 1 \in DOMAIN wire'[p] /\ wire'[p][Len(wire[p]) + 1] = f
  <2>1. wire \in [Streams -> Seq(Frames)]
    BY DEF JournalInv, RestOK
  <2>2. wire'[p] = Append(wire[p], f) /\ \A q \in Streams : q # p => wire'[q] = wire[q]
    BY <1>4, <2>1
  <2> HIDE DEF f
  <2> QED
    BY <1>2, <2>2
<1>10. e.by = p /\ e.kind = kind /\ f.ev = e
  BY <1>1
<1> HIDE DEF f
<1>11. ASSUME NEW x \in Events, Known(x)' PROVE x = e \/ Known(x)
  <2>1. CASE \E q \in Streams : \E i \in DOMAIN wire'[q] : wire'[q][i].ev = x
    <3>1. PICK q \in Streams : \E i \in DOMAIN wire'[q] : wire'[q][i].ev = x
      BY <2>1
    <3>2. CASE q = p
      BY <1>9, <1>10, <3>1, <3>2 DEF Known
    <3>3. CASE q # p
      BY <1>9, <3>1, <3>3 DEF Known
    <3> QED
      BY <3>2, <3>3
  <2>2. CASE \E q \in Streams : StreamKnows(st'[q], x)
    <3>1. PICK q \in Streams : StreamKnows(st'[q], x)
      BY <2>2
    <3>2. CASE q = p
      <4>1. StreamKnows(r, x)
        BY <1>8, <3>1, <3>2
      <4>2. x = e \/ StreamKnows(st[p], x)
        BY <1>6, <1>7, <4>1 DEF StreamKnows
      <4> QED
        BY <4>2 DEF Known
    <3>3. CASE q # p
      BY <1>8, <3>1, <3>3 DEF Known
    <3> QED
      BY <3>2, <3>3
  <2>3. CASE (\E s \in DOMAIN journal' : journal'[s] = x) \/ \E g \in seen' : g.ev = x
    BY <1>4, <2>3 DEF Known
  <2>4. \A q \in Streams : (\E i \in DOMAIN st'[q].buf : st'[q].buf[i].ev = x)
                           \/ (\E i \in DOMAIN st'[q].batch : st'[q].batch[i].ev = x)
                           => StreamKnows(st'[q], x)
    BY DEF StreamKnows
  <2> QED
    BY <1>11, <2>1, <2>2, <2>3, <2>4 DEF Known, StreamKnows
<1>12. ASSUME NEW q \in Streams, PauseOut(q) PROVE PauseOut(q)'
  <2>1. CASE q = p
    BY <1>8, <1>7, <1>9, <1>12, <2>1 DEF PauseOut
  <2>2. CASE q # p
    BY <1>8, <1>9, <1>12, <2>2 DEF PauseOut
  <2> QED
    BY <2>1, <2>2
<1>13. kind = "end" => row # "pending" \/ PauseOut(p)'
  <2> SUFFICES ASSUME kind = "end", row = "pending" PROVE PauseOut(p)'
    OBVIOUS
  <2>1. PICK j \in DOMAIN wire[p] : wire[p][j].ev.kind = "pause"
    BY DEF EndInv
  <2>2. j \in DOMAIN wire'[p] /\ wire'[p][j].ev.kind = "pause" /\ j < Len(wire'[p])
    BY <1>2, <1>9, <2>1
  <2> QED
    BY <2>2 DEF PauseOut
<1>14. ASSUME NEW x \in Events, Known(x)', x.kind = "end"
       PROVE  row' # "pending" \/ PauseOut(x.by)'
  <2>1. CASE x = e
    BY <1>4, <1>10, <1>13, <1>14, <2>1
  <2>2. CASE Known(x)
    BY <1>4, <1>12, <1>14, <2>2 DEF EndInv, Events
  <2> QED
    BY <1>11, <1>14, <2>1, <2>2
<1>15. ASSUME NEW q \in Streams, InTail(q)'
       PROVE  row' # "pending" \/ \E j \in DOMAIN wire'[q] : wire'[q][j].ev.kind = "pause"
  <2>1. CASE q # p
    BY <1>4, <1>8, <1>9, <1>15, <2>1 DEF EndInv, InTail
  <2>2. CASE q = p /\ InTail(p)
    <3>1. row # "pending" \/ \E j \in DOMAIN wire[p] : wire[p][j].ev.kind = "pause"
      BY <2>2 DEF EndInv
    <3> QED
      BY <1>4, <1>9, <2>2, <3>1
  <2>3. CASE q = p /\ kind = "pause"
    BY <1>9, <1>10, <2>3
  <2> QED
    BY <1>7, <1>8, <1>15, <2>1, <2>2, <2>3 DEF InTail
<1>16. \A q \in Streams : st'[q].pc = "dead" => Ready(q)'
  BY <1>7, <1>8 DEF EndInv, Ready
<1> QED
  BY <1>14, <1>15, <1>16 DEF EndInv

\* A crash takes back at most the last frame of the wire.
LEMMA CrashEnd ==
  ASSUME JournalInv, EndInv, NEW p \in Streams, Crash(p) PROVE EndInv'
<1>1. PICK r : r = [NewStream("dead", -1) EXCEPT !.dropped = st[p].dropped]
  OBVIOUS
<1>2. r.buf = <<>> /\ r.batch = <<>> /\ r.frames = <<>> /\ r.io = "idle" /\ r.pc = "dead"
  BY <1>1 DEF NewStream
<1>3. st'[p] = r /\ \A q \in Streams : q # p => st'[q] = st[q]
  BY <1>1 DEF Crash, JournalInv, StreamsOK
<1>4. UNCHANGED <<journal, row, seen>> /\ wire' = [wire EXCEPT ![p] = Yielded(p)]
  BY DEF Crash
<1>5. wire \in [Streams -> Seq(Frames)] /\ wire[p] \in Seq(Frames)
  BY DEF JournalInv, RestOK
<1>6. st[p].pc # "dead"
  BY DEF Crash, Quiet, EndInv
<1>7. /\ \A j \in DOMAIN Yielded(p) : j \in DOMAIN wire[p] /\ Yielded(p)[j] = wire[p][j]
      /\ \A j \in DOMAIN wire[p] : j < Len(wire[p]) =>
           j \in DOMAIN Yielded(p) /\ Yielded(p)[j] = wire[p][j]
  <2>1. CASE Yielded(p) = wire[p]
    BY <2>1
  <2>2. CASE Yielded(p) = SubSeq(wire[p], 1, Len(wire[p]) - 1) /\ wire[p] # <<>>
    BY <1>5, <2>2
  <2>3. CASE Yielded(p) = SubSeq(wire[p], 1, Len(wire[p]) - 1) /\ wire[p] = <<>>
    <3>1. Yielded(p) = <<>>
      BY <2>3
    <3> QED
      BY <2>3, <3>1
  <2> QED
    BY <2>1, <2>2, <2>3 DEF Yielded
<1>8. wire'[p] = Yielded(p) /\ \A q \in Streams : q # p => wire'[q] = wire[q]
  BY <1>4, <1>5
<1>9. ASSUME NEW x \in Events, Known(x)' PROVE Known(x)
  <2>1. CASE \E q \in Streams : \E i \in DOMAIN wire'[q] : wire'[q][i].ev = x
    <3>1. PICK q \in Streams : \E i \in DOMAIN wire'[q] : wire'[q][i].ev = x
      BY <2>1
    <3>2. \A i \in DOMAIN wire'[q] : i \in DOMAIN wire[q] /\ wire[q][i] = wire'[q][i]
      BY <1>7, <1>8
    <3> QED
      BY <3>1, <3>2 DEF Known
  <2>2. CASE \E q \in Streams : StreamKnows(st'[q], x)
    <3>1. PICK q \in Streams : StreamKnows(st'[q], x)
      BY <2>2
    <3>2. q # p
      BY <1>2, <1>3, <3>1 DEF StreamKnows
    <3> QED
      BY <1>3, <3>1, <3>2 DEF Known
  <2>3. CASE (\E s \in DOMAIN journal' : journal'[s] = x) \/ \E g \in seen' : g.ev = x
    BY <1>4, <2>3 DEF Known
  <2>4. \A q \in Streams : (\E i \in DOMAIN st'[q].buf : st'[q].buf[i].ev = x)
                           \/ (\E i \in DOMAIN st'[q].batch : st'[q].batch[i].ev = x)
                           => StreamKnows(st'[q], x)
    BY DEF StreamKnows
  <2> QED
    BY <1>9, <2>1, <2>2, <2>3, <2>4 DEF Known, StreamKnows
<1>10. ASSUME NEW q \in Streams, PauseOut(q) PROVE PauseOut(q)'
  <2>1. CASE q = p
    <3>1. PICK j \in DOMAIN wire[p] : wire[p][j].ev.kind = "pause" /\ j < Len(wire[p])
      BY <1>6, <1>10, <2>1 DEF PauseOut
    <3>2. j \in DOMAIN wire'[p] /\ wire'[p][j].ev.kind = "pause"
      BY <1>7, <1>8, <3>1
    <3> QED
      BY <1>2, <1>3, <2>1, <3>2 DEF PauseOut
  <2>2. CASE q # p
    BY <1>3, <1>8, <1>10, <2>2 DEF PauseOut
  <2> QED
    BY <2>1, <2>2
<1>11. \A x \in Events : Known(x)' /\ x.kind = "end" => row' # "pending" \/ PauseOut(x.by)'
  BY <1>4, <1>9, <1>10 DEF EndInv, Events
<1>12. ASSUME NEW q \in Streams, InTail(q)'
       PROVE  row' # "pending" \/ \E j \in DOMAIN wire'[q] : wire'[q][j].ev.kind = "pause"
  <2>1. q # p
    BY <1>2, <1>3, <1>12 DEF InTail
  <2> QED
    BY <1>3, <1>4, <1>8, <1>12, <2>1 DEF EndInv, InTail
<1>13. \A q \in Streams : st'[q].pc = "dead" => Ready(q)'
  BY <1>2, <1>3 DEF EndInv, Ready
<1> QED
  BY <1>11, <1>12, <1>13 DEF EndInv

LEMMA EndStep == JournalInv /\ EndInv /\ [Next]_vars => EndInv'
<1> SUFFICES ASSUME JournalInv, EndInv, [Next]_vars PROVE EndInv'
  OBVIOUS
<1>1. CASE UNCHANGED vars
  BY <1>1 DEF vars, EndInv, Known, StreamKnows, PauseOut, InTail, Ready
<1>2. ASSUME NEW p \in Streams, EmitData(p) \/ EmitAgentError(p) PROVE EndInv'
  BY <1>2, EmitEnd DEF EmitData, EmitAgentError, Kinds, Places
<1>3. ASSUME NEW p \in Streams, EmitTail(p) PROVE EndInv'
  BY <1>3, EmitEnd DEF EmitTail, Kinds, Places, InTail
<1>4. ASSUME NEW p \in Streams, Generate(p) \/ Flush(p) \/ StreamFault(p) PROVE EndInv'
  BY <1>2, <1>3, <1>4, CrashEnd, SilentGenerator, SilentFlush, SilentKeeps
     DEF Generate, StreamFault
<1>5. CASE Pause
  BY <1>5, SilentGenerator, SilentKeeps DEF Streams
<1>6. CASE Read \/ Client \/ OtherFault
  BY <1>6, SilentClient, SilentOther, SilentKeeps
<1> QED
  BY <1>1, <1>4, <1>5, <1>6 DEF Next

LEMMA EndInit == Init => EndInv
<1> SUFFICES ASSUME Init PROVE EndInv
  OBVIOUS
<1>1. \A p \in Streams : /\ st[p].pc \in {"run", "none"} /\ wire[p] = <<>>
                         /\ st[p].buf = <<>> /\ st[p].batch = <<>>
  BY DEF Init, NewStream
<1>2. DOMAIN journal = {} /\ seen = {}
  BY DEF Init
<1>3. \A e \in Events : ~Known(e)
  BY <1>1, <1>2 DEF Known, StreamKnows
<1> QED
  BY <1>1, <1>3 DEF EndInv, InTail

\* A client that is told `end` finds the row finished or the turn paused, under
\* every fault, collision and crash (routes/base.py finalizes before it emits).
THEOREM EndAfterFinalizeHolds == Spec => []EndAfterFinalize
<1>1. JournalInv /\ EndInv => EndAfterFinalize
  <2> SUFFICES ASSUME JournalInv, EndInv, NEW f \in seen, f.ev.kind = "end"
               PROVE  \/ row # "pending"
                      \/ \E i \in DOMAIN wire[f.ev.by] : wire[f.ev.by][i].ev.kind = "pause"
    BY DEF EndAfterFinalize
  <2>1. f.ev \in Events /\ Known(f.ev)
    BY DEF JournalInv, RestOK, Frames, Known
  <2> QED
    BY <2>1 DEF EndInv, PauseOut
<1> QED
  BY <1>1, EndInit, EndStep, InvInit, InvStep, PTL DEF Spec
-----------------------------------------------------------------------------
(* The journal keeps the order of a stream that gave up no event.           *)

\* What the writer `r` has recorded and not yet committed.
Unwritten(r) == Len(r.batch) + Len(r.buf)

\* The writer `r` of stream `p`, whose POST yielded `w`, holds the last events of `w` with
\* consecutive numbers, the first of them not beyond the `m` rows of the journal.
Holds(r, w, p, m) ==
  LET k     == Len(w) - Unwritten(r)
      first == r.seq + 1 - Unwritten(r)
  IN
  /\ ~r.missing
  /\ r.io = "idle" => r.batch = <<>>
  /\ r.pc = "done" => r.buf = <<>>
  /\ r.io = "retry" => r.retry <= m
  /\ \A i \in DOMAIN w : w[i].ev.by = p /\ w[i].ev.n = i
  /\ 0 <= k /\ first <= m
  /\ \A i \in DOMAIN r.batch : r.batch[i].ev = w[k + i].ev /\ r.batch[i].seq = first + i - 1
  /\ \A i \in DOMAIN r.buf : /\ r.buf[i].ev = w[k + Len(r.batch) + i].ev
                             /\ r.buf[i].seq = first + Len(r.batch) + i - 1

\* The journal has the first `k` events of `w`, and no other of stream `p`, in order.
Wrote(w, p, k) ==
  /\ \A i \in 1..k : \E s \in DOMAIN journal : journal[s] = w[i].ev
  /\ \A s \in DOMAIN journal : journal[s].by = p => journal[s].n <= k
  /\ \A s, t \in DOMAIN journal :
       journal[s].by = p /\ journal[t].by = p /\ journal[s].n < journal[t].n => s < t

Placed(r, w, p, m) == Holds(r, w, p, m) /\ Wrote(w, p, Len(w) - Unwritten(r))

\* No message was deleted and no event was given up.
Whole == row # "gone" /\ \A p \in Streams : ~st[p].dropped

Placement(m) ==
  /\ DOMAIN journal = 0..(m - 1)
  /\ \A p \in Streams : st[p].pc # "dead" => Placed(st[p], wire[p], p, m)

\* A stream that has not started has done nothing.
Unstarted(p) == st[p] = NewStream("none", -1) /\ wire[p] = <<>>

OrderInv ==
  /\ \A p \in Streams : st[p].pc = "none" => Unstarted(p)
  /\ Whole => \E m \in Nat : Placement(m)

\* The rows of a batch numbered from the end of the journal.
LEMMA WithExtends ==
  ASSUME JournalOK, NEW m \in Nat, DOMAIN journal = 0..(m - 1),
         NEW b \in Seq(Frames), b # <<>>, \A i \in DOMAIN b : b[i].seq = m + i - 1,
         row # "gone", journal' = With(b)
  PROVE  /\ Kept /\ DOMAIN journal' = 0..(m + Len(b) - 1)
         /\ \A i \in 1..Len(b) : journal'[m + i - 1] = b[i].ev
<1>1. Increasing(b)
  BY DEF Increasing
<1>2. \A i \in DOMAIN b : Vacant(b[i].seq)
  BY DEF Vacant
<1>3. Kept /\ Committed(b)' /\ JournalOK'
  BY <1>1, <1>2, WithCommits
<1>4. \A i \in 1..Len(b) : journal'[m + i - 1] = b[i].ev
  <2>1. \A i \in DOMAIN b : journal'[b[i].seq] = b[i].ev
    BY <1>3 DEF Committed
  <2>2. \A i \in 1..Len(b) : i \in DOMAIN b
    OBVIOUS
  <2> QED
    BY <2>1, <2>2
<1>5. DOMAIN journal' = DOMAIN journal \cup {b[i].seq : i \in DOMAIN b}
  BY DEF With
<1>6. {b[i].seq : i \in DOMAIN b} = m..(m + Len(b) - 1)
  <2>1. \A i \in DOMAIN b : b[i].seq \in m..(m + Len(b) - 1)
    OBVIOUS
  <2>2. ASSUME NEW n \in m..(m + Len(b) - 1) PROVE \E i \in DOMAIN b : b[i].seq = n
    <3>1. n - m + 1 \in DOMAIN b /\ b[n - m + 1].seq = n
      OBVIOUS
    <3> QED
      BY <3>1
  <2> QED
    BY <2>1, <2>2
<1>7. DOMAIN journal' = 0..(m + Len(b) - 1)
  <2>1. Len(b) \in Nat \ {0}
    OBVIOUS
  <2> QED
    BY <1>5, <1>6, <2>1
<1> QED
  BY <1>3, <1>4, <1>7

\* `l` rows follow the `m` rows of the journal: the next events of stream `p`.
LEMMA WroteMore ==
  ASSUME NEW m \in Nat, NEW l \in Nat, DOMAIN journal = 0..(m - 1), Kept,
         DOMAIN journal' = 0..(m + l - 1), NEW p \in Streams, NEW w \in Seq(Frames),
         \A i \in DOMAIN w : w[i].ev.by = p /\ w[i].ev.n = i,
         NEW k \in Nat, k + l <= Len(w), Wrote(w, p, k), JournalOK,
         \A i \in 1..l : journal'[m + i - 1] = w[k + i].ev
  PROVE  Wrote(w, p, k + l)'
<1>1. ASSUME NEW i \in 1..(k + l) PROVE \E s \in DOMAIN journal' : journal'[s] = w[i].ev
  <2>1. CASE i <= k
    <3>1. i \in 1..k
      BY <2>1
    <3> QED
      BY <3>1 DEF Wrote, Kept
  <2>2. CASE i > k
    <3>1. i - k \in 1..l /\ m + (i - k) - 1 \in 0..(m + l - 1) /\ k + (i - k) = i
      BY <2>2
    <3>2. journal'[m + (i - k) - 1] = w[k + (i - k)].ev
      BY <3>1
    <3> QED
      BY <3>1, <3>2
  <2> QED
    BY <2>1, <2>2
<1>2. ASSUME NEW s \in DOMAIN journal'
      PROVE  \/ s < m /\ s \in DOMAIN journal /\ journal'[s] = journal[s]
             \/ s >= m /\ journal'[s].by = p /\ journal'[s].n = k + (s - m) + 1
  <2>1. s \in 0..(m + l - 1)
    OBVIOUS
  <2>2. CASE s < m
    BY <2>1, <2>2 DEF Kept
  <2>3. CASE s >= m
    <3>1. s - m + 1 \in 1..l /\ m + (s - m + 1) - 1 = s /\ k + (s - m + 1) \in DOMAIN w
      BY <2>1, <2>3
    <3>2. journal'[s] = w[k + (s - m + 1)].ev
      BY <3>1
    <3>3. w[k + (s - m + 1)].ev.by = p /\ w[k + (s - m + 1)].ev.n = k + (s - m + 1)
      BY <3>1
    <3> QED
      BY <2>1, <2>3, <3>2, <3>3
  <2> QED
    BY <2>1, <2>2, <2>3
<1>3. \A s \in DOMAIN journal : s \in Nat /\ journal[s].n \in Nat
  BY DEF JournalOK, Events
<1>4. ASSUME NEW s \in DOMAIN journal', journal'[s].by = p PROVE journal'[s].n <= k + l
  <2>1. CASE s < m /\ s \in DOMAIN journal /\ journal'[s] = journal[s]
    BY <1>3, <1>4, <2>1 DEF Wrote
  <2>2. CASE s >= m /\ journal'[s].n = k + (s - m) + 1
    BY <2>2
  <2> QED
    BY <1>2, <2>1, <2>2
<1>5. ASSUME NEW s \in DOMAIN journal', NEW t \in DOMAIN journal', journal'[s].by = p,
             journal'[t].by = p, journal'[s].n < journal'[t].n
      PROVE  s < t
  <2>1. CASE t < m /\ s < m
    BY <1>2, <1>5, <2>1 DEF Wrote
  <2>2. CASE t < m /\ s >= m
    <3>1. journal'[s].n = k + (s - m) + 1 /\ s \in Nat
      BY <1>2, <2>2
    <3>2. t \in DOMAIN journal /\ journal'[t] = journal[t]
      BY <1>2, <2>2
    <3>3. journal'[t].n <= k
      BY <1>5, <3>2 DEF Wrote
    <3>4. journal'[t].n \in Nat
      BY <1>3, <3>2
    <3> QED
      BY <1>5, <2>2, <3>1, <3>3, <3>4
  <2>3. CASE t >= m /\ s < m
    BY <2>3
  <2>4. CASE t >= m /\ s >= m
    BY <1>2, <1>5, <2>4
  <2> QED
    BY <2>1, <2>2, <2>3, <2>4
<1> QED
  BY <1>1, <1>4, <1>5 DEF Wrote

\* Rows of another stream disturb nothing.
LEMMA WroteOther ==
  ASSUME Kept, NEW m \in Nat, DOMAIN journal = 0..(m - 1), NEW q \in Streams,
         \A s \in DOMAIN journal' : s \in DOMAIN journal \/ journal'[s].by # q,
         NEW w, NEW k, Wrote(w, q, k)
  PROVE  Wrote(w, q, k)'
BY DEF Wrote, Kept

LEMMA HoldsMore ==
  ASSUME NEW r \in StreamType, NEW w \in Seq(Frames), NEW p, NEW m \in Nat,
         NEW l \in Nat, Holds(r, w, p, m)
  PROVE  Holds(r, w, p, m + l)
<1>1. r.retry \in Nat /\ r.seq \in Int /\ Unwritten(r) \in Nat
  BY DEF StreamType, Unwritten
<1>2. PICK u : u = Unwritten(r)
  OBVIOUS
<1> QED
  BY <1>1, <1>2 DEF Holds

\* `r` is `t` with the first `l` events of its batch written.
TakenOff(t, r, l) ==
  /\ r.missing = t.missing /\ r.seq = t.seq /\ r.buf = t.buf /\ r.pc = t.pc
  /\ r.dropped = t.dropped
  /\ r.io \in {"idle", "rows"} /\ (r.io = "idle" => r.batch = <<>>)
  /\ Len(r.batch) = Len(t.batch) - l
  /\ \A i \in DOMAIN r.batch : r.batch[i] = t.batch[l + i]

LEMMA HoldsRest ==
  ASSUME NEW t \in StreamType, NEW r \in StreamType, NEW w \in Seq(Frames), NEW p,
         NEW m \in Nat, NEW l \in Nat, Holds(t, w, p, m),
         TakenOff(t, r, l),
         NEW k, k = Len(w) - Unwritten(t)
  PROVE  /\ k \in Nat /\ k + l <= Len(w) /\ Len(w) - Unwritten(r) = k + l
         /\ \A i \in 1..l : i \in DOMAIN t.batch /\ t.batch[i].ev = w[k + i].ev
         /\ Holds(r, w, p, m + l)
<1>1. t.batch \in Seq(Frames) /\ r.batch \in Seq(Frames) /\ t.buf \in Seq(Frames)
      /\ t.seq \in Int
  BY DEF StreamType
<1>2. PICK bt, br, bf, s : bt = t.batch /\ br = r.batch /\ bf = t.buf /\ s = t.seq
  OBVIOUS
<1>3. PICK u : u = Unwritten(t)
  OBVIOUS
<1>0. /\ r.missing = t.missing /\ r.seq = t.seq /\ r.buf = t.buf /\ r.pc = t.pc
      /\ r.io \in {"idle", "rows"} /\ (r.io = "idle" => r.batch = <<>>)
      /\ Len(r.batch) = Len(t.batch) - l
      /\ \A i \in DOMAIN r.batch : r.batch[i] = t.batch[l + i]
  BY DEF TakenOff
<1>4. /\ bt \in Seq(Frames) /\ br \in Seq(Frames) /\ bf \in Seq(Frames) /\ s \in Int
      /\ r.buf = bf /\ r.seq = s /\ Len(br) = Len(bt) - l
      /\ \A i \in DOMAIN br : br[i] = bt[l + i]
  BY <1>0, <1>1, <1>2
<1>5. u = Len(bt) + Len(bf) /\ Unwritten(r) = Len(br) + Len(bf)
  BY <1>2, <1>3, <1>4 DEF Unwritten
<1>6. /\ ~t.missing /\ (t.pc = "done" => bf = <<>>)
      /\ \A i \in DOMAIN w : w[i].ev.by = p /\ w[i].ev.n = i
      /\ 0 <= k /\ s + 1 - u <= m /\ k = Len(w) - u
      /\ \A i \in DOMAIN bt : bt[i].ev = w[k + i].ev /\ bt[i].seq = s + 1 - u + i - 1
      /\ \A i \in DOMAIN bf : /\ bf[i].ev = w[k + Len(bt) + i].ev
                              /\ bf[i].seq = s + 1 - u + Len(bt) + i - 1
  BY <1>2, <1>3 DEF Holds
<1>7. /\ Len(bt) \in Nat /\ Len(br) \in Nat /\ Len(bf) \in Nat /\ Len(w) \in Nat
      /\ l <= Len(bt)
  BY <1>4
<1>8. u \in Nat /\ k \in Nat /\ Unwritten(r) = u - l /\ Len(w) - (u - l) = k + l
      /\ k + l <= Len(w)
  <2>1. 0 <= k /\ k = Len(w) - u /\ Len(br) = Len(bt) - l
    BY <1>4, <1>6
  <2> QED
    BY <1>5, <1>7, <2>1
<1>9. \A i \in 1..l : i \in DOMAIN t.batch /\ t.batch[i].ev = w[k + i].ev
  BY <1>2, <1>4, <1>6, <1>7
<1>10. \A i \in DOMAIN br : br[i].ev = w[(k + l) + i].ev
                            /\ br[i].seq = s + 1 - (u - l) + i - 1
  <2> SUFFICES ASSUME NEW i \in DOMAIN br
               PROVE  br[i].ev = w[(k + l) + i].ev /\ br[i].seq = s + 1 - (u - l) + i - 1
    OBVIOUS
  <2>1. i \in Nat /\ l + i \in DOMAIN bt
    BY <1>4, <1>7
  <2>2. k + (l + i) = (k + l) + i /\ s + 1 - u + (l + i) - 1 = s + 1 - (u - l) + i - 1
    <3>1. s \in Int /\ u \in Nat /\ k \in Nat /\ i \in Nat
      BY <1>4, <1>8, <2>1
    <3> QED
      BY <3>1
  <2> QED
    BY <1>4, <1>6, <2>1, <2>2
<1>11. \A i \in DOMAIN bf : /\ bf[i].ev = w[(k + l) + Len(br) + i].ev
                            /\ bf[i].seq = s + 1 - (u - l) + Len(br) + i - 1
  <2>1. (k + l) + Len(br) = k + Len(bt)
        /\ s + 1 - (u - l) + Len(br) = s + 1 - u + Len(bt)
    BY <1>4, <1>7, <1>8
  <2> QED
    BY <1>6, <2>1
<1>12. s + 1 - (u - l) <= m + l /\ 0 <= k + l
  BY <1>4, <1>6, <1>8
<1>13. Holds(r, w, p, m + l)
  <2>1. PICK v, k2 : v = Unwritten(r) /\ k2 = k + l
    OBVIOUS
  <2>2. /\ \A i \in DOMAIN r.batch : r.batch[i].ev = w[k2 + i].ev
                                     /\ r.batch[i].seq = r.seq + 1 - v + i - 1
        /\ \A i \in DOMAIN r.buf : /\ r.buf[i].ev = w[k2 + Len(r.batch) + i].ev
                                   /\ r.buf[i].seq = r.seq + 1 - v + Len(r.batch) + i - 1
        /\ 0 <= k2 /\ r.seq + 1 - v <= m + l /\ Len(w) - v = k2
    BY <1>2, <1>4, <1>8, <1>10, <1>11, <1>12, <2>1
  <2>3. /\ ~r.missing /\ (r.io = "idle" => r.batch = <<>>) /\ (r.pc = "done" => r.buf = <<>>)
        /\ r.io # "retry"
    BY <1>0, <1>4, <1>6
  <2> QED
    BY <1>6, <2>1, <2>2, <2>3 DEF Holds
<1> QED
  BY <1>8, <1>9, <1>13

LEMMA PlacedStays ==
  ASSUME NEW r, NEW w, NEW p, NEW m, Placed(r, w, p, m), UNCHANGED journal
  PROVE  Placed(r, w, p, m)'
<1>1. PICK k : k = Len(w) - Unwritten(r)
  OBVIOUS
<1>2. Holds(r, w, p, m)' /\ Wrote(w, p, k)'
  BY <1>1 DEF Placed, Holds, Wrote
<1> QED
  BY <1>1, <1>2 DEF Placed

\* A step that leaves the journal alone and stream `p` as `r`, with `w` on its wire.
LEMMA OrderStays ==
  ASSUME JournalInv, OrderInv, NEW p \in Streams, NEW r, NEW w,
         st' = [st EXCEPT ![p] = r], wire' = [wire EXCEPT ![p] = w], UNCHANGED journal,
         row = "gone" => row' = "gone", st[p].dropped => r.dropped, r.pc # "none",
         \/ r.pc = "dead" \/ r.dropped \/ row' = "gone"
         \/ /\ st[p].pc # "dead"
            /\ \A m \in Nat : DOMAIN journal = 0..(m - 1) /\ Placed(st[p], wire[p], p, m)
                              => Placed(r, w, p, m)
  PROVE  OrderInv'
<1>1. /\ st'[p] = r /\ \A q \in Streams : q # p => st'[q] = st[q]
      /\ wire'[p] = w /\ \A q \in Streams : q # p => wire'[q] = wire[q]
  BY DEF JournalInv, StreamsOK, RestOK
<1>2. \A q \in Streams : st'[q].pc = "none" => Unstarted(q)'
  BY <1>1 DEF OrderInv, Unstarted
<1>3. ASSUME Whole' PROVE \E m \in Nat : Placement(m)'
  <2>1. Whole
    BY <1>1, <1>3 DEF Whole
  <2>2. PICK m \in Nat : Placement(m)
    BY <2>1 DEF OrderInv
  <2>3. ASSUME NEW q \in Streams, st'[q].pc # "dead" PROVE Placed(st[q], wire[q], q, m)'
    <3>1. CASE q = p
      <4>1. Placed(r, w, p, m)
        BY <1>1, <1>3, <2>2, <2>3, <3>1 DEF Whole, Placement
      <4>2. Placed(r, w, p, m)'
        BY <4>1, PlacedStays
      <4>3. st'[q] = r /\ wire'[q] = w /\ q = p
        BY <1>1, <3>1
      <4> QED
        BY <4>2, <4>3
    <3>2. CASE q # p
      <4>1. PICK t, v : t = st[q] /\ v = wire[q]
        OBVIOUS
      <4>2. Placed(t, v, q, m)
        BY <1>1, <2>2, <2>3, <3>2, <4>1 DEF Placement
      <4>3. Placed(t, v, q, m)'
        BY <4>2, PlacedStays
      <4>4. st'[q] = t /\ wire'[q] = v
        BY <1>1, <3>2, <4>1
      <4> QED
        BY <4>3, <4>4
    <3> QED
      BY <3>1, <3>2
  <2>4. Placement(m)'
    BY <2>2, <2>3 DEF Placement
  <2> QED
    BY <2>4
<1> QED
  BY <1>2, <1>3 DEF OrderInv

\* Nothing that counts changes.
LEMMA OrderSame ==
  ASSUME OrderInv, UNCHANGED <<st, wire, journal>>, row = "gone" => row' = "gone"
  PROVE  OrderInv'
<1>1. \A p \in Streams : st'[p] = st[p] /\ wire'[p] = wire[p]
  OBVIOUS
<1>2. ASSUME NEW m \in Nat, Placement(m) PROVE Placement(m)'
  BY <1>1, <1>2 DEF Placement, Placed, Holds, Wrote
<1> QED
  BY <1>1, <1>2 DEF OrderInv, Whole, Unstarted

\* The first `l` events of the batch are written, in the rows after the last one.
LEMMA OrderGrows ==
  ASSUME JournalInv, OrderInv, NEW p \in Streams, NEW r \in StreamType, NEW b \in Seq(Frames),
         st' = [st EXCEPT ![p] = r], UNCHANGED <<wire, row>>,
         st[p].pc \notin {"none", "dead"}, Kept, TakenOff(st[p], r, Len(b)),
         \A i \in 1..Len(b) : b[i].ev = st[p].batch[i].ev,
         \A m \in Nat : Whole /\ Placement(m) =>
           /\ DOMAIN journal' = 0..(m + Len(b) - 1)
           /\ \A i \in 1..Len(b) : journal'[m + i - 1] = b[i].ev
  PROVE  OrderInv'
<1>1. st'[p] = r /\ \A q \in Streams : q # p => st'[q] = st[q]
  BY DEF JournalInv, StreamsOK
<1>2. \A q \in Streams : st'[q].pc = "none" => Unstarted(q)'
  BY <1>1 DEF OrderInv, Unstarted, TakenOff
<1>3. ASSUME Whole' PROVE \E m \in Nat : Placement(m)'
  <2>1. Whole
    BY <1>1, <1>3 DEF Whole, TakenOff
  <2>2. PICK m \in Nat : Placement(m)
    BY <2>1 DEF OrderInv
  <2>3. PICK l \in Nat : l = Len(b)
    OBVIOUS
  <2>4. DOMAIN journal' = 0..(m + l - 1) /\ \A i \in 1..l : journal'[m + i - 1] = b[i].ev
    BY <2>1, <2>2, <2>3
  <2>5. \A q \in Streams : st[q] \in StreamType /\ wire[q] \in Seq(Frames)
    BY DEF JournalInv, StreamsOK, RestOK
  <2>6. PICK w : w = wire[p]
    OBVIOUS
  <2>7. PICK k : k = Len(w) - Unwritten(st[p])
    OBVIOUS
  <2>8. w \in Seq(Frames) /\ st[p].buf \in Seq(Frames) /\ st[p].seq \in Int
    BY <2>5, <2>6 DEF StreamType
  <2>9. Holds(st[p], w, p, m) /\ Wrote(w, p, k)
    BY <2>2, <2>6, <2>7 DEF Placement, Placed
  <2>11. /\ k \in Nat /\ k + l <= Len(w) /\ Len(w) - Unwritten(r) = k + l
         /\ \A i \in 1..l : st[p].batch[i].ev = w[k + i].ev
         /\ Holds(r, w, p, m + l)
    <3>1. PICK t : t = st[p]
      OBVIOUS
    <3>2. t \in StreamType /\ Holds(t, w, p, m) /\ k = Len(w) - Unwritten(t)
      BY <2>5, <2>7, <2>9, <3>1
    <3>3. TakenOff(t, r, l)
      BY <2>3, <3>1
    <3>4. /\ k \in Nat /\ k + l <= Len(w) /\ Len(w) - Unwritten(r) = k + l
          /\ \A i \in 1..l : i \in DOMAIN t.batch /\ t.batch[i].ev = w[k + i].ev
          /\ Holds(r, w, p, m + l)
      BY <2>8, <3>2, <3>3, HoldsRest
    <3> QED
      BY <3>1, <3>4
  <2>12. \A i \in 1..l : b[i].ev = w[k + i].ev
    BY <2>3, <2>11
  <2>13. \A i \in DOMAIN w : w[i].ev.by = p /\ w[i].ev.n = i
    BY <2>9 DEF Holds
  <2>14. \A i \in 1..l : journal'[m + i - 1] = w[k + i].ev
    BY <2>4, <2>12
  <2>15. Wrote(w, p, k + l)'
    BY <2>2, <2>4, <2>8, <2>9, <2>11, <2>13, <2>14, WroteMore DEF JournalInv, Placement
  <2>17. Placed(st[p], wire[p], p, m + l)'
    <3>1. Len(w) - Unwritten(r) = k + l
      BY <2>11
    <3>2. Wrote(w, p, Len(w) - Unwritten(r))'
      BY <2>15, <3>1
    <3>3. st'[p] = r /\ wire'[p] = w
      BY <1>1, <2>6
    <3> QED
      <4>1. Holds(r, w, p, m + l)'
        BY <2>11 DEF Holds
      <4>2. Placed(r, w, p, m + l)'
        BY <3>2, <4>1 DEF Placed
      <4> QED
        BY <3>3, <4>2
  <2>18. ASSUME NEW q \in Streams, q # p, st'[q].pc # "dead"
         PROVE  Placed(st[q], wire[q], q, m + l)'
    <3>1. Holds(st[q], wire[q], q, m) /\ Wrote(wire[q], q, Len(wire[q]) - Unwritten(st[q]))
      BY <1>1, <2>2, <2>18 DEF Placement, Placed
    <3>2. \A s \in DOMAIN journal' : s \in DOMAIN journal \/ journal'[s].by # q
      <4> SUFFICES ASSUME NEW s \in DOMAIN journal', s \notin DOMAIN journal
                   PROVE  journal'[s].by # q
        OBVIOUS
      <4>1. s - m + 1 \in 1..l /\ m + (s - m + 1) - 1 = s /\ k + (s - m + 1) \in DOMAIN w
        <5>1. s \in 0..(m + l - 1) /\ s \notin 0..(m - 1)
          BY <2>2, <2>4 DEF Placement
        <5>2. k \in Nat /\ k + l <= Len(w) /\ Len(w) \in Nat
          BY <2>8, <2>11
        <5> QED
          BY <2>8, <5>1, <5>2
      <4>2. journal'[s] = w[k + (s - m + 1)].ev
        BY <2>14, <4>1
      <4> QED
        BY <2>13, <2>18, <4>1, <4>2
    <3>3. Wrote(wire[q], q, Len(wire[q]) - Unwritten(st[q]))'
      <4>1. PICK v, x : v = wire[q] /\ x = Len(wire[q]) - Unwritten(st[q])
        OBVIOUS
      <4>2. Wrote(v, q, x)'
        BY <2>2, <3>1, <3>2, <4>1, WroteOther DEF Placement
      <4>3. st'[q] = st[q] /\ wire'[q] = v
        BY <1>1, <2>18, <4>1
      <4> QED
        BY <4>1, <4>2, <4>3
    <3>4. Holds(st[q], wire[q], q, m + l)
      BY <2>5, <3>1, HoldsMore
    <3>5. st'[q] = st[q] /\ wire'[q] = wire[q]
      BY <1>1, <2>18
    <3> QED
      BY <3>3, <3>4, <3>5 DEF Placed
  <2>19. m + l \in Nat /\ DOMAIN journal' = 0..((m + l) - 1)
    BY <2>4
  <2>20. Placement(m + l)'
    BY <2>17, <2>18, <2>19 DEF Placement
  <2> QED
    BY <2>19, <2>20
<1> QED
  BY <1>2, <1>3 DEF OrderInv

\* An event is emitted.
LEMMA EmitOrder ==
  ASSUME JournalInv, OrderInv, NEW p \in Streams, NEW kind \in Kinds,
         NEW next \in Places \ {"none", "done", "dead"}, Emit(p, kind, next),
         st[p].pc # "dead"
  PROVE  OrderInv'
<1> DEFINE f == [seq |-> st[p].seq + 1,
                 ev  |-> [by |-> p, n |-> Len(wire[p]) + 1, kind |-> kind]]
<1>1. st[p] \in StreamType /\ wire[p] \in Seq(Frames) /\ st[p].io = "idle"
  BY DEF JournalInv, StreamsOK, RestOK, Emit, Ready
<1>2. PICK g, b, w : /\ g = f /\ w = Append(wire[p], f)
                     /\ b = IF st[p].missing THEN <<>> ELSE Append(st[p].buf, f)
  OBVIOUS
<1>3. /\ g.seq = st[p].seq + 1 /\ g.ev.by = p /\ g.ev.n = Len(wire[p]) + 1
      /\ g.seq \in Int
  BY <1>1, <1>2 DEF StreamType
<1>4. /\ wire' = [wire EXCEPT ![p] = w] /\ UNCHANGED <<journal, row>>
      /\ \/ st' = [st EXCEPT ![p].pc = next, ![p].seq = g.seq, ![p].buf = b]
         \/ b # <<>> /\ st' = [st EXCEPT ![p].pc = next, ![p].seq = g.seq, ![p].buf = <<>>,
                                         ![p].batch = b, ![p].io = "bulk"]
  BY <1>2 DEF Emit
<1>5. PICK r : /\ st' = [st EXCEPT ![p] = r]
               /\ r.pc = next /\ r.seq = g.seq /\ r.missing = st[p].missing
               /\ r.dropped = st[p].dropped
               /\ \/ r.buf = b /\ r.batch = st[p].batch /\ r.io = "idle"
                  \/ r.buf = <<>> /\ r.batch = b /\ r.io = "bulk"
  <2>1. CASE st' = [st EXCEPT ![p].pc = next, ![p].seq = g.seq, ![p].buf = b]
    <3>1. PICK r : r = [st[p] EXCEPT !.pc = next, !.seq = g.seq, !.buf = b]
      OBVIOUS
    <3>2. /\ r.pc = next /\ r.seq = g.seq /\ r.missing = st[p].missing
          /\ r.dropped = st[p].dropped
          /\ r.buf = b /\ r.batch = st[p].batch /\ r.io = "idle"
      BY <1>1, <3>1 DEF StreamType
    <3>3. st' = [st EXCEPT ![p] = r]
      BY <2>1, <3>1 DEF JournalInv, StreamsOK
    <3> QED
      BY <3>2, <3>3
  <2>2. CASE st' = [st EXCEPT ![p].pc = next, ![p].seq = g.seq, ![p].buf = <<>>,
                              ![p].batch = b, ![p].io = "bulk"]
    <3>1. PICK r : r = [st[p] EXCEPT !.pc = next, !.seq = g.seq, !.buf = <<>>,
                                     !.batch = b, !.io = "bulk"]
      OBVIOUS
    <3>2. /\ r.pc = next /\ r.seq = g.seq /\ r.missing = st[p].missing
          /\ r.dropped = st[p].dropped
          /\ r.buf = <<>> /\ r.batch = b /\ r.io = "bulk"
      BY <1>1, <3>1 DEF StreamType
    <3>3. st' = [st EXCEPT ![p] = r]
      BY <2>2, <3>1 DEF JournalInv, StreamsOK
    <3> QED
      BY <3>2, <3>3
  <2> QED
    BY <1>4, <2>1, <2>2
<1>6. ASSUME NEW m \in Nat, Placed(st[p], wire[p], p, m) PROVE Placed(r, w, p, m)
  <2>1. PICK v, bf, s, u, k : /\ v = wire[p] /\ bf = st[p].buf /\ s = st[p].seq
                              /\ u = Len(bf) /\ k = Len(v) - Len(bf)
    OBVIOUS
  <2>2. /\ v \in Seq(Frames) /\ bf \in Seq(Frames) /\ s \in Int /\ u \in Nat
        /\ Len(v) \in Nat /\ k \in Int /\ k + u = Len(v)
    BY <1>1, <2>1 DEF StreamType
  <2>3. st[p].batch = <<>> /\ ~st[p].missing
    BY <1>1, <1>6 DEF Placed, Holds
  <2>4. Unwritten(st[p]) = u
    BY <2>1, <2>2, <2>3 DEF Unwritten
  <2>5. /\ \A i \in DOMAIN v : v[i].ev.by = p /\ v[i].ev.n = i
        /\ 0 <= k /\ s + 1 - u <= m
        /\ \A i \in DOMAIN bf : bf[i].ev = v[k + Len(<<>>) + i].ev
                                /\ bf[i].seq = s + 1 - u + Len(<<>>) + i - 1
        /\ Wrote(v, p, k)
    <3>1. PICK t : t = st[p]
      OBVIOUS
    <3>2. /\ Holds(t, v, p, m) /\ Wrote(v, p, Len(v) - Unwritten(t)) /\ Unwritten(t) = u
          /\ t.buf = bf /\ t.batch = <<>> /\ t.seq = s /\ Len(v) - u = k
      BY <1>6, <2>1, <2>3, <2>4, <3>1 DEF Placed
    <3> QED
      BY <3>2 DEF Holds
  <2>11. 0 <= k /\ k \in Nat /\ u \in Nat /\ s \in Int /\ Len(v) \in Nat /\ k + u = Len(v)
    BY <2>2, <2>5
  <2>6. \A i \in DOMAIN bf : bf[i].ev = v[k + i].ev /\ bf[i].seq = s + i - u
    <3>1. \A i \in DOMAIN bf : k + Len(<<>>) + i = k + i
                               /\ s + 1 - u + Len(<<>>) + i - 1 = s + i - u
      BY <2>2
    <3> QED
      BY <2>5, <3>1
  <2>7. /\ w = Append(v, g) /\ b = Append(bf, g) /\ g.seq = s + 1 /\ g.ev.by = p
        /\ g.ev.n = Len(v) + 1
    BY <1>2, <1>3, <2>1, <2>3
  <2>8. /\ Len(w) = Len(v) + 1 /\ Len(b) = u + 1 /\ DOMAIN w = 1..(Len(v) + 1)
        /\ DOMAIN b = 1..(u + 1) /\ w[Len(v) + 1] = g /\ b[u + 1] = g
        /\ \A i \in 1..Len(v) : w[i] = v[i]
        /\ \A i \in 1..u : b[i] = bf[i]
    BY <2>1, <2>2, <2>7
  <2>9. \A i \in DOMAIN w : w[i].ev.by = p /\ w[i].ev.n = i
    <3>1. \A i \in DOMAIN w : i \in 1..Len(v) \/ i = Len(v) + 1
      BY <2>2, <2>8
    <3> QED
      BY <2>2, <2>5, <2>7, <2>8, <3>1
  <2>10. \A i \in DOMAIN b : b[i].ev = w[k + i].ev /\ b[i].seq = s + i - u
    <3> SUFFICES ASSUME NEW i \in DOMAIN b
                 PROVE  b[i].ev = w[k + i].ev /\ b[i].seq = s + i - u
      OBVIOUS
    <3>1. CASE i \in 1..u
      <4>1. k + i \in 1..Len(v)
        BY <2>11, <3>1
      <4>2. i \in DOMAIN bf
        BY <2>1, <2>2, <3>1
      <4> QED
        BY <2>6, <2>8, <3>1, <4>1, <4>2
    <3>2. CASE i = u + 1
      <4>1. k + i = Len(v) + 1 /\ s + i - u = s + 1
        BY <2>11, <3>2
      <4> QED
        BY <2>7, <2>8, <3>2, <4>1
    <3> QED
      BY <2>2, <2>8, <3>1, <3>2
  <2>12. Len(<<>>) = 0
    OBVIOUS
  <2>13. Unwritten(r) = u + 1
    <3>1. \/ r.batch = <<>> /\ r.buf = b
          \/ r.batch = b /\ r.buf = <<>>
      BY <1>5, <2>3
    <3>2. Len(b) = u + 1 /\ u \in Nat
      BY <2>8, <2>11
    <3>3. CASE r.batch = <<>> /\ r.buf = b
      <4>1. Unwritten(r) = 0 + (u + 1)
        BY <2>12, <3>2, <3>3 DEF Unwritten
      <4> QED
        BY <3>2, <4>1
    <3>4. CASE r.batch = b /\ r.buf = <<>>
      <4>1. Unwritten(r) = (u + 1) + 0
        BY <2>12, <3>2, <3>4 DEF Unwritten
      <4> QED
        BY <3>2, <4>1
    <3> QED
      BY <3>1, <3>3, <3>4
  <2>14. Len(w) - (u + 1) = k /\ g.seq + 1 - (u + 1) = s + 1 - u
    <3>1. Len(w) = Len(v) + 1 /\ g.seq = s + 1
      BY <2>7, <2>8
    <3> QED
      BY <2>11, <3>1
  <2>15. Wrote(w, p, k)
    <3>1. \A i \in 1..k : w[i] = v[i]
      BY <2>1, <2>2, <2>8
    <3> QED
      BY <2>5, <3>1 DEF Wrote
  <2>16. \A i \in DOMAIN b : /\ k + 0 + i = k + i /\ s + 1 - u + 0 + i - 1 = s + i - u
                             /\ s + 1 - u + i - 1 = s + i - u
    BY <2>2, <2>8
  <2>17. Holds(r, w, p, m)
    <3>1. /\ ~r.missing /\ (r.io = "idle" => r.batch = <<>>) /\ r.pc # "done" /\ r.io # "retry"
      BY <1>5, <2>3
    <3>2. \A i \in DOMAIN r.batch : r.batch[i].ev = w[k + i].ev
                                    /\ r.batch[i].seq = s + 1 - u + i - 1
      BY <1>5, <2>3, <2>10, <2>16
    <3>3. \A i \in DOMAIN r.buf : /\ r.buf[i].ev = w[k + Len(r.batch) + i].ev
                                  /\ r.buf[i].seq = s + 1 - u + Len(r.batch) + i - 1
      BY <1>5, <2>3, <2>10, <2>12, <2>16
    <3>4. Len(w) - Unwritten(r) = k /\ r.seq + 1 - Unwritten(r) = s + 1 - u
      BY <1>5, <2>13, <2>14
    <3> QED
      BY <2>5, <2>9, <3>1, <3>2, <3>3, <3>4 DEF Holds
  <2> QED
    BY <2>13, <2>14, <2>15, <2>17 DEF Placed
<1> QED
  BY <1>4, <1>5, <1>6, OrderStays

\* `r` holds what `t` holds: it is placed as before.
SameHeld(t, r, m) ==
  /\ r.seq = t.seq /\ r.buf = t.buf /\ r.batch = t.batch /\ r.missing = t.missing
  /\ \/ r.io = t.io /\ r.retry = t.retry
     \/ r.io = "rows"
     \/ r.io = "retry" /\ r.retry <= m
  /\ r.pc = t.pc \/ r.pc # "done"

LEMMA SamePlace ==
  ASSUME NEW t, NEW r, NEW w, NEW p, NEW m, Placed(t, w, p, m), SameHeld(t, r, m)
  PROVE  Placed(r, w, p, m)
<1>1. Unwritten(r) = Unwritten(t)
  BY DEF Unwritten, SameHeld
<1> QED
  BY <1>1 DEF Placed, Holds, SameHeld

\* The number after the latest is not beyond the rows of the journal.
LEMMA LatestPlace ==
  ASSUME JournalOK, NEW m \in Nat, DOMAIN journal = 0..(m - 1)
  PROVE  Latest + 1 <= m /\ 0 <= m
<1>1. Latest \in Nat \cup {-1} /\ (Rows # {} => Latest \in Rows)
  BY LatestIsRow
<1>2. Rows \subseteq 0..(m - 1)
  BY DEF Rows
<1>3. CASE Rows = {}
  <2>1. PICK n : n = Latest
    OBVIOUS
  <2>2. n = -1
    BY <1>3, <2>1 DEF Latest
  <2> QED
    BY <2>1, <2>2
<1>4. CASE Rows # {}
  <2>1. PICK n : n = Latest
    OBVIOUS
  <2>2. n \in 0..(m - 1)
    BY <1>1, <1>2, <1>4, <2>1
  <2> QED
    BY <2>1, <2>2
<1> QED
  BY <1>3, <1>4

\* A step of `p` that leaves what its writer holds.
LEMMA SamePlaceStays ==
  ASSUME JournalInv, OrderInv, NEW p \in Streams, NEW r,
         st' = [st EXCEPT ![p] = r], UNCHANGED <<wire, journal>>,
         row = "gone" => row' = "gone", r.dropped = st[p].dropped,
         r.pc = st[p].pc \/ r.pc \notin {"none", "dead", "done"},
         st[p].pc \notin {"none", "dead"},
         r.seq = st[p].seq, r.buf = st[p].buf, r.batch = st[p].batch,
         r.missing = st[p].missing,
         \/ r.io = st[p].io /\ r.retry = st[p].retry
         \/ r.io = "rows"
         \/ r.io = "retry" /\ r.retry = Latest + 1
  PROVE  OrderInv'
<1>1. PICK w : w = wire[p]
  OBVIOUS
<1>2. wire' = [wire EXCEPT ![p] = w]
  BY <1>1 DEF JournalInv, RestOK
<1>3. ASSUME NEW m \in Nat, DOMAIN journal = 0..(m - 1), Placed(st[p], wire[p], p, m)
      PROVE  Placed(r, w, p, m)
  <2>1. PICK t : t = st[p]
    OBVIOUS
  <2>2. Latest + 1 <= m
    BY <1>3, LatestPlace DEF JournalInv
  <2>3. Placed(t, w, p, m)
    BY <1>1, <1>3, <2>1
  <2>4. SameHeld(t, r, m)
    BY <2>1, <2>2 DEF SameHeld
  <2> QED
    BY <2>3, <2>4, SamePlace
<1>4. r.pc # "none" /\ st[p].pc # "dead" /\ (st[p].dropped => r.dropped)
  OBVIOUS
<1> QED
  BY <1>2, <1>3, <1>4, OrderStays

\* The generator moves on without emitting.
LEMMA MovedOrder ==
  ASSUME JournalInv, OrderInv, NEW p \in Streams, UNCHANGED <<wire, journal>>,
         row = "gone" => row' = "gone", st[p].pc \notin {"none", "dead"},
         NEW x \in Places \ {"none", "dead", "done"}, st' = [st EXCEPT ![p].pc = x]
  PROVE  OrderInv'
<1>1. PICK r : r = [st[p] EXCEPT !.pc = x]
  OBVIOUS
<1>2. st[p] \in StreamType
  BY DEF JournalInv, StreamsOK
<1>3. /\ r.pc = x /\ r.seq = st[p].seq /\ r.buf = st[p].buf /\ r.batch = st[p].batch
      /\ r.missing = st[p].missing /\ r.io = st[p].io /\ r.retry = st[p].retry
      /\ r.dropped = st[p].dropped
  BY <1>1, <1>2 DEF StreamType
<1>4. st' = [st EXCEPT ![p] = r]
  BY <1>1 DEF JournalInv, StreamsOK
<1> QED
  BY <1>3, <1>4, SamePlaceStays

\* The final flush takes what was buffered.
LEMMA CloseOrder ==
  ASSUME JournalInv, OrderInv, NEW p \in Streams, Close(p) PROVE OrderInv'
<1>1. PICK r : r = [st[p] EXCEPT !.pc = "done", !.buf = <<>>, !.batch = st[p].buf,
                      !.io = IF st[p].buf = <<>> THEN "idle" ELSE "bulk"]
  OBVIOUS
<1>2. PICK t, w : t = st[p] /\ w = wire[p]
  OBVIOUS
<1>3. t \in StreamType /\ t.buf \in Seq(Frames) /\ w \in Seq(Frames) /\ t.io = "idle"
      /\ t.pc = "close"
  BY <1>2 DEF JournalInv, StreamsOK, RestOK, StreamType, Close, Ready
<1>4. /\ r.pc = "done" /\ r.buf = <<>> /\ r.batch = t.buf /\ r.seq = t.seq
      /\ r.missing = t.missing /\ r.dropped = t.dropped
      /\ (r.io = "idle" => t.buf = <<>>) /\ r.io # "retry"
  BY <1>1, <1>2, <1>3 DEF StreamType
<1>5. st' = [st EXCEPT ![p] = r] /\ wire' = [wire EXCEPT ![p] = w] /\ UNCHANGED <<journal, row>>
  BY <1>1, <1>2 DEF JournalInv, StreamsOK, RestOK, Close
<1>6. ASSUME NEW m \in Nat, Placed(t, w, p, m) PROVE Placed(r, w, p, m)
  <2>1. t.batch = <<>> /\ Len(<<>>) = 0
    BY <1>3, <1>6 DEF Placed, Holds
  <2>2. PICK u : u = Unwritten(t)
    OBVIOUS
  <2>3. Len(t.buf) \in Nat
    BY <1>3
  <2>4. u = Len(t.buf) /\ Unwritten(r) = Len(t.buf)
    <3>1. Unwritten(t) = 0 + Len(t.buf) /\ Unwritten(r) = Len(t.buf) + 0
      BY <1>4, <2>1 DEF Unwritten
    <3> QED
      BY <2>2, <2>3, <3>1
  <2>5. \A i \in DOMAIN t.buf : /\ t.buf[i].ev = w[Len(w) - u + Len(<<>>) + i].ev
                                /\ t.buf[i].seq = t.seq + 1 - u + Len(<<>>) + i - 1
    BY <1>6, <2>1, <2>2 DEF Placed, Holds
  <2>6. \A i \in DOMAIN t.buf : /\ Len(w) - u + Len(<<>>) + i = Len(w) - u + i
                                /\ t.seq + 1 - u + Len(<<>>) + i - 1 = t.seq + 1 - u + i - 1
    <3>1. Len(w) \in Nat /\ u \in Nat /\ t.seq \in Int /\ \A i \in DOMAIN t.buf : i \in Nat
      BY <1>3, <2>3, <2>4 DEF StreamType
    <3> QED
      BY <2>1, <3>1
  <2>7. \A i \in DOMAIN r.batch : /\ r.batch[i].ev = w[Len(w) - u + i].ev
                                  /\ r.batch[i].seq = r.seq + 1 - u + i - 1
    BY <1>4, <2>5, <2>6
  <2>8. Unwritten(r) = u /\ Unwritten(t) = u
    BY <2>2, <2>4
  <2>9. /\ ~r.missing /\ 0 <= Len(w) - u /\ r.seq + 1 - u <= m
        /\ \A i \in DOMAIN w : w[i].ev.by = p /\ w[i].ev.n = i
        /\ Wrote(w, p, Len(w) - u)
    BY <1>4, <1>6, <2>8 DEF Placed, Holds
  <2>10. DOMAIN r.buf = {}
    BY <1>4
  <2> QED
    BY <1>4, <2>7, <2>8, <2>9, <2>10 DEF Placed, Holds
<1> QED
  BY <1>2, <1>3, <1>4, <1>5, <1>6, OrderStays
\* A writer with a batch has started and is not dead.
LEMMA Flushing ==
  ASSUME JournalInv, EndInv, OrderInv, NEW p \in Streams, ~Ready(p)
  PROVE  /\ st[p].pc \notin {"none", "dead"} /\ st[p] \in StreamType
         /\ st[p].batch \in Seq(Frames) /\ Increasing(st[p].batch)
         /\ st[p].io # "idle" => st[p].batch # <<>>
<1>1. st[p].pc # "none"
  BY DEF OrderInv, Unstarted, NewStream, Ready
<1> QED
  BY <1>1 DEF EndInv, JournalInv, StreamsOK, StreamOK, StreamType

\* The head of the batch is written after the last row, as `f`.
LEMMA RowOrder ==
  ASSUME JournalInv, EndInv, OrderInv, NEW p \in Streams, st[p].io # "idle",
         NEW f \in Frames, f.ev = Head(st[p].batch).ev, Vacant(f.seq),
         st[p].io = "retry" => f.seq = st[p].retry,
         st[p].io # "retry" => f.seq = Head(st[p].batch).seq,
         journal' = With(<<f>>), st' = NextRow(p, <<f>>), UNCHANGED <<wire, row>>
  PROVE  OrderInv'
<1>1. PICK t, b : t = st[p] /\ b = t.batch
  OBVIOUS
<1>2. t \in StreamType /\ b \in Seq(Frames) /\ b # <<>> /\ t.pc \notin {"none", "dead"}
  BY <1>1, Flushing DEF Ready
<1>3. PICK r : r = [t EXCEPT !.io = IF Len(b) = 1 THEN "idle" ELSE "rows",
                             !.batch = Tail(b), !.frames = <<f>>, !.retry = 0,
                             !.dropped = t.dropped \/ <<f>> = <<>>]
  OBVIOUS
<1>4. st' = [st EXCEPT ![p] = r]
  BY <1>1, <1>3 DEF JournalInv, StreamsOK, NextRow
<1>5. PICK c : c = <<f>>
  OBVIOUS
<1>6. c \in Seq(Frames) /\ c # <<>> /\ Len(c) = 1 /\ c[1] = f /\ Increasing(c)
  BY <1>5 DEF Increasing
<1>7. Tail(b) \in Seq(Frames) /\ Len(Tail(b)) = Len(b) - 1 /\ Head(b) = b[1]
      /\ \A i \in DOMAIN Tail(b) : Tail(b)[i] = b[1 + i]
  <2>1. \A i \in DOMAIN Tail(b) : i \in Nat /\ Tail(b)[i] = b[i + 1] /\ i + 1 = 1 + i
    BY <1>2
  <2> QED
    BY <1>2, <2>1
<1>8. r \in StreamType
  <2>1. r = [t EXCEPT !.io = IF Len(b) = 1 THEN "idle" ELSE "rows",
                      !.batch = Tail(b), !.frames = c, !.retry = 0,
                      !.dropped = t.dropped \/ c = <<>>]
    BY <1>3, <1>5
  <2> QED
    BY <1>2, <1>6, <1>7, <2>1 DEF StreamType
<1>9. TakenOff(t, r, 1)
  <2>1. /\ r.missing = t.missing /\ r.seq = t.seq /\ r.buf = t.buf /\ r.pc = t.pc
        /\ r.batch = Tail(b) /\ r.io = IF Len(b) = 1 THEN "idle" ELSE "rows"
    BY <1>2, <1>3 DEF StreamType
  <2>2. r.dropped = t.dropped
    <3>1. r.dropped = (t.dropped \/ c = <<>>)
      BY <1>2, <1>3, <1>5 DEF StreamType
    <3> QED
      BY <1>2, <1>6, <3>1 DEF StreamType
  <2>3. r.io = "idle" => r.batch = <<>>
    BY <1>2, <1>7, <2>1
  <2> QED
    BY <1>1, <1>7, <2>1, <2>2, <2>3 DEF TakenOff
<1>10. Kept
  <2>1. \A i \in DOMAIN c : Vacant(c[i].seq)
    BY <1>6
  <2> QED
    BY <1>5, <1>6, <2>1, WithCommits DEF JournalInv
<1>11. ASSUME NEW m \in Nat, Whole, Placement(m)
       PROVE  DOMAIN journal' = 0..(m + 1 - 1) /\ journal'[m + 1 - 1] = f.ev
  <2>1. DOMAIN journal = 0..(m - 1) /\ Holds(t, wire[p], p, m)
    BY <1>1, <1>2, <1>11 DEF Placement, Placed
  <2>2. f.seq <= m
    <3>1. CASE t.io = "retry"
      BY <1>1, <2>1, <3>1 DEF Holds
    <3>2. CASE t.io # "retry"
      <4>1. PICK s : s = t.seq + 1 - Unwritten(t)
        OBVIOUS
      <4>2. 1 \in DOMAIN b /\ f.seq = b[1].seq
        BY <1>1, <1>2, <1>7, <3>2
      <4>3. f.seq = s + 1 - 1 /\ s <= m
        BY <1>1, <2>1, <4>1, <4>2 DEF Holds
      <4>4. s \in Int
        <5>1. t.seq \in Int /\ Unwritten(t) \in Int
          BY <1>2 DEF StreamType, Unwritten
        <5> QED
          BY <4>1, <5>1
      <4> QED
        BY <4>3, <4>4
    <3> QED
      BY <3>1, <3>2
  <2>3. f.seq = m /\ row # "gone"
    <3>1. f.seq \in Nat /\ f.seq \notin 0..(m - 1)
      BY <2>1 DEF Frames, Vacant
    <3> QED
      BY <2>2, <3>1 DEF Vacant
  <2>4. \A i \in DOMAIN c : c[i].seq = m + i - 1
    <3>1. \A i \in DOMAIN c : i = 1
      BY <1>6
    <3> QED
      BY <1>6, <2>3, <3>1
  <2>5. DOMAIN journal' = 0..(m + Len(c) - 1)
        /\ \A i \in 1..Len(c) : journal'[m + i - 1] = c[i].ev
    BY <1>5, <1>6, <2>1, <2>3, <2>4, WithExtends DEF JournalInv
  <2> QED
    BY <1>6, <2>5
<1>12. \A i \in 1..Len(c) : c[i].ev = t.batch[i].ev
  <2>1. \A i \in 1..Len(c) : i = 1
    BY <1>6
  <2> QED
    BY <1>1, <1>6, <1>7, <2>1
<1>13. \A m \in Nat : Whole /\ Placement(m) =>
         /\ DOMAIN journal' = 0..(m + Len(c) - 1)
         /\ \A i \in 1..Len(c) : journal'[m + i - 1] = c[i].ev
  <2>1. \A i \in 1..Len(c) : i = 1
    BY <1>6
  <2> QED
    BY <1>6, <1>11, <2>1
<1>14. TakenOff(st[p], r, Len(c)) /\ \A i \in 1..Len(c) : c[i].ev = st[p].batch[i].ev
  BY <1>1, <1>6, <1>9, <1>12
<1> QED
  BY <1>1, <1>2, <1>4, <1>6, <1>8, <1>10, <1>13, <1>14, OrderGrows

LEMMA BulkOrder ==
  ASSUME JournalInv, EndInv, OrderInv, NEW p \in Streams, BulkInsert(p) PROVE OrderInv'
<1>1. PICK t, b : t = st[p] /\ b = t.batch
  OBVIOUS
<1>2. t \in StreamType /\ b \in Seq(Frames) /\ b # <<>> /\ t.pc \notin {"none", "dead"}
      /\ Increasing(b)
  BY <1>1, Flushing DEF Ready, BulkInsert
<1>3. PICK r : r = [t EXCEPT !.io = "idle", !.batch = <<>>, !.frames = b]
  OBVIOUS
<1>4. st' = [st EXCEPT ![p] = r] /\ journal' = With(b) /\ UNCHANGED <<wire, row>>
      /\ \A i \in DOMAIN b : Vacant(b[i].seq)
  BY <1>1, <1>3 DEF JournalInv, StreamsOK, BulkInsert
<1>5. /\ r.missing = t.missing /\ r.seq = t.seq /\ r.buf = t.buf /\ r.pc = t.pc
      /\ r.batch = <<>> /\ r.io = "idle" /\ r.dropped = t.dropped
  BY <1>2, <1>3 DEF StreamType
<1>6. r \in StreamType
  <2>1. <<>> \in Seq(Frames)
    OBVIOUS
  <2> QED
    BY <1>2, <1>3, <2>1 DEF StreamType
<1>7. TakenOff(t, r, Len(b))
  <2>1. Len(<<>>) = Len(b) - Len(b) /\ DOMAIN r.batch = {}
    BY <1>2, <1>5
  <2> QED
    BY <1>1, <1>5, <2>1 DEF TakenOff
<1>8. Kept
  BY <1>2, <1>4, WithCommits DEF JournalInv
<1>9. ASSUME NEW m \in Nat, Whole, Placement(m)
      PROVE  /\ DOMAIN journal' = 0..(m + Len(b) - 1)
             /\ \A i \in 1..Len(b) : journal'[m + i - 1] = b[i].ev
  <2>1. DOMAIN journal = 0..(m - 1) /\ Holds(t, wire[p], p, m)
    BY <1>1, <1>2, <1>9 DEF Placement, Placed
  <2>2. PICK s : s = t.seq + 1 - Unwritten(t)
    OBVIOUS
  <2>3. s <= m /\ \A i \in DOMAIN b : b[i].seq = s + i - 1
    BY <1>1, <2>1, <2>2 DEF Holds
  <2>4. s \in Int
    <3>1. t.seq \in Int /\ Unwritten(t) \in Int
      BY <1>2 DEF StreamType, Unwritten
    <3> QED
      BY <2>2, <3>1
  <2>5. 1 \in DOMAIN b /\ b[1] \in Frames
    BY <1>2
  <2>6. s = m /\ row # "gone"
    <3>1. s = b[1].seq /\ b[1].seq \in Nat /\ b[1].seq \notin 0..(m - 1)
      BY <1>4, <2>1, <2>3, <2>4, <2>5 DEF Frames, Vacant
    <3> QED
      BY <1>4, <2>3, <2>5, <3>1 DEF Vacant
  <2> QED
    BY <1>2, <1>4, <2>1, <2>3, <2>6, WithExtends DEF JournalInv
<1>10. TakenOff(st[p], r, Len(b)) /\ \A i \in 1..Len(b) : b[i].ev = st[p].batch[i].ev
  BY <1>1, <1>7
<1> QED
  BY <1>1, <1>2, <1>4, <1>6, <1>8, <1>9, <1>10, OrderGrows

\* The continuation is numbered on from rows that are there, or from zero.
LEMMA ContinueOrder ==
  ASSUME JournalInv, OrderInv, NEW seed \in {-1, Latest}, Continue(seed) PROVE OrderInv'
<1>1. PICK r, w, t : r = NewStream("run", seed) /\ w = wire[1] /\ t = st[1]
  OBVIOUS
<1>2. 1 \in Streams
  BY DEF Streams
<1>3. t = NewStream("none", -1) /\ w = <<>>
  BY <1>1, <1>2 DEF OrderInv, Unstarted, Continue
<1>4. /\ st' = [st EXCEPT ![1] = r] /\ wire' = [wire EXCEPT ![1] = w]
      /\ UNCHANGED <<journal, row>>
  BY <1>1, <1>2 DEF JournalInv, RestOK, Continue
<1>5. /\ r.pc = "run" /\ r.seq = seed /\ r.buf = <<>> /\ r.batch = <<>> /\ ~r.missing
      /\ r.io = "idle" /\ ~r.dropped
  BY <1>1 DEF NewStream
<1>6. t.pc = "none" /\ ~t.dropped /\ t.buf = <<>> /\ t.batch = <<>>
  BY <1>3 DEF NewStream
<1>7. Unwritten(r) = 0 /\ Unwritten(t) = 0
  BY <1>5, <1>6 DEF Unwritten
<1>8. ASSUME NEW m \in Nat, DOMAIN journal = 0..(m - 1), Placed(t, w, 1, m)
      PROVE  Placed(r, w, 1, m)
  <2>1. Latest + 1 <= m /\ 0 <= m
    BY <1>8, LatestPlace DEF JournalInv
  <2>2. seed + 1 - 0 <= m
    <3>1. CASE seed = -1
      BY <2>1, <3>1
    <3>2. CASE seed = Latest
      <4>1. seed \in Int
        BY <3>2, LatestIsRow DEF JournalInv
      <4> QED
        BY <2>1, <3>2, <4>1
    <3> QED
      BY <3>1, <3>2
  <2>3. Wrote(w, 1, Len(w) - 0) /\ 0 <= Len(w) - 0
    BY <1>3, <1>7, <1>8 DEF Placed, Holds
  <2>4. DOMAIN r.buf = {} /\ DOMAIN r.batch = {} /\ DOMAIN w = {}
    BY <1>3, <1>5
  <2>5. Holds(r, w, 1, m)
    BY <1>5, <1>7, <2>2, <2>3, <2>4 DEF Holds
  <2> QED
    BY <1>7, <2>3, <2>5 DEF Placed
<1> QED
  BY <1>1, <1>2, <1>4, <1>5, <1>6, <1>8, OrderStays

LEMMA FlushOrder ==
  ASSUME JournalInv, EndInv, OrderInv, NEW p \in Streams, Flush(p) \/ PublishLost(p)
         \/ BulkFails(p) \/ RowFails(p) \/ Crash(p)
  PROVE  OrderInv'
<1>1. PICK t : t = st[p]
  OBVIOUS
<1>2. t \in StreamType
  BY <1>1 DEF JournalInv, StreamsOK
<1>3. ASSUME NEW out, st' = NextRow(p, out)
      PROVE  \E r : /\ st' = [st EXCEPT ![p] = r] /\ r.pc = t.pc
                    /\ r.dropped = (t.dropped \/ out = <<>>)
  <2>1. PICK r : r = [t EXCEPT !.io = IF Len(t.batch) = 1 THEN "idle" ELSE "rows",
                               !.batch = Tail(t.batch), !.frames = out, !.retry = 0,
                               !.dropped = t.dropped \/ out = <<>>]
    OBVIOUS
  <2>2. st' = [st EXCEPT ![p] = r]
    BY <1>1, <1>3, <2>1 DEF JournalInv, StreamsOK, NextRow
  <2>3. r.pc = t.pc
    BY <1>2, <2>1 DEF StreamType
  <2>4. r.dropped = (t.dropped \/ out = <<>>)
    BY <1>2, <2>1 DEF StreamType
  <2> QED
    BY <2>2, <2>3, <2>4
<1>4. PICK w : w = wire[p]
  OBVIOUS
<1>5. UNCHANGED wire => wire' = [wire EXCEPT ![p] = w]
  BY <1>4 DEF JournalInv, RestOK
<1>6. ASSUME st' = NextRow(p, <<>>), UNCHANGED <<wire, journal, row>>, t.io # "idle"
      PROVE  OrderInv'
  <2>1. PICK r : st' = [st EXCEPT ![p] = r] /\ r.pc = t.pc /\ r.dropped = TRUE
    BY <1>3, <1>6
  <2>2. r.pc # "none"
    BY <1>1, <1>6, <2>1, Flushing DEF Ready
  <2> QED
    BY <1>5, <1>6, <2>1, <2>2, OrderStays
<1>7. CASE BulkInsert(p)
  BY <1>7, BulkOrder
<1>8. CASE BulkOrphaned(p)
  <2>1. PICK r : r = [t EXCEPT !.io = "idle", !.batch = <<>>, !.missing = TRUE]
    OBVIOUS
  <2>2. st' = [st EXCEPT ![p] = r] /\ row' = "gone" /\ UNCHANGED <<wire, journal>>
    BY <1>1, <1>8, <2>1 DEF JournalInv, StreamsOK, BulkOrphaned
  <2>3. r.pc = t.pc /\ r.dropped = t.dropped
    BY <1>2, <2>1 DEF StreamType
  <2>4. t.pc # "none"
    BY <1>1, <1>8, Flushing DEF BulkOrphaned, Ready
  <2>5. wire' = [wire EXCEPT ![p] = w] /\ UNCHANGED journal /\ r.pc # "none"
        /\ (st[p].dropped => r.dropped)
    BY <1>1, <1>5, <2>2, <2>3, <2>4
  <2> QED
    BY <2>2, <2>5, OrderStays
<1>9. CASE BulkCollides(p)
  <2>1. PICK r : r = [t EXCEPT !.io = "rows"]
    OBVIOUS
  <2>2. st' = [st EXCEPT ![p] = r] /\ UNCHANGED <<wire, journal, row>>
    BY <1>1, <1>9, <2>1 DEF JournalInv, StreamsOK, BulkCollides
  <2>3. /\ r.pc = t.pc /\ r.dropped = t.dropped /\ r.seq = t.seq /\ r.buf = t.buf
        /\ r.batch = t.batch /\ r.missing = t.missing /\ r.io = "rows"
    BY <1>2, <2>1 DEF StreamType
  <2>4. t.pc \notin {"none", "dead"}
    BY <1>1, <1>9, Flushing DEF BulkCollides, Ready
  <2> QED
    BY <1>1, <2>2, <2>3, <2>4, SamePlaceStays
<1>10. CASE InsertRow(p)
  <2>1. PICK f : f = Head(t.batch)
    OBVIOUS
  <2>2. t.io = "rows" /\ t.batch \in Seq(Frames) /\ t.batch # <<>>
    BY <1>1, <1>10, Flushing DEF InsertRow, Ready
  <2>3. f \in Frames
    BY <2>1, <2>2
  <2>4. Vacant(f.seq) /\ journal' = With(<<f>>) /\ st' = NextRow(p, <<f>>)
        /\ UNCHANGED <<wire, row>>
    BY <1>1, <1>10, <2>1 DEF InsertRow
  <2> QED
    BY <1>1, <2>1, <2>2, <2>3, <2>4, RowOrder
<1>11. CASE LookUpLatest(p)
  <2>1. PICK r : r = [t EXCEPT !.io = "retry", !.retry = Latest + 1]
    OBVIOUS
  <2>2. st' = [st EXCEPT ![p] = r] /\ UNCHANGED <<wire, journal, row>>
    BY <1>1, <1>11, <2>1 DEF JournalInv, StreamsOK, LookUpLatest
  <2>3. /\ r.pc = t.pc /\ r.dropped = t.dropped /\ r.seq = t.seq /\ r.buf = t.buf
        /\ r.batch = t.batch /\ r.missing = t.missing /\ r.io = "retry"
        /\ r.retry = Latest + 1
    BY <1>2, <2>1 DEF StreamType
  <2>4. t.pc \notin {"none", "dead"}
    BY <1>1, <1>11, Flushing DEF LookUpLatest, Ready
  <2> QED
    BY <1>1, <2>2, <2>3, <2>4, SamePlaceStays
<1>12. CASE RetryRow(p)
  <2>1. PICK f : f = [Head(t.batch) EXCEPT !.seq = t.retry]
    OBVIOUS
  <2>2. t.io = "retry" /\ t.batch \in Seq(Frames) /\ t.batch # <<>>
    BY <1>1, <1>12, Flushing DEF RetryRow, Ready
  <2>3. f \in Frames /\ f.ev = Head(t.batch).ev /\ f.seq = t.retry
    <3>1. Head(t.batch) \in Frames
      BY <2>2
    <3>2. t.retry \in Nat
      BY <1>2 DEF StreamType
    <3> QED
      BY <2>1, <3>1, <3>2 DEF Frames
  <2>4. CASE Vacant(f.seq)
    <3>1. journal' = With(<<f>>) /\ st' = NextRow(p, <<f>>) /\ UNCHANGED <<wire, row>>
      BY <1>1, <1>12, <2>1, <2>4 DEF RetryRow
    <3> QED
      BY <1>1, <2>2, <2>3, <2>4, <3>1, RowOrder
  <2>5. CASE ~Vacant(f.seq)
    <3>1. st' = NextRow(p, <<>>) /\ UNCHANGED <<wire, journal, row>>
      BY <1>1, <1>12, <2>1, <2>5 DEF RetryRow
    <3> QED
      BY <1>6, <2>2, <3>1
  <2> QED
    BY <2>4, <2>5
<1>13. CASE Publish(p) \/ PublishLost(p)
  <2>1. PICK r : r = [t EXCEPT !.frames = Tail(t.frames)]
    OBVIOUS
  <2>2. st' = [st EXCEPT ![p] = r] /\ UNCHANGED <<wire, journal, row>>
    BY <1>1, <1>13, <2>1 DEF JournalInv, StreamsOK, Publish, PublishLost
  <2>3. /\ r.pc = t.pc /\ r.dropped = t.dropped /\ r.seq = t.seq /\ r.buf = t.buf
        /\ r.batch = t.batch /\ r.missing = t.missing /\ r.io = t.io
        /\ r.retry = t.retry
    BY <1>2, <2>1 DEF StreamType
  <2>4. t.pc \notin {"none", "dead"}
    BY <1>1, <1>13, Flushing DEF Publish, PublishLost, Ready
  <2> QED
    BY <1>1, <2>2, <2>3, <2>4, SamePlaceStays
<1>14. CASE BulkFails(p)
  <2>1. PICK r : r = [t EXCEPT !.io = "idle", !.batch = <<>>, !.dropped = TRUE]
    OBVIOUS
  <2>2. st' = [st EXCEPT ![p] = r] /\ UNCHANGED <<wire, journal, row>>
    BY <1>1, <1>14, <2>1 DEF JournalInv, StreamsOK, BulkFails
  <2>3. r.pc = t.pc /\ r.dropped = TRUE
    BY <1>2, <2>1 DEF StreamType
  <2>4. t.pc # "none"
    BY <1>1, <1>14, Flushing DEF BulkFails, Ready
  <2> QED
    BY <1>1, <1>5, <2>2, <2>3, <2>4, OrderStays
<1>15. CASE RowFails(p)
  BY <1>1, <1>6, <1>15 DEF RowFails
<1>16. CASE Crash(p)
  <2>1. PICK r, v : r = [NewStream("dead", -1) EXCEPT !.dropped = t.dropped]
                    /\ v = Yielded(p)
    OBVIOUS
  <2>2. r.pc = "dead" /\ r.dropped = t.dropped
    BY <2>1 DEF NewStream
  <2>3. st' = [st EXCEPT ![p] = r] /\ wire' = [wire EXCEPT ![p] = v]
        /\ UNCHANGED <<journal, row>>
    BY <1>1, <1>16, <2>1 DEF Crash
  <2> QED
    BY <1>1, <2>2, <2>3, OrderStays
<1> QED
  BY <1>7, <1>8, <1>9, <1>10, <1>11, <1>12, <1>13, <1>14, <1>15, <1>16 DEF Flush

LEMMA OrderStep ==
  JournalInv /\ EndInv /\ OrderInv /\ [Next]_vars => OrderInv'
<1> SUFFICES ASSUME JournalInv, EndInv, OrderInv, [Next]_vars PROVE OrderInv'
  OBVIOUS
<1>1. CASE UNCHANGED vars
  BY <1>1, OrderSame DEF vars
<1>2. ASSUME NEW p \in Streams, Generate(p) \/ EmitAgentError(p) \/ Raise(p) PROVE OrderInv'
  <2>1. CASE EmitData(p) \/ EmitAgentError(p)
    BY <2>1, EmitOrder DEF EmitData, EmitAgentError, Kinds, Places
  <2>2. CASE EmitTail(p)
    BY <2>2, EmitOrder DEF EmitTail, Kinds, Places
  <2>3. CASE Finalize(p) \/ Raise(p) \/ Supersede(p)
    <3>1. /\ UNCHANGED <<wire, journal>> /\ (row = "gone" => row' = "gone")
          /\ st[p].pc \notin {"none", "dead"}
      BY <2>3 DEF Finalize, Raise, Supersede, Generating
    <3>2. PICK x \in {"closing", "failing", "close"} : st' = [st EXCEPT ![p].pc = x]
      BY <2>3 DEF Finalize, Raise, Supersede
    <3> QED
      BY <3>1, <3>2, MovedOrder DEF Places
  <2>4. CASE Close(p)
    BY <2>4, CloseOrder
  <2> QED
    BY <1>2, <2>1, <2>2, <2>3, <2>4 DEF Generate
<1>3. ASSUME NEW p \in Streams, Flush(p) \/ StreamFault(p) PROVE OrderInv'
  BY <1>2, <1>3, FlushOrder DEF StreamFault
<1>4. CASE Pause \/ PauseUnsaved
  <2>1. /\ UNCHANGED <<wire, journal, row>> /\ st[0].pc \notin {"none", "dead"}
        /\ st' = [st EXCEPT ![0].pc = "pausing"] /\ 0 \in Streams
    BY <1>4 DEF Pause, PauseUnsaved, Generating, Streams
  <2> QED
    BY <2>1, MovedOrder DEF Places
<1>5. CASE Resume \/ ResumeEarly \/ ResumeUnseeded
  BY <1>5, ContinueOrder DEF Resume, ResumeEarly, ResumeUnseeded, Seed
<1>6. CASE Truncate
  BY <1>6, OrderSame DEF Truncate
<1>7. CASE Read
  BY <1>7, OrderSame DEF Read, Snapshot, TailFrame, Watchdog, CloseUntailed
<1>8. CASE Connect \/ Disconnect \/ SnapshotCut \/ LiveDrops \/ LiveEnds
  BY <1>8, OrderSame DEF Connect, Open, Disconnect, SnapshotCut, LiveDrops, LiveEnds, Received
<1>9. CASE SubscribeRefused \/ SnapshotFails \/ SubscriptionBreaks \/ WatchdogStale
  BY <1>9, OrderSame DEF SubscribeRefused, Open, SnapshotFails, SubscriptionBreaks,
     WatchdogStale
<1> QED
  BY <1>1, <1>2, <1>3, <1>4, <1>5, <1>6, <1>7, <1>8, <1>9 DEF Next, Client, OtherFault

\* A stream that closed its journal and gave up no event has each of its events there, in
\* its own order: whatever number a collision moved it to, whichever seed a continuation
\* started from, and whoever else wrote (message_journal.py, the per-row fallback).
THEOREM JournalKeepsOrderHolds == Spec => []JournalKeepsOrder
<1>1. Init => OrderInv
  <2> SUFFICES ASSUME Init PROVE OrderInv
    OBVIOUS
  <2>1. DOMAIN journal = {} /\ DOMAIN journal = 0..(0 - 1)
    BY DEF Init
  <2>2. ASSUME NEW p \in Streams
        PROVE  Placed(st[p], wire[p], p, 0) /\ (st[p].pc = "none" => Unstarted(p))
    <3>1. PICK t, w : t = st[p] /\ w = wire[p]
      OBVIOUS
    <3>2. w = <<>> /\ t = NewStream(IF p = 0 THEN "run" ELSE "none", -1)
      BY <3>1 DEF Init
    <3>3. /\ t.pc \in {"run", "none"} /\ ~t.missing /\ t.io = "idle" /\ t.batch = <<>>
          /\ t.buf = <<>> /\ t.seq = -1
      BY <3>2 DEF NewStream
    <3>9. Unwritten(t) = 0
      BY <3>3 DEF Unwritten
    <3>4. Unwritten(t) = 0 /\ Len(w) = 0 /\ DOMAIN w = {} /\ DOMAIN t.buf = {}
          /\ DOMAIN t.batch = {}
      BY <3>2, <3>3, <3>9
    <3>5. Wrote(w, p, 0)
      BY <2>1 DEF Wrote
    <3>6. Placed(t, w, p, 0)
      BY <3>3, <3>4, <3>5 DEF Placed, Holds
    <3>7. t.pc = "none" => t = NewStream("none", -1)
      BY <3>2 DEF NewStream
    <3> QED
      BY <3>1, <3>2, <3>6, <3>7 DEF Unstarted
  <2> QED
    BY <2>1, <2>2 DEF OrderInv, Placement
<1>2. JournalInv /\ OrderInv => JournalKeepsOrder
  <2> SUFFICES ASSUME JournalInv, OrderInv, Whole, NEW p \in Streams, st[p].pc = "done",
                      Ready(p), NEW i \in DOMAIN wire[p]
               PROVE  \E s \in DOMAIN journal :
                        /\ journal[s] = wire[p][i].ev
                        /\ \A t \in DOMAIN journal :
                             (journal[t].by = p /\ journal[t].n < i) => t < s
    BY DEF JournalKeepsOrder, Whole
  <2>1. PICK m \in Nat : Placement(m)
    BY DEF OrderInv
  <2>2. PICK w : w = wire[p] /\ w \in Seq(Frames)
    BY DEF JournalInv, RestOK
  <2>3. Holds(st[p], w, p, m) /\ Wrote(w, p, Len(w) - Unwritten(st[p]))
    BY <2>1, <2>2 DEF Placement, Placed
  <2>4. st[p].buf = <<>> /\ st[p].batch = <<>>
    BY <2>3 DEF Holds, Ready
  <2>5. Unwritten(st[p]) = 0
    BY <2>4 DEF Unwritten
  <2>6. Wrote(w, p, Len(w)) /\ i \in 1..Len(w) /\ w[i].ev.by = p /\ w[i].ev.n = i
    <3>1. Len(w) - 0 = Len(w)
      BY <2>2
    <3> QED
      BY <2>2, <2>3, <2>5, <3>1 DEF Holds
  <2>7. PICK s \in DOMAIN journal : journal[s] = w[i].ev
    BY <2>6 DEF Wrote
  <2>8. \A t \in DOMAIN journal : journal[t].by = p /\ journal[t].n < i => t < s
    BY <2>6, <2>7 DEF Wrote
  <2> QED
    BY <2>2, <2>7, <2>8
<1> QED
  BY <1>1, <1>2, EndInit, EndStep, OrderStep, InvInit, InvStep, PTL DEF Spec

-----------------------------------------------------------------------------
(* CursorPassesNothing.  The argument: the events of a POST have consecutive *)
(* numbers, so the cursor of its client passes no frame; a row that is still *)
(* to be written has a number behind all rows, or one the first stream left  *)
(* free and sent with another event; and the frames reach a reader in the    *)
(* order of their numbers, so what is in line is behind its cursor.          *)

\* The POST of stream p has had its i-th event.
Sent(p, i) == i \in DOMAIN wire[p] /\ (Held(p) => i < Len(wire[p]))

\* Number s has in the journal another event than a POST had at it.
Twice(s) ==
  /\ s \in DOMAIN journal
  /\ \E p \in Streams : \E i \in DOMAIN wire[p] :
       Sent(p, i) /\ wire[p][i].seq = s /\ wire[p][i].ev # journal[s]

\* A number up to s was used twice: s is out of what the cursor promises.
Excused(s) == \E t \in 0..s : Twice(t)

\* Every row has a lower number than n.
Ahead(n) == \A s \in DOMAIN journal : s < n

\* From n on stream p finds numbers that are taken, beyond all rows, or left free by the
\* first stream, whose events were sent with them.
OpenFrom(p, n) ==
  \A m \in Nat : m >= n => Ahead(m) \/ (p = 1 /\ (m \in DOMAIN journal \/ m < Len(wire[0])))

\* Of one writer, whatever happens.
WriterTold(p) ==
  LET r == st[p] IN
  /\ r.io = "idle" => r.batch = <<>>
  /\ r.io # "idle" => r.buf = <<>>
  /\ r.io \in {"bulk", "retry"} => r.frames = <<>>
  /\ Increasing(r.frames)
  /\ \A i \in DOMAIN r.batch : r.batch[i].seq <= r.seq /\ r.batch[i].ev.by = p
  /\ \A i \in DOMAIN r.buf : r.buf[i].ev.by = p
  /\ \A i \in DOMAIN wire[p] : wire[p][i].ev.by = p
  /\ r.pc \in {"none", "dead"} => Ready(p) /\ r.buf = <<>>
  /\ r.pc = "done" => r.buf = <<>>

\* The events of a POST have consecutive numbers, from where its client begins.
Numbered(p, first) ==
  /\ \A i \in DOMAIN wire[p] : wire[p][i].seq = first + i - 1
  /\ st[p].pc # "dead" => st[p].seq = first + Len(wire[p]) - 1

\* The numbers on the wires, and what a client that follows a POST goes by.
WireTold ==
  /\ Numbered(0, 0)
  /\ st[0].pc # "none"
  /\ st[1].pc = "none" => Unstarted(1) /\ ~overlap
  /\ st[1].pc # "none" => overlap \/ Quiet(0)
  /\ cl.mode = "live" => /\ Numbered(cl.src, cl.base) /\ cl.cursor = -1
                         /\ cl.src = 1 => st[1].pc # "none"
                         /\ cl.src = 0 => cl.base = 0
  /\ cl.mode # "open" => ~cl.loaded /\ cl.inbox = <<>>

\* The message is there, and one stream at a time writes.
Single == row # "gone" /\ ~overlap

\* Until the continuation starts the rows are below what the first stream has emitted.
RowsTold == st[1].pc = "none" =>
  \A s \in DOMAIN journal : s <= Len(wire[0]) /\ (st[0].pc # "dead" => s < Len(wire[0]))

\* The numbers that a stream still has to write are open, and a retry is behind all rows.
PendingTold(p) == ~Quiet(p) =>
  /\ OpenFrom(p, st[p].seq + 1)
  /\ \A i \in DOMAIN st[p].batch : OpenFrom(p, st[p].batch[i].seq)
  /\ \A i \in DOMAIN st[p].buf : OpenFrom(p, st[p].buf[i].seq)
  /\ st[p].io = "retry" => p = 1 /\ st[p].retry = Latest + 1
                           /\ Head(st[p].batch).seq \in DOMAIN journal

\* g comes after f, or its number is excused.
After(f, g) == f.seq < g.seq \/ Excused(g.seq)

\* The frames that wait for the reader, and behind them those that wait to be published,
\* have rising numbers.
LineTold ==
  /\ \A i, j \in DOMAIN cl.inbox : i < j => After(cl.inbox[i], cl.inbox[j])
  /\ \A p \in Streams : \A i \in DOMAIN cl.inbox : \A j \in DOMAIN st[p].frames :
       After(cl.inbox[i], st[p].frames[j])

\* A frame with this number is on its way to the reader.
Coming(s) ==
  \/ \E i \in DOMAIN cl.inbox : cl.inbox[i].seq = s
  \/ \E p \in Streams : \E i \in DOMAIN st[p].frames : st[p].frames[i].seq = s

\* A reader that tails still gets every row beyond its cursor, or it is lost.
TailTold == Tailing =>
  \A s \in DOMAIN journal : s > cl.cursor => s \in lost \/ Coming(s)

\* The client was given row s, or has an excuse.
Given(s) == [seq |-> s, ev |-> journal[s]] \in seen \/ s \in lost \/ Excused(s)

\* Up to the cursor the rows were given, and so were the frames that have no row yet.
CursorTold == \A s \in cl.base..cl.cursor :
  /\ s \in DOMAIN journal => Given(s)
  /\ Ahead(s) => \E p \in Streams : \E i \in DOMAIN wire[p] :
       Sent(p, i) /\ wire[p][i].seq = s /\ wire[p][i] \in seen

\* All of it; but for the writers and the wires only while the message is there and one
\* stream at a time writes.
CursorInv ==
  /\ \A p \in Streams : WriterTold(p)
  /\ WireTold
  /\ Single => /\ RowsTold /\ \A p \in Streams : PendingTold(p)
               /\ LineTold /\ TailTold /\ CursorTold

-----------------------------------------------------------------------------
(* What a step leaves as it was.                                            *)

\* Rows stay, and what was sent, seen or lost stays so.
Grows ==
  /\ Kept /\ seen \subseteq seen' /\ lost \subseteq lost'
  /\ \A p \in Streams : \A i \in DOMAIN wire[p] :
       Sent(p, i) => /\ i \in DOMAIN wire'[p] /\ Sent(p, i)'
                     /\ wire'[p][i] = wire[p][i]

\* A number that was used twice stays so.
LEMMA ExcusedStays ==
  ASSUME Grows, NEW s, Excused(s)
  PROVE  Excused(s)'
<1>1. PICK t \in 0..s : Twice(t)
  BY DEF Excused
<1>6. PICK p \in Streams : \E i \in DOMAIN wire[p] :
        Sent(p, i) /\ wire[p][i].seq = t /\ wire[p][i].ev # journal[t]
  BY <1>1 DEF Twice
<1>2. PICK i \in DOMAIN wire[p] :
        Sent(p, i) /\ wire[p][i].seq = t /\ wire[p][i].ev # journal[t]
  BY <1>6
<1>3. t \in DOMAIN journal' /\ journal'[t] = journal[t]
  BY <1>1 DEF Twice, Grows, Kept
<1>4. i \in DOMAIN wire'[p] /\ Sent(p, i)' /\ wire'[p][i] = wire[p][i]
  BY <1>2 DEF Grows
<1>5. Twice(t)'
  BY <1>2, <1>3, <1>4 DEF Twice
<1> QED
  BY <1>5 DEF Excused

\* A row that was given stays so.
LEMMA GivenStays ==
  ASSUME Grows, NEW s \in DOMAIN journal, Given(s)
  PROVE  Given(s)'
<1>1. journal'[s] = journal[s] /\ seen \subseteq seen' /\ lost \subseteq lost'
  BY DEF Grows, Kept
<1>2. CASE Excused(s)
  BY <1>2, ExcusedStays DEF Given
<1>3. CASE ~Excused(s)
  BY <1>1, <1>3 DEF Given
<1> QED
  BY <1>2, <1>3

\* The cursor stays, and a new row comes after all others or where a number is used twice.
LEMMA CursorStays ==
  ASSUME JournalInv, JournalInv', CursorTold, Grows,
         cl'.base = cl.base, cl'.cursor = cl.cursor,
         \A n \in DOMAIN journal' : n \notin DOMAIN journal => Ahead(n) \/ Excused(n)'
  PROVE  CursorTold'
<1> SUFFICES ASSUME NEW s \in cl.base..cl.cursor
             PROVE  /\ s \in DOMAIN journal' => Given(s)'
                    /\ Ahead(s)' => \E p \in Streams : \E i \in DOMAIN wire'[p] :
                         Sent(p, i)' /\ wire'[p][i].seq = s /\ wire'[p][i] \in seen'
  BY DEF CursorTold
<1>1. /\ s \in DOMAIN journal => Given(s)
      /\ Ahead(s) => \E p \in Streams : \E i \in DOMAIN wire[p] :
           Sent(p, i) /\ wire[p][i].seq = s /\ wire[p][i] \in seen
  BY DEF CursorTold
<1>2. Ahead(s) => \E p \in Streams : \E i \in DOMAIN wire'[p] :
        Sent(p, i)' /\ wire'[p][i].seq = s /\ wire'[p][i] \in seen'
  <2> SUFFICES ASSUME Ahead(s)
               PROVE  \E p \in Streams : \E i \in DOMAIN wire'[p] :
                        Sent(p, i)' /\ wire'[p][i].seq = s /\ wire'[p][i] \in seen'
    OBVIOUS
  <2>3. PICK p \in Streams : \E i \in DOMAIN wire[p] :
          Sent(p, i) /\ wire[p][i].seq = s /\ wire[p][i] \in seen
    BY <1>1
  <2>1. PICK i \in DOMAIN wire[p] :
          Sent(p, i) /\ wire[p][i].seq = s /\ wire[p][i] \in seen
    BY <2>3
  <2>2. /\ i \in DOMAIN wire'[p] /\ Sent(p, i)' /\ wire'[p][i] = wire[p][i]
        /\ seen \subseteq seen'
    BY <2>1 DEF Grows
  <2> QED
    BY <2>1, <2>2
<1>3. Ahead(s)' => Ahead(s)
  BY DEF Ahead, Grows, Kept
<1>4. ASSUME s \in DOMAIN journal' PROVE Given(s)'
  <2>1. CASE s \in DOMAIN journal
    BY <1>1, <2>1, GivenStays
  <2>2. CASE s \notin DOMAIN journal /\ Excused(s)'
    BY <2>2 DEF Given
  <2>3. CASE s \notin DOMAIN journal /\ Ahead(s)
    <3>5. PICK p \in Streams : \E i \in DOMAIN wire'[p] :
            Sent(p, i)' /\ wire'[p][i].seq = s /\ wire'[p][i] \in seen'
      BY <1>2, <2>3
    <3>1. PICK i \in DOMAIN wire'[p] :
            Sent(p, i)' /\ wire'[p][i].seq = s /\ wire'[p][i] \in seen'
      BY <3>5
    <3>2. s \in Nat
      BY <1>4 DEF JournalInv, JournalOK
    <3>3. CASE wire'[p][i].ev = journal'[s]
      <4>1. wire'[p][i] \in Frames
        BY <3>1 DEF JournalInv, RestOK
      <4>2. wire'[p][i] = [seq |-> s, ev |-> journal'[s]]
        BY <3>1, <3>3, <4>1 DEF Frames
      <4> QED
        BY <3>1, <4>2 DEF Given
    <3>4. CASE wire'[p][i].ev # journal'[s]
      <4>1. Twice(s)'
        BY <1>4, <3>1, <3>4 DEF Twice
      <4>2. s \in 0..s
        BY <3>2
      <4> QED
        BY <4>1, <4>2 DEF Given, Excused
    <3> QED
      BY <3>3, <3>4
  <2> QED
    BY <1>4, <2>1, <2>2, <2>3
<1> QED
  BY <1>2, <1>3, <1>4

\* A writer that did not move.
LEMMA WriterStays ==
  ASSUME NEW p \in Streams, WriterTold(p), st'[p] = st[p], wire'[p] = wire[p]
  PROVE  WriterTold(p)'
BY DEF WriterTold, Increasing, Ready

\* Frames are added behind those that wait, or where a number is used twice.
LEMMA LineStays ==
  ASSUME JournalInv, LineTold, Grows, cl'.inbox = cl.inbox,
         \A p \in Streams : \A j \in DOMAIN st'[p].frames :
           \/ \E k \in DOMAIN st[p].frames : st'[p].frames[j] = st[p].frames[k]
           \/ Ahead(st'[p].frames[j].seq)
           \/ Excused(st[p].frames[j].seq)'
  PROVE  LineTold'
<1>1. ASSUME NEW i \in DOMAIN cl.inbox, NEW j \in DOMAIN cl.inbox, i < j
      PROVE  After(cl.inbox[i], cl.inbox[j])'
  <2>1. After(cl.inbox[i], cl.inbox[j])
    BY <1>1 DEF LineTold
  <2> QED
    BY <2>1, ExcusedStays DEF After, Excused
<1>2. ASSUME NEW p \in Streams, NEW i \in DOMAIN cl.inbox, NEW j \in DOMAIN st'[p].frames
      PROVE  After(cl.inbox[i], st[p].frames[j])'
  <2>1. CASE \E k \in DOMAIN st[p].frames : st'[p].frames[j] = st[p].frames[k]
    <3>1. PICK k \in DOMAIN st[p].frames : st'[p].frames[j] = st[p].frames[k]
      BY <2>1
    <3>2. After(cl.inbox[i], st[p].frames[k])
      BY <1>2 DEF LineTold
    <3> QED
      BY <3>1, <3>2, ExcusedStays DEF After, Excused
  <2>2. CASE Ahead(st'[p].frames[j].seq)
    <3>1. cl.inbox[i].seq \in DOMAIN journal
      BY DEF JournalInv, ClientOK, Committed
    <3> QED
      BY <2>2, <3>1 DEF Ahead, After, Excused
  <2>3. CASE Excused(st[p].frames[j].seq)'
    BY <2>3 DEF After, Excused
  <2> QED
    BY <1>2, <2>1, <2>2, <2>3
<1> QED
  BY <1>1, <1>2 DEF LineTold, After, Excused

\* A row of stream p is new: it comes after all others or has a number that the first
\* stream left free, and its frame is to be published.
Writes(p, r) ==
  \A n \in DOMAIN journal' : n \notin DOMAIN journal =>
    /\ Ahead(n) \/ (p = 1 /\ n < Len(wire[0]) /\ journal'[n].by = 1)
    /\ \E j \in DOMAIN r.frames : r.frames[j].seq = n

\* Stream p goes on as r: of its frames those are new whose rows are, and none is left
\* out that a reader still waits for.
Passes(p, r) ==
  /\ \A j \in DOMAIN r.frames :
       \/ \E k \in DOMAIN st[p].frames : r.frames[j] = st[p].frames[k]
       \/ r.frames[j].seq \notin DOMAIN journal
  /\ Tailing => \A k \in DOMAIN st[p].frames :
       \/ \E j \in DOMAIN r.frames : r.frames[j].seq = st[p].frames[k].seq
       \/ st[p].frames[k].seq \in lost'

\* A stream that is not over has started, and no other one is at work.
LEMMA AtWork ==
  ASSUME CursorInv, NEW p \in Streams, ~Quiet(p)
  PROVE  /\ st[p].pc \notin {"none", "dead"}
         /\ Single => \A q \in Streams : q # p => Quiet(q) /\ ~Held(q)
<1>1. WriterTold(0) /\ WriterTold(1) /\ WriterTold(p) /\ WireTold
  BY DEF CursorInv, Streams
<1>2. st[p].pc \notin {"none", "dead"}
  BY <1>1 DEF WriterTold, Quiet
<1>3. ASSUME Single, NEW q \in Streams, q # p PROVE Quiet(q)
  <2>1. CASE p = 0
    <3>1. q = 1 /\ st[1].pc = "none"
      BY <1>1, <1>3, <2>1 DEF WireTold, Single, Streams
    <3> QED
      BY <1>1, <3>1 DEF WriterTold, Quiet
  <2>2. CASE p = 1
    BY <1>1, <1>2, <1>3, <2>2 DEF WireTold, Single, Streams
  <2> QED
    BY <2>1, <2>2 DEF Streams
<1> QED
  BY <1>2, <1>3 DEF Held, Quiet

\* The number of a new row is behind all others, or used twice.
LEMMA NewRowKnown ==
  ASSUME JournalInv, CursorInv, Single, NEW p \in Streams, NEW r, ~Quiet(p), Grows,
         Writes(p, r), DOMAIN journal' \subseteq Nat
  PROVE  \A n \in DOMAIN journal' : n \notin DOMAIN journal => Ahead(n) \/ Excused(n)'
<1> SUFFICES ASSUME NEW n \in DOMAIN journal', n \notin DOMAIN journal, ~Ahead(n)
             PROVE  Excused(n)'
  OBVIOUS
<1>1. p = 1 /\ n < Len(wire[0]) /\ journal'[n].by = 1 /\ n \in Nat
  BY DEF Writes
<1>2. ~Held(0) /\ WriterTold(0) /\ Numbered(0, 0) /\ wire[0] \in Seq(Frames) /\ 0 \in Streams
  BY <1>1, AtWork DEF CursorInv, WireTold, JournalInv, RestOK, Streams
<1>3. n + 1 \in DOMAIN wire[0]
  BY <1>1, <1>2
<1>4. wire[0][n + 1].seq = n /\ wire[0][n + 1].ev.by = 0
  BY <1>1, <1>2, <1>3 DEF Numbered, WriterTold
<1>5. Sent(0, n + 1)
  BY <1>2, <1>3 DEF Sent
<1>6. /\ n + 1 \in DOMAIN wire'[0] /\ Sent(0, n + 1)'
      /\ wire'[0][n + 1] = wire[0][n + 1]
  BY <1>2, <1>3, <1>5 DEF Grows
<1>7. Twice(n)'
  BY <1>1, <1>2, <1>4, <1>6 DEF Twice
<1>8. n \in 0..n
  BY <1>1
<1> QED
  BY <1>7, <1>8 DEF Excused

\* What a reader still waits for is published, or lost for it.
LEMMA TailStays ==
  ASSUME JournalInv, JournalInv', TailTold, Grows, UNCHANGED cl,
         NEW p \in Streams, NEW r, st' = [st EXCEPT ![p] = r],
         Writes(p, r), Passes(p, r)
  PROVE  TailTold'
<1>0. st'[p] = r /\ \A q \in Streams : q # p => st'[q] = st[q]
  BY DEF JournalInv, StreamsOK
<1> SUFFICES ASSUME Tailing, NEW s \in DOMAIN journal', s > cl.cursor
             PROVE  s \in lost' \/ Coming(s)'
  BY DEF TailTold, Tailing
<1>1. CASE s \notin DOMAIN journal
  <2>1. PICK j \in DOMAIN r.frames : r.frames[j].seq = s
    BY <1>1 DEF Writes
  <2> QED
    BY <1>0, <2>1 DEF Coming
<1>2. CASE s \in DOMAIN journal
  <2>1. s \in lost \/ Coming(s)
    BY <1>2 DEF TailTold
  <2>2. CASE s \in lost
    BY <2>2 DEF Grows
  <2>3. CASE \E i \in DOMAIN cl.inbox : cl.inbox[i].seq = s
    BY <2>3 DEF Coming
  <2>4. ASSUME NEW q \in Streams, NEW i \in DOMAIN st[q].frames, st[q].frames[i].seq = s
        PROVE  s \in lost' \/ Coming(s)'
    <3>1. CASE q = p
      <4>1. \/ \E j \in DOMAIN r.frames : r.frames[j].seq = s
            \/ s \in lost'
        BY <2>4, <3>1 DEF Passes
      <4> QED
        BY <1>0, <4>1 DEF Coming
    <3>2. CASE q # p
      BY <1>0, <2>4, <3>2 DEF Coming
    <3> QED
      BY <3>1, <3>2
  <2> QED
    BY <2>1, <2>2, <2>3, <2>4 DEF Coming
<1> QED
  BY <1>1, <1>2

\* A step of stream p.
LEMMA StreamMoves ==
  ASSUME JournalInv, JournalInv', CursorInv, UNCHANGED <<cl, overlap>>,
         row' # "gone" => row # "gone",
         NEW p \in Streams, NEW r, st' = [st EXCEPT ![p] = r], ~Quiet(p), r.pc # "none",
         Grows, \A q \in Streams : q # p => wire'[q] = wire[q],
         \A b \in Int : Numbered(p, b) => Numbered(p, b)',
         WriterTold(p)',
         Single /\ Single' => /\ RowsTold' /\ PendingTold(p)'
                              /\ Writes(p, r) /\ Passes(p, r)
  PROVE  CursorInv'
<1>0. /\ st'[p] = r /\ \A q \in Streams : q # p => st'[q] = st[q]
      /\ 0 \in Streams /\ 1 \in Streams /\ \A q \in Streams : q = 0 \/ q = 1
      /\ DOMAIN journal' \subseteq Nat
  BY DEF JournalInv, StreamsOK, JournalOK, Streams
<1>1. \A q \in Streams : WriterTold(q)'
  <2> SUFFICES ASSUME NEW q \in Streams, q # p PROVE WriterTold(q)'
    OBVIOUS
  <2> QED
    BY <1>0, WriterStays DEF CursorInv
<1>2. st[p].pc \notin {"none", "dead"}
      /\ (Single => \A q \in Streams : q # p => Quiet(q) /\ ~Held(q))
  BY AtWork
<1>3. \A q \in Streams, b \in Int : Numbered(q, b) => Numbered(q, b)'
  <2> SUFFICES ASSUME NEW q \in Streams, q # p, NEW b \in Int, Numbered(q, b)
               PROVE  Numbered(q, b)'
    OBVIOUS
  <2> QED
    BY <1>0 DEF Numbered
<1>4. WireTold'
  <2>0. WireTold
    BY DEF CursorInv
  <2>1. Numbered(0, 0)' /\ st'[0].pc # "none"
    BY <1>0, <1>3, <2>0 DEF WireTold
  <2>2. st'[1].pc = "none" => Unstarted(1)' /\ ~overlap'
    BY <1>0, <2>0 DEF WireTold, Unstarted
  <2>3. st'[1].pc # "none" => overlap' \/ Quiet(0)'
    <3>1. CASE p = 0
      BY <1>0, <2>0, <3>1 DEF WireTold
    <3>2. CASE p = 1
      BY <1>0, <1>2, <2>0, <3>2 DEF WireTold, Quiet, Ready
    <3> QED
      BY <1>0, <3>1, <3>2
  <2>4. cl.mode = "live" => /\ Numbered(cl.src, cl.base)' /\ cl.cursor = -1
                            /\ (cl.src = 1 => st'[1].pc # "none")
                            /\ (cl.src = 0 => cl.base = 0)
    <3>1. cl.src \in Streams /\ cl.base \in Int
      BY DEF JournalInv, ClientOK, ClientType
    <3> QED
      BY <1>0, <1>3, <2>0, <3>1 DEF WireTold
  <2>5. cl.mode # "open" => ~cl.loaded /\ cl.inbox = <<>>
    BY <2>0 DEF WireTold
  <2> QED
    BY <2>1, <2>2, <2>3, <2>4, <2>5 DEF WireTold
<1>5. ASSUME Single'
      PROVE  /\ RowsTold' /\ \A q \in Streams : PendingTold(q)'
             /\ LineTold' /\ TailTold' /\ CursorTold'
  <2>0. /\ Single /\ LineTold /\ TailTold /\ CursorTold
        /\ RowsTold' /\ PendingTold(p)' /\ Writes(p, r) /\ Passes(p, r)
    BY <1>5 DEF Single, CursorInv
  <2>1. ASSUME NEW q \in Streams, q # p PROVE PendingTold(q)'
    BY <1>0, <1>2, <2>0, <2>1 DEF PendingTold, Quiet, Ready
  <2>2. \A n \in DOMAIN journal' : n \notin DOMAIN journal => Ahead(n) \/ Excused(n)'
    BY <1>0, <2>0, NewRowKnown
  <2>3. LineTold'
    <3>1. ASSUME NEW q \in Streams, NEW j \in DOMAIN st'[q].frames
          PROVE  \/ \E k \in DOMAIN st[q].frames : st'[q].frames[j] = st[q].frames[k]
                 \/ Ahead(st'[q].frames[j].seq)
                 \/ Excused(st[q].frames[j].seq)'
      <4>1. CASE q # p
        BY <1>0, <3>1, <4>1
      <4>2. CASE q = p /\ r.frames[j].seq \notin DOMAIN journal
        <5>1. r.frames[j].seq \in DOMAIN journal'
          BY <1>0, <3>1, <4>2 DEF JournalInv, StreamsOK, StreamOK, Committed
        <5>2. PICK n : n = r.frames[j].seq
          OBVIOUS
        <5>3. Ahead(n) \/ Excused(n)'
          BY <2>2, <4>2, <5>1, <5>2
        <5>4. st'[q].frames[j].seq = n
          BY <1>0, <4>2, <5>2
        <5> QED
          BY <5>3, <5>4 DEF Excused, Ahead
      <4>3. CASE q = p /\ r.frames[j].seq \in DOMAIN journal
        BY <1>0, <2>0, <3>1, <4>3 DEF Passes
      <4> QED
        BY <4>1, <4>2, <4>3
    <3> QED
      BY <2>0, <3>1, LineStays
  <2>4. TailTold'
    BY <2>0, TailStays
  <2>5. CursorTold'
    BY <2>0, <2>2, CursorStays
  <2> QED
    BY <2>0, <2>1, <2>3, <2>4, <2>5
<1> QED
  BY <1>1, <1>4, <1>5 DEF CursorInv

\* Stream p goes on as r with what it has recorded.
Carries(p, r) ==
  /\ r.seq = st[p].seq /\ r.pc \notin {"none", "dead"}
  /\ \A i \in DOMAIN r.batch : \/ \E k \in DOMAIN st[p].batch : r.batch[i] = st[p].batch[k]
                               \/ \E k \in DOMAIN st[p].buf : r.batch[i] = st[p].buf[k]
  /\ \A i \in DOMAIN r.buf : \E k \in DOMAIN st[p].buf : r.buf[i] = st[p].buf[k]
  /\ r.io = "idle" => r.batch = <<>>
  /\ r.io # "idle" => r.buf = <<>>
  /\ r.io \in {"bulk", "retry"} => r.frames = <<>>
  /\ r.pc = "done" => r.buf = <<>>
  /\ Increasing(r.frames)

\* What the writer knew of its events it still knows.
LEMMA CarriesTold ==
  ASSUME JournalInv, CursorInv, NEW p \in Streams, NEW r, st'[p] = r, wire'[p] = wire[p],
         Carries(p, r)
  PROVE  WriterTold(p)'
<1>1. WriterTold(p) /\ StreamOK(st[p]) /\ st[p] \in StreamType
  BY DEF CursorInv, JournalInv, StreamsOK
<1>2. \A i \in DOMAIN r.batch : r.batch[i].seq <= r.seq /\ r.batch[i].ev.by = p
  <2> SUFFICES ASSUME NEW i \in DOMAIN r.batch
               PROVE  r.batch[i].seq <= r.seq /\ r.batch[i].ev.by = p
    OBVIOUS
  <2> QED
    BY <1>1 DEF WriterTold, StreamOK, Carries
<1>3. \A i \in DOMAIN r.buf : r.buf[i].ev.by = p
  BY <1>1 DEF WriterTold, Carries
<1> QED
  BY <1>1, <1>2, <1>3 DEF WriterTold, Carries, Increasing

\* A step of stream p that neither records nor writes an event.
LEMMA WriterRests ==
  ASSUME JournalInv, JournalInv', CursorInv, UNCHANGED <<wire, journal, cl, seen, overlap>>,
         lost \subseteq lost', row' # "gone" => row # "gone",
         NEW p \in Streams, NEW r, st' = [st EXCEPT ![p] = r], ~Quiet(p), Carries(p, r),
         Held(p)' => Held(p), Passes(p, r),
         Single' /\ r.io = "retry" => /\ p = 1 /\ r.retry = Latest' + 1
                                      /\ Head(r.batch).seq \in DOMAIN journal
  PROVE  CursorInv'
<1>0. /\ st'[p] = r /\ \A q \in Streams : q # p => st'[q] = st[q]
      /\ 0 \in Streams /\ 1 \in Streams /\ \A q \in Streams : q = 0 \/ q = 1
  BY DEF JournalInv, StreamsOK, Streams
<1>1. WriterTold(p)'
  BY <1>0, CarriesTold
<1>2. st[p].pc \notin {"none", "dead"}
  BY AtWork
<1>3. Grows
  <2>1. \A q \in Streams : Held(q)' => Held(q)
    BY <1>0 DEF Held, Ready
  <2> QED
    BY <2>1 DEF Grows, Kept, Sent
<1>4. \A b \in Int : Numbered(p, b) => Numbered(p, b)'
  BY <1>0, <1>2 DEF Numbered, Carries
<1>5. ASSUME Single, Single'
      PROVE  RowsTold' /\ PendingTold(p)' /\ Writes(p, r)
  <2>1. RowsTold /\ PendingTold(p)
    BY <1>5 DEF CursorInv
  <2>2. RowsTold'
    BY <1>0, <1>2, <2>1 DEF RowsTold, Carries
  <2>3. \A n : OpenFrom(p, n) => OpenFrom(p, n)'
    BY DEF OpenFrom, Ahead
  <2>4. /\ OpenFrom(p, r.seq + 1)
        /\ \A i \in DOMAIN r.batch : OpenFrom(p, r.batch[i].seq)
        /\ \A i \in DOMAIN r.buf : OpenFrom(p, r.buf[i].seq)
    BY <2>1 DEF PendingTold, Carries
  <2>5. PendingTold(p)'
    <3>1. /\ OpenFrom(p, r.seq + 1)'
          /\ \A i \in DOMAIN r.batch : OpenFrom(p, r.batch[i].seq)'
          /\ \A i \in DOMAIN r.buf : OpenFrom(p, r.buf[i].seq)'
      BY <2>4, <2>3
    <3> QED
      BY <1>0, <1>5, <3>1 DEF PendingTold, OpenFrom
  <2> QED
    BY <2>2, <2>5 DEF Writes
<1> QED
  BY <1>0, <1>1, <1>3, <1>4, <1>5, StreamMoves DEF Carries

\* The rows of a batch, and only they, are new.
LEMMA WithRows ==
  ASSUME NEW fs \in Seq(Frames), journal' = With(fs)
  PROVE  /\ DOMAIN journal' = DOMAIN journal \cup {fs[i].seq : i \in DOMAIN fs}
         /\ \A n \in DOMAIN journal' : n \notin DOMAIN journal =>
              \E i \in DOMAIN fs : fs[i].seq = n /\ journal'[n] = fs[i].ev
<1>1. /\ DOMAIN journal' = DOMAIN journal \cup {fs[i].seq : i \in DOMAIN fs}
      /\ \A n \in DOMAIN journal' : n \notin DOMAIN journal =>
           journal'[n] = fs[CHOOSE i \in DOMAIN fs : fs[i].seq = n].ev
  BY DEF With
<1>2. ASSUME NEW n \in DOMAIN journal', n \notin DOMAIN journal
      PROVE  \E i \in DOMAIN fs : fs[i].seq = n /\ journal'[n] = fs[i].ev
  <2>1. \E i \in DOMAIN fs : fs[i].seq = n
    BY <1>1, <1>2
  <2>2. PICK i : i = CHOOSE j \in DOMAIN fs : fs[j].seq = n
    OBVIOUS
  <2>3. i \in DOMAIN fs /\ fs[i].seq = n
    BY <2>1, <2>2
  <2> QED
    BY <1>1, <1>2, <2>2, <2>3
<1> QED
  BY <1>1, <1>2

\* The writer r still has an event numbered q.
StillHas(r, q) == \/ q = r.seq + 1
                  \/ \E i \in DOMAIN r.batch : q = r.batch[i].seq
                  \/ \E i \in DOMAIN r.buf : q = r.buf[i].seq

\* The events fs of stream p can be committed in front of what r still has.
Fits(p, r, fs) ==
  /\ \A i \in DOMAIN fs : Vacant(fs[i].seq) /\ fs[i].ev.by = p
  /\ Single /\ p = 0 => \A i \in DOMAIN fs : fs[i].seq <= st[0].seq
  /\ Single => \A i \in DOMAIN fs : Ahead(fs[i].seq) \/ (p = 1 /\ fs[i].seq < Len(wire[0]))
  /\ Single => \A q \in Nat, m \in Nat : StillHas(r, q) /\ m >= q /\ Ahead(m) =>
       \/ \A i \in DOMAIN fs : fs[i].seq < m
       \/ p = 1 /\ \E i \in DOMAIN fs : fs[i].seq = m

\* Stream p commits the events fs.
LEMMA WriterWrites ==
  ASSUME JournalInv, JournalInv', CursorInv,
         UNCHANGED <<wire, row, cl, seen, lost, overlap>>,
         NEW p \in Streams, NEW r, st' = [st EXCEPT ![p] = r], ~Quiet(p), Carries(p, r),
         Held(p)' => Held(p), r.io # "retry",
         NEW fs \in Seq(Frames), journal' = With(fs), Kept, r.frames = fs,
         st[p].frames = <<>>, Fits(p, r, fs)
  PROVE  CursorInv'
<1>0. /\ st'[p] = r /\ \A q \in Streams : q # p => st'[q] = st[q]
      /\ 0 \in Streams /\ 1 \in Streams /\ \A q \in Streams : q = 0 \/ q = 1
      /\ r \in StreamType /\ r.seq + 1 \in Nat /\ \A i \in DOMAIN fs : fs[i].seq \in Nat
      /\ \A q \in Streams : Len(wire[q]) \in Nat
  <2>1. st'[p] = r /\ \A q \in Streams : q # p => st'[q] = st[q]
    BY DEF JournalInv, StreamsOK
  <2>2. st'[p] \in StreamType
    BY DEF JournalInv, StreamsOK
  <2>3. \A i \in DOMAIN fs : fs[i] \in Frames
    OBVIOUS
  <2> QED
    BY <2>1, <2>2, <2>3 DEF StreamType, Frames, Streams, JournalInv, RestOK
<1>1. WriterTold(p)'
  BY <1>0, CarriesTold
<1>2. st[p].pc \notin {"none", "dead"}
      /\ (Single => \A q \in Streams : q # p => Quiet(q) /\ ~Held(q))
  BY AtWork
<1>3. Grows
  <2>1. \A q \in Streams : Held(q)' => Held(q)
    BY <1>0 DEF Held, Ready
  <2> QED
    BY <2>1 DEF Grows, Sent
<1>4. \A b \in Int : Numbered(p, b) => Numbered(p, b)'
  BY <1>0, <1>2 DEF Numbered, Carries
<1>5. /\ DOMAIN journal' = DOMAIN journal \cup {fs[i].seq : i \in DOMAIN fs}
      /\ \A n \in DOMAIN journal' : n \notin DOMAIN journal =>
           \E i \in DOMAIN fs : fs[i].seq = n /\ journal'[n] = fs[i].ev
  BY WithRows
<1>7. /\ \A i \in DOMAIN fs : Vacant(fs[i].seq) /\ fs[i].ev.by = p
      /\ Single /\ p = 0 => \A i \in DOMAIN fs : fs[i].seq <= st[0].seq
      /\ Single => \A i \in DOMAIN fs : Ahead(fs[i].seq) \/ (p = 1 /\ fs[i].seq < Len(wire[0]))
      /\ Single => \A q \in Nat, m \in Nat : StillHas(r, q) /\ m >= q /\ Ahead(m) =>
           \/ \A i \in DOMAIN fs : fs[i].seq < m
           \/ p = 1 /\ \E i \in DOMAIN fs : fs[i].seq = m
  BY DEF Fits
<1>6. ASSUME Single, Single'
      PROVE  RowsTold' /\ PendingTold(p)' /\ Writes(p, r) /\ Passes(p, r)
  <2>1. RowsTold /\ PendingTold(p) /\ WireTold
    BY <1>6 DEF CursorInv
  <2>2. RowsTold'
    <3> SUFFICES ASSUME st'[1].pc = "none", NEW s \in DOMAIN journal'
                 PROVE  s <= Len(wire[0]) /\ (st'[0].pc # "dead" => s < Len(wire[0]))
      BY DEF RowsTold
    <3>1. p = 0 /\ st[1].pc = "none" /\ st[0].seq = Len(wire[0]) - 1
      BY <1>0, <1>2, <2>1 DEF Carries, WireTold, Numbered
    <3>2. CASE s \in DOMAIN journal
      BY <1>2, <2>1, <3>1, <3>2 DEF RowsTold
    <3>3. CASE s \notin DOMAIN journal
      <4>1. PICK i \in DOMAIN fs : fs[i].seq = s
        BY <1>5, <3>3
      <4>2. fs[i].seq <= st[0].seq /\ fs[i].seq \in Nat /\ Len(wire[0]) \in Nat
        BY <1>0, <1>6, <1>7, <3>1
      <4> QED
        BY <3>1, <4>1, <4>2
    <3> QED
      BY <3>2, <3>3
  <2>3. ASSUME NEW q \in Nat, StillHas(r, q) PROVE OpenFrom(p, q)'
    <3>1. OpenFrom(p, q)
      BY <2>1, <2>3 DEF PendingTold, Carries, StillHas
    <3> SUFFICES ASSUME NEW m \in Nat, m >= q
                 PROVE  Ahead(m)' \/ (p = 1 /\ (m \in DOMAIN journal' \/ m < Len(wire[0])))
      BY DEF OpenFrom
    <3>2. Ahead(m) \/ (p = 1 /\ (m \in DOMAIN journal \/ m < Len(wire[0])))
      BY <3>1 DEF OpenFrom
    <3>3. CASE Ahead(m)
      <4>1. \/ \A i \in DOMAIN fs : fs[i].seq < m
            \/ p = 1 /\ \E i \in DOMAIN fs : fs[i].seq = m
        BY <1>6, <1>7, <2>3, <3>3
      <4> QED
        BY <1>5, <3>3, <4>1 DEF Ahead
    <3>4. CASE p = 1 /\ (m \in DOMAIN journal \/ m < Len(wire[0]))
      BY <1>5, <3>4
    <3> QED
      BY <3>2, <3>3, <3>4
  <2>4. PendingTold(p)'
    <3>1. \A i \in DOMAIN r.batch : r.batch[i].seq \in Nat
      <4>1. r.batch \in Seq(Frames)
        BY <1>0 DEF StreamType
      <4>2. \A i \in DOMAIN r.batch : r.batch[i] \in Frames
        BY <4>1
      <4> QED
        BY <4>2 DEF Frames
    <3>2. \A i \in DOMAIN r.buf : r.buf[i].seq \in Nat
      <4>1. r.buf \in Seq(Frames)
        BY <1>0 DEF StreamType
      <4>2. \A i \in DOMAIN r.buf : r.buf[i] \in Frames
        BY <4>1
      <4> QED
        BY <4>2 DEF Frames
    <3>3. /\ OpenFrom(p, r.seq + 1)'
          /\ \A i \in DOMAIN r.batch : OpenFrom(p, r.batch[i].seq)'
          /\ \A i \in DOMAIN r.buf : OpenFrom(p, r.buf[i].seq)'
      BY <1>0, <2>3, <3>1, <3>2 DEF StillHas
    <3> QED
      BY <1>0, <3>3 DEF PendingTold, OpenFrom
  <2>5. Writes(p, r)
    <3> SUFFICES ASSUME NEW n \in DOMAIN journal', n \notin DOMAIN journal
                 PROVE  /\ Ahead(n) \/ (p = 1 /\ n < Len(wire[0]) /\ journal'[n].by = 1)
                        /\ \E j \in DOMAIN r.frames : r.frames[j].seq = n
      BY DEF Writes
    <3>1. PICK i \in DOMAIN fs : fs[i].seq = n /\ journal'[n] = fs[i].ev
      BY <1>5
    <3>2. fs[i].ev.by = p /\ (Ahead(fs[i].seq) \/ (p = 1 /\ fs[i].seq < Len(wire[0])))
      BY <1>6, <1>7
    <3>3. Ahead(fs[i].seq) => Ahead(n)
      BY <3>1 DEF Ahead
    <3> QED
      BY <3>1, <3>2, <3>3
  <2>6. Passes(p, r)
    BY <1>7 DEF Passes, Vacant
  <2> QED
    BY <2>2, <2>4, <2>5, <2>6
<1> QED
  BY <1>0, <1>1, <1>3, <1>4, <1>6, StreamMoves DEF Carries

\* The generator moves on, with no flush under way.
LEMMA CursorMove ==
  ASSUME JournalInv, JournalInv', CursorInv, NEW p \in Streams, NEW x \in Places,
         x \notin {"none", "dead", "done"}, Ready(p), ~Quiet(p),
         st' = [st EXCEPT ![p].pc = x], row' # "gone" => row # "gone",
         UNCHANGED <<wire, journal, cl, seen, lost, overlap>>
  PROVE  CursorInv'
<1>1. PICK r : r = [st[p] EXCEPT !.pc = x]
  OBVIOUS
<1>2. st[p] \in StreamType /\ WriterTold(p) /\ StreamOK(st[p])
  BY DEF JournalInv, StreamsOK, CursorInv
<1>3. /\ r.pc = x /\ r.seq = st[p].seq /\ r.buf = st[p].buf /\ r.batch = st[p].batch
      /\ r.io = "idle" /\ r.frames = <<>> /\ st[p].frames = <<>> /\ r.batch = <<>>
  BY <1>1, <1>2 DEF StreamType, Ready, WriterTold
<1>4. st' = [st EXCEPT ![p] = r] /\ st'[p] = r
  BY <1>1 DEF JournalInv, StreamsOK
<1>5. Carries(p, r)
  BY <1>3 DEF Carries, Increasing
<1>6. ~Held(p)'
  BY <1>3, <1>4 DEF Held, Ready
<1>7. Passes(p, r)
  BY <1>3 DEF Passes
<1> QED
  BY <1>3, <1>4, <1>5, <1>6, <1>7, WriterRests

\* The generator pauses, finalizes, raises or gives way.
LEMMA CursorGenerator ==
  ASSUME JournalInv, JournalInv', CursorInv, NEW p \in Streams,
         \/ p = 0 /\ (Pause \/ PauseUnsaved)
         \/ Finalize(p) \/ Raise(p) \/ Supersede(p)
  PROVE  CursorInv'
<1>1. Ready(p) /\ ~Quiet(p)
  BY DEF Pause, PauseUnsaved, Finalize, Raise, Supersede, Generating, Quiet
<1>2. CASE p = 0 /\ (Pause \/ PauseUnsaved)
  BY <1>1, <1>2, CursorMove DEF Pause, PauseUnsaved, Places
<1>3. CASE Finalize(p)
  <2>1. row' # "gone" => row # "gone"
    BY <1>3 DEF Finalize
  <2> QED
    BY <1>1, <1>3, <2>1, CursorMove DEF Finalize, Places
<1>4. CASE Raise(p)
  <2>1. row' # "gone" => row # "gone"
    BY <1>4 DEF Raise
  <2> QED
    BY <1>1, <1>4, <2>1, CursorMove DEF Raise, Places
<1>5. CASE Supersede(p)
  BY <1>1, <1>5, CursorMove DEF Supersede, Places
<1> QED
  BY <1>2, <1>3, <1>4, <1>5

\* The last batch is handed to the flush.
LEMMA CursorClose ==
  ASSUME JournalInv, JournalInv', CursorInv, NEW p \in Streams, Close(p)
  PROVE  CursorInv'
<1> DEFINE b == st[p].buf
<1>1. PICK r : r = [st[p] EXCEPT !.pc = "done", !.buf = <<>>, !.batch = b,
                                 !.io = IF b = <<>> THEN "idle" ELSE "bulk"]
  OBVIOUS
<1>2. st[p] \in StreamType /\ WriterTold(p) /\ Ready(p) /\ ~Quiet(p)
  BY DEF JournalInv, StreamsOK, CursorInv, Close, Quiet
<1>3. /\ r.pc = "done" /\ r.seq = st[p].seq /\ r.buf = <<>> /\ r.batch = st[p].buf
      /\ r.io = IF b = <<>> THEN "idle" ELSE "bulk"
      /\ r.frames = <<>> /\ st[p].frames = <<>>
  BY <1>1, <1>2 DEF StreamType, Ready
<1>4. st' = [st EXCEPT ![p] = r] /\ st'[p] = r
  BY <1>1 DEF JournalInv, StreamsOK, Close
<1>5. Carries(p, r)
  BY <1>3 DEF Carries, Increasing
<1>6. ~Held(p)'
  BY <1>3, <1>4 DEF Held
<1>7. Passes(p, r)
  BY <1>3 DEF Passes
<1>8. r.io # "retry" /\ UNCHANGED <<wire, journal, row, cl, seen, lost, overlap>>
  BY <1>3 DEF Close
<1> QED
  BY <1>2, <1>4, <1>5, <1>6, <1>7, <1>8, WriterRests

\* The writer `p` goes on as `r` in the middle of a flush, or publishes.
LEMMA CursorFlushes ==
  ASSUME JournalInv, CursorInv, NEW p \in Streams, ~Ready(p),
         NEW r, st' = [st EXCEPT ![p] = r], r.pc = st[p].pc, r.seq = st[p].seq,
         r.buf = st[p].buf, st[p].io # "idle" \/ r.io = "idle",
         \A i \in DOMAIN r.batch : \E k \in DOMAIN st[p].batch : r.batch[i] = st[p].batch[k],
         r.io = "idle" => r.batch = <<>>,
         r.io \in {"bulk", "retry"} => r.frames = <<>>, Increasing(r.frames)
  PROVE  Carries(p, r) /\ (wire' = wire => (Held(p)' => Held(p))) /\ ~Quiet(p) /\ st'[p] = r
<1>1. WriterTold(p) /\ st'[p] = r
  BY DEF CursorInv, JournalInv, StreamsOK
<1>2. ~Quiet(p) /\ st[p].pc \notin {"none", "dead"}
  BY <1>1 DEF Quiet, WriterTold
<1>3. r.io # "idle" => r.buf = <<>>
  BY <1>1 DEF WriterTold
<1>4. Carries(p, r)
  BY <1>1, <1>2, <1>3 DEF Carries, WriterTold
<1> QED
  BY <1>1, <1>2, <1>4 DEF Held, Ready

\* The flush gives the batch up, falls back to single rows, or looks a number up.
LEMMA CursorBatch ==
  ASSUME JournalInv, JournalInv', CursorInv, NEW p \in Streams,
         BulkOrphaned(p) \/ BulkCollides(p) \/ BulkFails(p)
  PROVE  CursorInv'
<1>1. st[p] \in StreamType /\ WriterTold(p) /\ st[p].io = "bulk" /\ ~Ready(p)
  BY DEF JournalInv, StreamsOK, CursorInv, BulkOrphaned, BulkCollides, BulkFails, Ready
<1>2. st[p].frames = <<>>
  BY <1>1 DEF WriterTold
<1>3. PICK r : /\ st' = [st EXCEPT ![p] = r] /\ r.pc = st[p].pc /\ r.seq = st[p].seq
               /\ r.buf = st[p].buf /\ r.frames = st[p].frames
               /\ \/ r.io = "idle" /\ r.batch = <<>>
                  \/ r.io = "rows" /\ r.batch = st[p].batch
  <2>1. CASE BulkOrphaned(p)
    <3>1. PICK r : r = [st[p] EXCEPT !.io = "idle", !.batch = <<>>, !.missing = TRUE]
      OBVIOUS
    <3>2. st' = [st EXCEPT ![p] = r]
      BY <2>1, <3>1 DEF JournalInv, StreamsOK, BulkOrphaned
    <3>3. /\ r.pc = st[p].pc /\ r.seq = st[p].seq
          /\ r.buf = st[p].buf /\ r.frames = st[p].frames
          /\ \/ r.io = "idle" /\ r.batch = <<>>
             \/ r.io = "rows" /\ r.batch = st[p].batch
      BY <1>1, <3>1 DEF StreamType
    <3> QED
      BY <3>2, <3>3
  <2>2. CASE BulkCollides(p)
    <3>1. PICK r : r = [st[p] EXCEPT !.io = "rows"]
      OBVIOUS
    <3>2. st' = [st EXCEPT ![p] = r]
      BY <2>2, <3>1 DEF JournalInv, StreamsOK, BulkCollides
    <3>3. /\ r.pc = st[p].pc /\ r.seq = st[p].seq
          /\ r.buf = st[p].buf /\ r.frames = st[p].frames
          /\ \/ r.io = "idle" /\ r.batch = <<>>
             \/ r.io = "rows" /\ r.batch = st[p].batch
      BY <1>1, <3>1 DEF StreamType
    <3> QED
      BY <3>2, <3>3
  <2>3. CASE BulkFails(p)
    <3>1. PICK r : r = [st[p] EXCEPT !.io = "idle", !.batch = <<>>, !.dropped = TRUE]
      OBVIOUS
    <3>2. st' = [st EXCEPT ![p] = r]
      BY <2>3, <3>1 DEF JournalInv, StreamsOK, BulkFails
    <3>3. /\ r.pc = st[p].pc /\ r.seq = st[p].seq
          /\ r.buf = st[p].buf /\ r.frames = st[p].frames
          /\ \/ r.io = "idle" /\ r.batch = <<>>
             \/ r.io = "rows" /\ r.batch = st[p].batch
      BY <1>1, <3>1 DEF StreamType
    <3> QED
      BY <3>2, <3>3
  <2> QED
    BY <2>1, <2>2, <2>3
<1>4. UNCHANGED <<wire, journal, row, cl, seen, lost, overlap>>
  BY DEF BulkOrphaned, BulkCollides, BulkFails
<1>7. /\ st[p].io # "idle" \/ r.io = "idle"
      /\ \A i \in DOMAIN r.batch : \E k \in DOMAIN st[p].batch : r.batch[i] = st[p].batch[k]
      /\ r.io = "idle" => r.batch = <<>>
      /\ r.io \in {"bulk", "retry"} => r.frames = <<>>
      /\ Increasing(r.frames) /\ wire' = wire
  BY <1>1, <1>2, <1>3, <1>4 DEF Increasing
<1>5. Carries(p, r) /\ (Held(p)' => Held(p)) /\ ~Quiet(p)
  BY <1>1, <1>3, <1>7, CursorFlushes
<1>6. Passes(p, r) /\ r.io # "retry"
  BY <1>2, <1>3 DEF Passes
<1> QED
  BY <1>3, <1>4, <1>5, <1>6, WriterRests

\* The number of an event is taken, and the next free one is looked up.
LEMMA CursorLooksUp ==
  ASSUME JournalInv, JournalInv', CursorInv, NEW p \in Streams, LookUpLatest(p)
  PROVE  CursorInv'
<1>1. /\ st[p] \in StreamType /\ WriterTold(p) /\ st[p].io = "rows" /\ ~Ready(p)
      /\ st[p].frames = <<>> /\ StreamOK(st[p])
  BY DEF JournalInv, StreamsOK, CursorInv, LookUpLatest, Ready
<1>2. PICK r : r = [st[p] EXCEPT !.io = "retry", !.retry = Latest + 1]
  OBVIOUS
<1>3. /\ r.pc = st[p].pc /\ r.seq = st[p].seq /\ r.buf = st[p].buf
      /\ r.frames = <<>> /\ r.batch = st[p].batch /\ r.io = "retry" /\ r.retry = Latest + 1
  BY <1>1, <1>2 DEF StreamType
<1>4. st' = [st EXCEPT ![p] = r]
  BY <1>2 DEF JournalInv, StreamsOK, LookUpLatest
<1>5. UNCHANGED <<wire, journal, row, cl, seen, lost, overlap>>
  BY DEF LookUpLatest
<1>10. /\ st[p].io # "idle" \/ r.io = "idle"
       /\ \A i \in DOMAIN r.batch : \E k \in DOMAIN st[p].batch : r.batch[i] = st[p].batch[k]
       /\ r.io = "idle" => r.batch = <<>>
       /\ r.io \in {"bulk", "retry"} => r.frames = <<>>
       /\ Increasing(r.frames) /\ wire' = wire
  BY <1>1, <1>3, <1>5 DEF Increasing
<1>6. Carries(p, r) /\ (Held(p)' => Held(p)) /\ ~Quiet(p)
  BY <1>1, <1>3, <1>4, <1>10, CursorFlushes
<1>7. Passes(p, r)
  BY <1>1, <1>3 DEF Passes
<1>8. Latest' = Latest
  BY <1>5 DEF Latest, Rows
<1>9. ASSUME Single'
      PROVE  p = 1 /\ Head(r.batch).seq \in DOMAIN journal
  <2>1. row # "gone" /\ Single
    BY <1>5, <1>9 DEF Single
  <2>2. Head(st[p].batch).seq \in DOMAIN journal
    BY <2>1 DEF LookUpLatest, Vacant
  <2>3. /\ st[p].batch \in Seq(Frames) /\ st[p].batch # <<>>
        /\ 1 \in DOMAIN st[p].batch /\ Head(st[p].batch) = st[p].batch[1]
        /\ st[p].batch[1].seq \in Nat
    <3>1. st[p].batch \in Seq(Frames) /\ st[p].batch # <<>>
      BY <1>1 DEF StreamType, StreamOK
    <3>2. /\ 1 \in DOMAIN st[p].batch /\ Head(st[p].batch) = st[p].batch[1]
          /\ st[p].batch[1] \in Frames
      BY <3>1
    <3> QED
      BY <3>1, <3>2 DEF Frames
  <2>4. OpenFrom(p, st[p].batch[1].seq)
    BY <1>6, <2>1, <2>3 DEF CursorInv, PendingTold
  <2>5. ~Ahead(st[p].batch[1].seq)
    BY <2>2, <2>3 DEF Ahead
  <2>6. p = 1
    BY <2>3, <2>4, <2>5 DEF OpenFrom
  <2> QED
    BY <1>3, <2>2, <2>6
<1> QED
  BY <1>3, <1>4, <1>5, <1>6, <1>7, <1>8, <1>9, WriterRests

\* Nothing is left behind the only element of a sequence.
LEMMA LastOne ==
  ASSUME NEW S, NEW s \in Seq(S), Len(s) = 1
  PROVE  Tail(s) = <<>>
<1>1. \A t \in Seq(S) : Len(t) = 0 => t = <<>>
  OBVIOUS
<1>2. Tail(s) \in Seq(S) /\ Len(Tail(s)) = 0
  OBVIOUS
<1> QED
  BY <1>1, <1>2

\* The head of the batch is dealt with.
LEMMA NextCarries ==
  ASSUME JournalInv, CursorInv, NEW p \in Streams, st[p].io \in {"rows", "retry"},
         NEW out, Increasing(out), st' = NextRow(p, out)
  PROVE  \E r : /\ st' = [st EXCEPT ![p] = r] /\ Carries(p, r) /\ ~Quiet(p)
                /\ wire' = wire => (Held(p)' => Held(p))
                /\ r.batch = Tail(st[p].batch) /\ r.buf = <<>> /\ r.frames = out
                /\ r.io \in {"idle", "rows"}
<1> DEFINE b == st[p].batch
<1>1. /\ st[p] \in StreamType /\ WriterTold(p) /\ ~Ready(p) /\ b # <<>>
      /\ b \in Seq(Frames) /\ st[p].buf = <<>>
  BY DEF JournalInv, StreamsOK, StreamOK, CursorInv, Ready, WriterTold, StreamType
<1>2. PICK r : r = [st[p] EXCEPT !.io = IF Len(b) = 1 THEN "idle" ELSE "rows",
                                 !.batch = Tail(b), !.frames = out, !.retry = 0,
                                 !.dropped = st[p].dropped \/ out = <<>>]
  OBVIOUS
<1>3. st' = [st EXCEPT ![p] = r]
  BY <1>2 DEF JournalInv, StreamsOK, NextRow
<1>4. /\ r.buf = st[p].buf /\ r.seq = st[p].seq /\ r.batch = Tail(b) /\ r.pc = st[p].pc
      /\ r.frames = out /\ r.io = IF Len(b) = 1 THEN "idle" ELSE "rows"
  BY <1>1, <1>2 DEF StreamType
<1>5. \A i \in DOMAIN Tail(b) : i + 1 \in DOMAIN b /\ Tail(b)[i] = b[i + 1]
  BY <1>1, TailOf
<1>6. Len(b) = 1 => Tail(b) = <<>>
  BY <1>1, LastOne
<1>7. /\ \A i \in DOMAIN r.batch : \E k \in DOMAIN b : r.batch[i] = b[k]
      /\ r.io = "idle" => r.batch = <<>>
      /\ r.io \in {"idle", "rows"}
  BY <1>4, <1>5, <1>6
<1>8. /\ st[p].io # "idle" \/ r.io = "idle"
      /\ \A i \in DOMAIN r.batch : \E k \in DOMAIN st[p].batch : r.batch[i] = st[p].batch[k]
      /\ r.io \in {"bulk", "retry"} => r.frames = <<>>
      /\ Increasing(r.frames)
  BY <1>4, <1>7
<1>9. Carries(p, r) /\ (wire' = wire => (Held(p)' => Held(p))) /\ ~Quiet(p)
  <2> HIDE DEF b
  <2> QED
    BY <1>1, <1>3, <1>4, <1>7, <1>8, CursorFlushes
<1> QED
  BY <1>1, <1>3, <1>4, <1>7, <1>9

\* An event of the fallback is given up.
LEMMA CursorGivesUp ==
  ASSUME JournalInv, JournalInv', CursorInv, NEW p \in Streams,
         st[p].io \in {"rows", "retry"}, st[p].frames = <<>>, st' = NextRow(p, <<>>),
         UNCHANGED <<wire, journal, row, cl, seen, lost, overlap>>
  PROVE  CursorInv'
<1>1. PICK r : /\ st' = [st EXCEPT ![p] = r] /\ Carries(p, r) /\ ~Quiet(p)
               /\ wire' = wire => (Held(p)' => Held(p))
               /\ r.frames = <<>> /\ r.io \in {"idle", "rows"}
  <2>1. Increasing(<<>>)
    BY DEF Increasing
  <2> QED
    BY <2>1, NextCarries
<1>2. Passes(p, r) /\ r.io # "retry"
  BY <1>1 DEF Passes
<1> QED
  BY <1>1, <1>2, WriterRests

\* A number that is pending and free is behind all rows, or was left free.
LEMMA PendingFree ==
  ASSUME CursorInv, Single, NEW p \in Streams, ~Quiet(p), NEW n \in Nat, StillHas(st[p], n),
         n \notin DOMAIN journal
  PROVE  Ahead(n) \/ (p = 1 /\ n < Len(wire[0]))
<1>1. OpenFrom(p, n)
  BY DEF CursorInv, PendingTold, StillHas
<1> QED
  BY <1>1 DEF OpenFrom

\* A batch is committed.
LEMMA CursorInserts ==
  ASSUME JournalInv, JournalInv', CursorInv, NEW p \in Streams, BulkInsert(p)
  PROVE  CursorInv'
<1> DEFINE b == st[p].batch
<1>1. /\ st[p] \in StreamType /\ StreamOK(st[p]) /\ WriterTold(p) /\ st[p].io = "bulk"
      /\ ~Ready(p) /\ b \in Seq(Frames) /\ b # <<>> /\ Increasing(b) /\ JournalOK
  BY DEF JournalInv, StreamsOK, StreamOK, StreamType, CursorInv, BulkInsert, Ready
<1>2. st[p].frames = <<>> /\ st[p].buf = <<>>
  BY <1>1 DEF WriterTold
<1>3. PICK r : r = [st[p] EXCEPT !.io = "idle", !.batch = <<>>, !.frames = b]
  OBVIOUS
<1>4. /\ r.pc = st[p].pc /\ r.seq = st[p].seq /\ r.buf = st[p].buf /\ r.io = "idle"
      /\ r.batch = <<>> /\ r.frames = b
  BY <1>1, <1>3 DEF StreamType
<1>5. st' = [st EXCEPT ![p] = r] /\ journal' = With(b)
      /\ \A i \in DOMAIN b : Vacant(b[i].seq)
      /\ UNCHANGED <<wire, row, cl, seen, lost, overlap>>
  BY <1>3 DEF JournalInv, StreamsOK, BulkInsert
<1>6. /\ st[p].io # "idle" \/ r.io = "idle"
      /\ \A i \in DOMAIN r.batch : \E k \in DOMAIN st[p].batch : r.batch[i] = st[p].batch[k]
      /\ r.io = "idle" => r.batch = <<>>
      /\ r.io \in {"bulk", "retry"} => r.frames = <<>>
      /\ Increasing(r.frames) /\ wire' = wire
  <2>1. st[p].io # "idle" /\ r.io \notin {"bulk", "retry"}
    BY <1>1, <1>4
  <2>2. Increasing(r.frames) /\ wire' = wire
    BY <1>1, <1>4, <1>5 DEF Increasing
  <2>3. \A i \in DOMAIN r.batch : \E k \in DOMAIN st[p].batch : r.batch[i] = st[p].batch[k]
    BY <1>4
  <2> QED
    BY <1>4, <2>1, <2>2, <2>3
<1>7. Carries(p, r) /\ (Held(p)' => Held(p)) /\ ~Quiet(p)
  BY <1>1, <1>4, <1>5, <1>6, CursorFlushes
<1>8. Kept
  BY <1>1, <1>5, WithCommits
<1>9. \A i \in DOMAIN b : /\ b[i].ev.by = p /\ b[i].seq <= st[p].seq
                          /\ b[i].seq \in Nat /\ StillHas(st[p], b[i].seq)
  <2>1. \A i \in DOMAIN b : b[i] \in Frames
    BY <1>1
  <2> QED
    BY <1>1, <2>1 DEF WriterTold, StillHas, Frames
<1>10. ASSUME Single, NEW i \in DOMAIN b
       PROVE  Ahead(b[i].seq) \/ (p = 1 /\ b[i].seq < Len(wire[0]))
  BY <1>5, <1>7, <1>9, <1>10, PendingFree DEF Vacant
<1>11. ASSUME NEW q \in Nat, NEW m \in Nat, StillHas(r, q), m >= q
       PROVE  \A i \in DOMAIN b : b[i].seq < m
  <2>1. q = st[p].seq + 1 /\ st[p].seq \in Nat \cup {-1}
    BY <1>1, <1>2, <1>4, <1>11 DEF StillHas, StreamType
  <2> QED
    BY <1>9, <1>11, <2>1
<1>12. Fits(p, r, b)
  BY <1>5, <1>9, <1>10, <1>11 DEF Fits
<1>14. r.io # "retry" /\ r.frames = b
  BY <1>4
<1>15. /\ b \in Seq(Frames) /\ st' = [st EXCEPT ![p] = r] /\ journal' = With(b)
       /\ UNCHANGED <<wire, row, cl, seen, lost, overlap>>
       /\ Carries(p, r) /\ (Held(p)' => Held(p)) /\ ~Quiet(p) /\ st[p].frames = <<>>
  BY <1>1, <1>2, <1>5, <1>7
<1> HIDE DEF b
<1> QED
  BY <1>8, <1>12, <1>14, <1>15, WriterWrites

\* An event of the fallback is committed, at its own number or behind the last row.
LEMMA CursorRow ==
  ASSUME JournalInv, JournalInv', CursorInv, NEW p \in Streams,
         st[p].io \in {"rows", "retry"}, st[p].frames = <<>>,
         NEW f \in Frames, f.ev = Head(st[p].batch).ev, Vacant(f.seq),
         journal' = With(<<f>>), st' = NextRow(p, <<f>>),
         UNCHANGED <<wire, row, cl, seen, lost, overlap>>,
         Single => \/ f.seq = Head(st[p].batch).seq
                   \/ p = 1 /\ f.seq = Latest + 1
  PROVE  CursorInv'
<1> DEFINE b == st[p].batch
<1>1. /\ st[p] \in StreamType /\ StreamOK(st[p]) /\ WriterTold(p) /\ JournalOK
      /\ b \in Seq(Frames) /\ b # <<>> /\ Increasing(b) /\ f.seq \in Nat
  BY DEF JournalInv, StreamsOK, StreamOK, StreamType, CursorInv, Frames
<1>2. /\ 1 \in DOMAIN b /\ Head(b) = b[1] /\ b[1] \in Frames
      /\ \A i \in DOMAIN Tail(b) : i \in Nat \ {0} /\ i + 1 \in DOMAIN b /\ Tail(b)[i] = b[i + 1]
  BY <1>1, TailOf
<1>3. PICK fs : fs = <<f>>
  OBVIOUS
<1>4. /\ fs \in Seq(Frames) /\ fs # <<>> /\ DOMAIN fs = {1} /\ fs[1] = f
      /\ Increasing(fs)
  BY <1>3 DEF Increasing
<1>5. PICK r : /\ st' = [st EXCEPT ![p] = r] /\ Carries(p, r) /\ ~Quiet(p)
               /\ wire' = wire => (Held(p)' => Held(p))
               /\ r.batch = Tail(b) /\ r.buf = <<>> /\ r.frames = fs
               /\ r.io \in {"idle", "rows"}
  BY <1>3, <1>4, NextCarries
<1>6. Kept
  BY <1>1, <1>3, <1>4, WithCommits
<1>7. /\ b[1].ev.by = p /\ b[1].seq <= st[p].seq /\ b[1].seq \in Nat
      /\ StillHas(st[p], b[1].seq)
  BY <1>1, <1>2 DEF WriterTold, StillHas, Frames
<1>8. ASSUME NEW q \in Nat, StillHas(r, q) PROVE q > b[1].seq
  <2>1. r.seq = st[p].seq /\ st[p].seq \in Nat \cup {-1}
    BY <1>1, <1>5 DEF Carries, StreamType
  <2>2. CASE q = r.seq + 1
    BY <1>7, <2>1, <2>2
  <2>3. CASE \E i \in DOMAIN Tail(b) : q = Tail(b)[i].seq
    <3>1. PICK i \in DOMAIN Tail(b) : q = Tail(b)[i].seq
      BY <2>3
    <3>2. q = b[i + 1].seq /\ 1 < i + 1 /\ i + 1 \in DOMAIN b
      BY <1>2, <3>1
    <3> QED
      BY <1>1, <1>2, <1>7, <3>2 DEF Increasing
  <2> QED
    BY <1>5, <1>8, <2>2, <2>3 DEF StillHas
<1>9. ASSUME Single, f.seq = Latest + 1, NEW m \in Nat
      PROVE  Ahead(f.seq) /\ (Ahead(m) => f.seq <= m)
  <2>1. Rows = DOMAIN journal
    BY <1>9 DEF Single, Rows
  <2>2. /\ Latest \in Nat \cup {-1}
        /\ DOMAIN journal # {} =>
             Latest \in DOMAIN journal /\ \A s \in DOMAIN journal : s <= Latest
    BY <1>1, <2>1, LatestIsRow
  <2>3. DOMAIN journal \subseteq Nat
    BY <1>1 DEF JournalOK
  <2>4. DOMAIN journal = {} => Latest = -1
    BY <2>1 DEF Latest
  <2>5. CASE DOMAIN journal = {}
    BY <1>9, <2>4, <2>5 DEF Ahead
  <2>6. CASE DOMAIN journal # {}
    BY <1>9, <2>2, <2>3, <2>6 DEF Ahead
  <2> QED
    BY <2>5, <2>6
<1>10. ASSUME Single
       PROVE  Ahead(f.seq) \/ (p = 1 /\ f.seq < Len(wire[0]))
  <2>1. CASE f.seq = b[1].seq
    BY <1>1, <1>5, <1>7, <1>10, <2>1, PendingFree DEF Vacant
  <2>2. CASE f.seq = Latest + 1
    BY <1>1, <1>9, <1>10, <2>2
  <2> QED
    BY <1>2, <1>10, <2>1, <2>2
<1>11. ASSUME Single, NEW q \in Nat, NEW m \in Nat, StillHas(r, q), m >= q, Ahead(m)
       PROVE  f.seq < m \/ (p = 1 /\ f.seq = m)
  <2>1. CASE f.seq = b[1].seq
    BY <1>7, <1>8, <1>11, <2>1
  <2>2. CASE p = 1 /\ f.seq = Latest + 1
    BY <1>1, <1>9, <1>11, <2>2
  <2> QED
    BY <1>2, <1>11, <2>1, <2>2
<1>12. Single /\ p = 0 => f.seq <= st[0].seq
  BY <1>2, <1>7
<1>13. Fits(p, r, fs)
  <2>1. f.ev.by = p
    BY <1>2, <1>7
  <2> QED
    BY <1>4, <1>10, <1>11, <1>12, <2>1 DEF Fits
<1>14. r.io # "retry" /\ journal' = With(fs) /\ (Held(p)' => Held(p))
  BY <1>3, <1>5
<1> HIDE DEF b
<1> QED
  BY <1>4, <1>5, <1>6, <1>13, <1>14, WriterWrites

\* One event of the fallback.
LEMMA CursorFallback ==
  ASSUME JournalInv, JournalInv', CursorInv, NEW p \in Streams,
         InsertRow(p) \/ RetryRow(p) \/ RowFails(p)
  PROVE  CursorInv'
<1> DEFINE b == st[p].batch
<1>1. st[p] \in StreamType /\ StreamOK(st[p]) /\ WriterTold(p)
  BY DEF JournalInv, StreamsOK, CursorInv
<1>2. st[p].io \in {"rows", "retry"} /\ st[p].frames = <<>>
  BY <1>1 DEF InsertRow, RetryRow, RowFails, WriterTold
<1>3. Head(b) \in Frames /\ Head(b) = b[1] /\ 1 \in DOMAIN b
  <2>1. b \in Seq(Frames) /\ b # <<>>
    BY <1>1, <1>2 DEF StreamType, StreamOK
  <2> QED
    BY <2>1
<1>4. CASE InsertRow(p)
  <2>1. PICK f : f = Head(b)
    OBVIOUS
  <2>2. /\ f \in Frames /\ f.ev = Head(b).ev /\ f.seq = Head(b).seq /\ Vacant(f.seq)
        /\ journal' = With(<<f>>) /\ st' = NextRow(p, <<f>>)
        /\ UNCHANGED <<wire, row, cl, seen, lost, overlap>>
    BY <1>3, <1>4, <2>1 DEF InsertRow
  <2> QED
    BY <1>2, <2>2, CursorRow
<1>5. CASE RetryRow(p)
  <2>1. PICK f : f = [Head(b) EXCEPT !.seq = st[p].retry]
    OBVIOUS
  <2>2. st[p].io = "retry" /\ UNCHANGED <<wire, row, cl, seen, lost, overlap>>
    BY <1>5 DEF RetryRow
  <2>3. f \in Frames /\ f.seq = st[p].retry /\ f.ev = Head(b).ev
    BY <1>1, <1>3, <2>1 DEF Frames, StreamType
  <2>4. Single => p = 1 /\ f.seq = Latest + 1
    <3>1. ~Quiet(p)
      BY <2>2 DEF Quiet, Ready
    <3> QED
      BY <2>2, <2>3, <3>1 DEF CursorInv, PendingTold
  <2>5. CASE Vacant(f.seq)
    <3>1. journal' = With(<<f>>) /\ st' = NextRow(p, <<f>>)
      BY <1>5, <2>1, <2>5 DEF RetryRow
    <3> QED
      BY <1>2, <2>2, <2>3, <2>4, <2>5, <3>1, CursorRow
  <2>6. CASE ~Vacant(f.seq)
    <3>1. UNCHANGED journal /\ st' = NextRow(p, <<>>)
      BY <1>5, <2>1, <2>6 DEF RetryRow
    <3> QED
      BY <1>2, <2>2, <3>1, CursorGivesUp
  <2> QED
    BY <2>5, <2>6
<1>6. CASE RowFails(p)
  BY <1>2, <1>6, CursorGivesUp DEF RowFails
<1> QED
  BY <1>4, <1>5, <1>6

\* Stream p goes on as r, and the head of its frames is dealt with.
Publishes(p, r) ==
  /\ st' = [st EXCEPT ![p] = r] /\ Carries(p, r) /\ ~Quiet(p)
  /\ Held(p)' => Held(p)
  /\ r.io = st[p].io /\ r.io # "retry" /\ r.frames = Tail(st[p].frames)
  /\ 1 \in DOMAIN st[p].frames /\ Head(st[p].frames) = st[p].frames[1]
  /\ Head(st[p].frames) \in Frames
  /\ \A k \in DOMAIN st[p].frames :
       \/ k = 1
       \/ k - 1 \in DOMAIN r.frames /\ r.frames[k - 1] = st[p].frames[k]
  /\ \A j \in DOMAIN r.frames :
       /\ j + 1 \in DOMAIN st[p].frames /\ j + 1 > 1
       /\ r.frames[j] = st[p].frames[j + 1]

\* A publish leaves the rest of the frames as they were.
LEMMA Published ==
  ASSUME JournalInv, CursorInv, NEW p \in Streams, st[p].frames # <<>>,
         st' = [st EXCEPT ![p].frames = Tail(@)], wire' = wire
  PROVE  \E r : Publishes(p, r)
<1>1. PICK fs : fs = st[p].frames
  OBVIOUS
<1>2. st[p] \in StreamType /\ WriterTold(p) /\ ~Ready(p) /\ fs \in Seq(Frames) /\ fs # <<>>
  BY <1>1 DEF JournalInv, StreamsOK, CursorInv, Ready, StreamType
<1>3. PICK r : r = [st[p] EXCEPT !.frames = Tail(fs)]
  OBVIOUS
<1>4. /\ r.pc = st[p].pc /\ r.seq = st[p].seq /\ r.buf = st[p].buf /\ r.io = st[p].io
      /\ r.batch = st[p].batch /\ r.frames = Tail(fs)
  BY <1>2, <1>3 DEF StreamType
<1>5. st' = [st EXCEPT ![p] = r]
  BY <1>1, <1>3 DEF JournalInv, StreamsOK
<1>6. r.io \notin {"bulk", "retry"} /\ (r.io = "idle" => r.batch = <<>>) /\ Increasing(fs)
  BY <1>1, <1>2, <1>4 DEF WriterTold
<1>7. Increasing(Tail(fs)) /\ Head(fs) \in Frames /\ 1 \in DOMAIN fs /\ Head(fs) = fs[1]
  BY <1>2, <1>6, TailOf
<1>8. /\ \A k \in DOMAIN fs : k = 1 \/ (k - 1 \in DOMAIN Tail(fs) /\ Tail(fs)[k - 1] = fs[k])
      /\ \A j \in DOMAIN Tail(fs) : j + 1 \in DOMAIN fs /\ j + 1 > 1 /\ Tail(fs)[j] = fs[j + 1]
  BY <1>2
<1>9. /\ st[p].io # "idle" \/ r.io = "idle"
      /\ \A i \in DOMAIN r.batch : \E k \in DOMAIN st[p].batch : r.batch[i] = st[p].batch[k]
      /\ r.io = "idle" => r.batch = <<>>
      /\ r.io \in {"bulk", "retry"} => r.frames = <<>>
      /\ Increasing(r.frames)
  BY <1>4, <1>6, <1>7
<1>10. Carries(p, r) /\ (Held(p)' => Held(p)) /\ ~Quiet(p)
  BY <1>2, <1>4, <1>5, <1>9, CursorFlushes
<1>11. /\ r.frames = Tail(st[p].frames)
       /\ 1 \in DOMAIN st[p].frames /\ Head(st[p].frames) = st[p].frames[1]
       /\ Head(st[p].frames) \in Frames
  BY <1>1, <1>4, <1>7
<1>12. /\ \A k \in DOMAIN st[p].frames :
            \/ k = 1
            \/ k - 1 \in DOMAIN r.frames /\ r.frames[k - 1] = st[p].frames[k]
       /\ \A j \in DOMAIN r.frames :
            /\ j + 1 \in DOMAIN st[p].frames /\ j + 1 > 1
            /\ r.frames[j] = st[p].frames[j + 1]
  BY <1>1, <1>4, <1>8
<1>13. r.io = st[p].io /\ r.io # "retry"
  BY <1>4, <1>6
<1>14. Publishes(p, r)
  BY <1>5, <1>10, <1>11, <1>12, <1>13 DEF Publishes
<1> QED
  BY <1>14

\* A frame is published to nobody, or lost.
LEMMA CursorUnheard ==
  ASSUME JournalInv, JournalInv', CursorInv, NEW p \in Streams,
         (Publish(p) /\ ~Listening) \/ PublishLost(p)
  PROVE  CursorInv'
<1>1. /\ st[p].frames # <<>> /\ st' = [st EXCEPT ![p].frames = Tail(@)]
      /\ UNCHANGED <<wire, journal, row, cl, seen, overlap>> /\ lost \subseteq lost'
      /\ ~Listening \/ Head(st[p].frames).seq \in lost'
  BY DEF Publish, PublishLost
<1>0. PICK r : Publishes(p, r)
  BY <1>1, Published
<1>2. /\ st' = [st EXCEPT ![p] = r] /\ Carries(p, r) /\ ~Quiet(p)
      /\ Held(p)' => Held(p)
      /\ r.io # "retry" /\ Head(st[p].frames) = st[p].frames[1]
      /\ \A k \in DOMAIN st[p].frames :
           \/ k = 1
           \/ k - 1 \in DOMAIN r.frames /\ r.frames[k - 1] = st[p].frames[k]
      /\ \A j \in DOMAIN r.frames :
           j + 1 \in DOMAIN st[p].frames /\ r.frames[j] = st[p].frames[j + 1]
  BY <1>0 DEF Publishes
<1>3. Tailing => Listening
  BY DEF Tailing, Listening
<1>4. Passes(p, r)
  BY <1>1, <1>2, <1>3 DEF Passes
<1> QED
  BY <1>1, <1>2, <1>4, WriterRests

\* A frame reaches the reader.
LEMMA CursorHeard ==
  ASSUME JournalInv, JournalInv', CursorInv, NEW p \in Streams, Publish(p), Listening
  PROVE  CursorInv'
<1>1. /\ st[p].frames # <<>> /\ st' = [st EXCEPT ![p].frames = Tail(@)]
      /\ UNCHANGED <<wire, journal, row, seen, lost, overlap>>
      /\ cl' = [cl EXCEPT !.inbox = Append(@, Head(st[p].frames))]
  BY DEF Publish
<1>0. PICK r : Publishes(p, r)
  BY <1>1, Published
<1>2. /\ st' = [st EXCEPT ![p] = r] /\ Carries(p, r) /\ ~Quiet(p)
      /\ Held(p)' => Held(p)
      /\ r.io # "retry" /\ r.io = st[p].io
      /\ 1 \in DOMAIN st[p].frames /\ Head(st[p].frames) = st[p].frames[1]
      /\ Head(st[p].frames) \in Frames
      /\ \A k \in DOMAIN st[p].frames :
           \/ k = 1
           \/ k - 1 \in DOMAIN r.frames /\ r.frames[k - 1] = st[p].frames[k]
      /\ \A j \in DOMAIN r.frames :
           /\ j + 1 \in DOMAIN st[p].frames /\ j + 1 > 1
           /\ r.frames[j] = st[p].frames[j + 1]
  BY <1>0 DEF Publishes
<1>3. PICK f : f = st[p].frames[1]
  OBVIOUS
<1>4. /\ cl'.mode = "open" /\ cl.mode = "open" /\ cl'.base = cl.base /\ cl'.cursor = cl.cursor
      /\ cl'.subscribed = cl.subscribed /\ cl'.loaded = cl.loaded
      /\ cl'.inbox = Append(cl.inbox, f) /\ cl.inbox \in Seq(Frames)
  BY <1>1, <1>2, <1>3 DEF JournalInv, ClientOK, ClientType, Listening
<1>5. /\ DOMAIN cl'.inbox = 1..(Len(cl.inbox) + 1)
      /\ \A i \in DOMAIN cl.inbox : i \in DOMAIN cl'.inbox /\ cl'.inbox[i] = cl.inbox[i]
      /\ cl'.inbox[Len(cl.inbox) + 1] = f /\ Len(cl.inbox) + 1 \in DOMAIN cl'.inbox
      /\ \A i \in DOMAIN cl'.inbox : i \in DOMAIN cl.inbox \/ i = Len(cl.inbox) + 1
      /\ \A i, j \in DOMAIN cl'.inbox : i < j => i \in DOMAIN cl.inbox
  BY <1>2, <1>3, <1>4
<1>6. /\ st'[p] = r /\ \A q \in Streams : q # p => st'[q] = st[q]
      /\ 0 \in Streams /\ 1 \in Streams /\ \A q \in Streams : q = 0 \/ q = 1
  BY <1>2 DEF JournalInv, StreamsOK, Streams
<1>7. st[p].pc \notin {"none", "dead"}
      /\ (Single => \A q \in Streams : q # p => Quiet(q) /\ ~Held(q))
  BY <1>2, AtWork
<1>8. Grows
  <2>1. \A q \in Streams : Held(q)' => Held(q)
    BY <1>2, <1>6 DEF Held, Ready
  <2> QED
    BY <1>1, <2>1 DEF Grows, Kept, Sent
<1>9. \A q \in Streams : WriterTold(q)'
  <2>1. WriterTold(p)'
    BY <1>1, <1>2, <1>6, CarriesTold
  <2>2. ASSUME NEW q \in Streams, q # p PROVE WriterTold(q)'
    BY <1>1, <1>6, <2>2, WriterStays DEF CursorInv
  <2> QED
    BY <2>1, <2>2
<1>10. WireTold'
  <2>0. WireTold
    BY DEF CursorInv
  <2>1. Numbered(0, 0)' /\ st'[0].pc # "none"
    BY <1>1, <1>2, <1>6, <1>7, <2>0 DEF WireTold, Numbered, Carries
  <2>2. st'[1].pc = "none" => Unstarted(1)' /\ ~overlap'
    <3>1. CASE p = 1
      BY <1>2, <1>6, <3>1 DEF Carries
    <3>2. CASE p # 1
      BY <1>1, <1>6, <2>0, <3>2 DEF WireTold, Unstarted
    <3> QED
      BY <3>1, <3>2
  <2>3. st'[1].pc # "none" => overlap' \/ Quiet(0)'
    <3>1. CASE p = 0
      BY <1>1, <1>2, <1>6, <2>0, <3>1 DEF WireTold
    <3>2. CASE p = 1
      BY <1>1, <1>6, <1>7, <2>0, <3>2 DEF WireTold, Quiet, Ready
    <3> QED
      BY <1>6, <3>1, <3>2
  <2> QED
    BY <1>4, <2>1, <2>2, <2>3 DEF WireTold
<1>11. ASSUME Single'
       PROVE  /\ RowsTold' /\ \A q \in Streams : PendingTold(q)'
              /\ LineTold' /\ TailTold' /\ CursorTold'
  <2>0. /\ Single /\ RowsTold /\ LineTold /\ TailTold /\ CursorTold
        /\ \A q \in Streams : PendingTold(q)
    BY <1>1, <1>11 DEF Single, CursorInv
  <2>1. RowsTold'
    BY <1>1, <1>2, <1>6, <1>7, <2>0 DEF RowsTold, Carries
  <2>2. ASSUME NEW q \in Streams PROVE PendingTold(q)'
    <3>1. \A n : OpenFrom(q, n) => OpenFrom(q, n)'
      BY <1>1 DEF OpenFrom, Ahead
    <3>2. CASE q = p
      <4>1. /\ OpenFrom(p, r.seq + 1)
            /\ \A i \in DOMAIN r.batch : OpenFrom(p, r.batch[i].seq)
            /\ \A i \in DOMAIN r.buf : OpenFrom(p, r.buf[i].seq)
        BY <1>2, <2>0 DEF PendingTold, Carries
      <4>2. /\ OpenFrom(p, r.seq + 1)'
            /\ \A i \in DOMAIN r.batch : OpenFrom(p, r.batch[i].seq)'
            /\ \A i \in DOMAIN r.buf : OpenFrom(p, r.buf[i].seq)'
        BY <3>1, <3>2, <4>1
      <4> QED
        BY <1>2, <1>6, <3>2, <4>2 DEF PendingTold, OpenFrom
    <3>3. CASE q # p
      BY <1>6, <1>7, <2>0, <3>3 DEF PendingTold, Quiet, Ready
    <3> QED
      BY <3>2, <3>3
  <2>3. LineTold'
    <3>1. \A g, h : After(g, h) => After(g, h)'
      <4> SUFFICES ASSUME NEW g, NEW h, After(g, h) PROVE After(g, h)'
        OBVIOUS
      <4>1. PICK s : s = h.seq
        OBVIOUS
      <4>2. Excused(s) => Excused(s)'
        BY <1>8, ExcusedStays
      <4> QED
        BY <4>1, <4>2 DEF After, Excused
    <3>2. ASSUME NEW i \in DOMAIN cl'.inbox, NEW j \in DOMAIN cl'.inbox, i < j
          PROVE  After(cl'.inbox[i], cl'.inbox[j])
      <4>1. i \in DOMAIN cl.inbox /\ cl'.inbox[i] = cl.inbox[i]
        BY <1>5, <3>2
      <4>2. CASE j \in DOMAIN cl.inbox
        BY <1>5, <2>0, <3>2, <4>1, <4>2 DEF LineTold
      <4>3. CASE j = Len(cl.inbox) + 1
        <5>1. After(cl.inbox[i], st[p].frames[1])
          BY <1>2, <2>0, <4>1 DEF LineTold
        <5> QED
          BY <1>3, <1>5, <4>1, <4>3, <5>1
      <4> QED
        BY <1>5, <4>2, <4>3
    <3>3. ASSUME NEW q \in Streams, NEW i \in DOMAIN cl'.inbox, NEW j \in DOMAIN st'[q].frames
          PROVE  After(cl'.inbox[i], st'[q].frames[j])
      <4>1. q = p /\ j \in DOMAIN r.frames /\ j + 1 \in DOMAIN st[p].frames /\ 1 < j + 1
            /\ st'[q].frames[j] = st[p].frames[j + 1]
        <5>1. q # p => st'[q].frames = <<>>
          BY <1>6, <1>7, <2>0 DEF Quiet, Ready
        <5>2. q = p
          BY <3>3, <5>1
        <5>3. st'[q].frames = r.frames
          BY <1>6, <5>2
        <5> QED
          BY <1>2, <3>3, <5>2, <5>3
      <4>2. CASE i \in DOMAIN cl.inbox
        BY <1>5, <2>0, <4>1, <4>2 DEF LineTold
      <4>3. CASE i = Len(cl.inbox) + 1
        <5>1. Increasing(st[p].frames)
          BY DEF CursorInv, WriterTold
        <5>2. f.seq < st[p].frames[j + 1].seq
          BY <1>2, <1>3, <4>1, <5>1 DEF Increasing
        <5> QED
          BY <1>5, <4>1, <4>3, <5>2 DEF After
      <4> QED
        BY <1>5, <4>2, <4>3
    <3>4. /\ \A i, j \in DOMAIN cl'.inbox : i < j =>
               cl'.inbox[i].seq < cl'.inbox[j].seq \/ Excused(cl.inbox[j].seq)'
          /\ \A q \in Streams : \A i \in DOMAIN cl'.inbox : \A j \in DOMAIN st'[q].frames :
               cl'.inbox[i].seq < st'[q].frames[j].seq \/ Excused(st[q].frames[j].seq)'
      BY <3>1, <3>2, <3>3 DEF After, Excused
    <3> QED
      BY <3>4 DEF LineTold, After
  <2>4. TailTold'
    <3> SUFFICES ASSUME Tailing, NEW s \in DOMAIN journal, s > cl.cursor, s \notin lost
                 PROVE  Coming(s)'
      BY <1>1, <1>4 DEF TailTold, Tailing, Coming
    <3>1. Coming(s)
      BY <2>0 DEF TailTold
    <3>2. CASE \E i \in DOMAIN cl.inbox : cl.inbox[i].seq = s
      BY <1>5, <3>2 DEF Coming
    <3>3. ASSUME NEW q \in Streams, NEW k \in DOMAIN st[q].frames, st[q].frames[k].seq = s
          PROVE  Coming(s)'
      <4>1. q = p
        BY <1>7, <2>0, <3>3 DEF Quiet, Ready
      <4>2. CASE k = 1
        BY <1>3, <1>5, <3>3, <4>1, <4>2 DEF Coming
      <4>3. CASE k - 1 \in DOMAIN r.frames /\ r.frames[k - 1] = st[p].frames[k]
        BY <1>6, <3>3, <4>1, <4>3 DEF Coming
      <4> QED
        BY <1>2, <3>3, <4>1, <4>2, <4>3
    <3> QED
      BY <3>1, <3>2, <3>3 DEF Coming
  <2>5. CursorTold'
    BY <1>1, <1>4, <1>8, <2>0, CursorStays
  <2> QED
    BY <2>1, <2>2, <2>3, <2>4, <2>5
<1> QED
  BY <1>9, <1>10, <1>11 DEF CursorInv

\* Stream p goes on as r at `next`, with f emitted.
Emits(p, next, r, f) ==
  /\ st' = [st EXCEPT ![p] = r] /\ r.pc = next /\ r.seq = f.seq
  /\ wire' = [wire EXCEPT ![p] = Append(wire[p], f)]
  /\ f \in Frames /\ f.seq = st[p].seq + 1 /\ f.ev.by = p
  /\ r.frames = st[p].frames
  /\ \/ r.io = st[p].io /\ r.batch = st[p].batch
     \/ r.io = "bulk" /\ r.buf = <<>>
  /\ \A i \in DOMAIN r.batch :
       \/ r.batch[i] = f
       \/ \E k \in DOMAIN st[p].buf : r.batch[i] = st[p].buf[k]
       \/ \E k \in DOMAIN st[p].batch : r.batch[i] = st[p].batch[k]
  /\ \A i \in DOMAIN r.buf :
       r.buf[i] = f \/ \E k \in DOMAIN st[p].buf : r.buf[i] = st[p].buf[k]

\* An emitted event is pending, or in the batch to be written.
LEMMA Emitted ==
  ASSUME StreamsOK, wire \in [Streams -> Seq(Frames)], NEW p \in Streams,
         NEW kind \in Kinds, NEW next \in Places, Emit(p, kind, next)
  PROVE  \E r, f : Emits(p, next, r, f)
<1>1. PICK f : f = [seq |-> st[p].seq + 1,
                    ev  |-> [by |-> p, n |-> Len(wire[p]) + 1, kind |-> kind]]
  OBVIOUS
<1>2. PICK buf : buf = IF st[p].missing THEN <<>> ELSE Append(st[p].buf, f)
  OBVIOUS
<1>3. StreamOK(st[p]) /\ st[p] \in StreamType
  BY DEF StreamsOK
<1>4. f \in Frames /\ f.seq = st[p].seq + 1 /\ f.ev.by = p
  <2>1. Len(wire[p]) + 1 \in Nat /\ st[p].seq + 1 \in Nat
    BY <1>3 DEF StreamType
  <2> QED
    BY <1>1, <2>1 DEF Frames, Events
<1>5. \A i \in DOMAIN buf : buf[i] = f \/ \E k \in DOMAIN st[p].buf : buf[i] = st[p].buf[k]
  <2>1. st[p].buf \in Seq(Frames)
    BY <1>3 DEF StreamType
  <2>2. \A i \in DOMAIN Append(st[p].buf, f) :
          \/ Append(st[p].buf, f)[i] = f
          \/ i \in DOMAIN st[p].buf /\ Append(st[p].buf, f)[i] = st[p].buf[i]
    BY <1>4, <2>1
  <2> QED
    BY <1>2, <2>2
<1>6. wire' = [wire EXCEPT ![p] = Append(wire[p], f)]
  BY <1>1 DEF Emit
<1>7. \/ st' = [st EXCEPT ![p].pc = next, ![p].seq = f.seq, ![p].buf = buf]
      \/ st' = [st EXCEPT ![p].pc = next, ![p].seq = f.seq, ![p].buf = <<>>,
                          ![p].batch = buf, ![p].io = "bulk"]
  BY <1>1, <1>2 DEF Emit
<1>8. CASE st' = [st EXCEPT ![p].pc = next, ![p].seq = f.seq, ![p].buf = buf]
  <2>1. PICK r : r = [st[p] EXCEPT !.pc = next, !.seq = f.seq, !.buf = buf]
    OBVIOUS
  <2>2. /\ r.buf = buf /\ r.seq = f.seq /\ r.io = st[p].io /\ r.pc = next
        /\ r.batch = st[p].batch /\ r.frames = st[p].frames
    BY <1>3, <2>1 DEF StreamType
  <2>3. st' = [st EXCEPT ![p] = r]
    BY <1>8, <2>1 DEF StreamsOK
  <2>4. /\ \A i \in DOMAIN r.batch : \E k \in DOMAIN st[p].batch : r.batch[i] = st[p].batch[k]
        /\ \A i \in DOMAIN r.buf :
             r.buf[i] = f \/ \E k \in DOMAIN st[p].buf : r.buf[i] = st[p].buf[k]
    BY <1>5, <2>2
  <2>5. Emits(p, next, r, f)
    BY <1>4, <1>6, <2>2, <2>3, <2>4 DEF Emits
  <2> QED
    BY <2>5
<1>9. CASE st' = [st EXCEPT ![p].pc = next, ![p].seq = f.seq, ![p].buf = <<>>,
                            ![p].batch = buf, ![p].io = "bulk"]
  <2>1. PICK r : r = [st[p] EXCEPT !.pc = next, !.seq = f.seq, !.buf = <<>>,
                                   !.batch = buf, !.io = "bulk"]
    OBVIOUS
  <2>2. /\ r.buf = <<>> /\ r.batch = buf /\ r.frames = st[p].frames
        /\ r.seq = f.seq /\ r.io = "bulk" /\ r.pc = next
    BY <1>3, <2>1 DEF StreamType
  <2>3. st' = [st EXCEPT ![p] = r]
    BY <1>9, <2>1 DEF StreamsOK
  <2>4. /\ \A i \in DOMAIN r.batch :
             r.batch[i] = f \/ \E k \in DOMAIN st[p].buf : r.batch[i] = st[p].buf[k]
        /\ DOMAIN r.buf = {}
    BY <1>5, <2>2
  <2>5. Emits(p, next, r, f)
    BY <1>4, <1>6, <2>2, <2>3, <2>4 DEF Emits
  <2> QED
    BY <2>5
<1> QED
  BY <1>7, <1>8, <1>9

\* An event is emitted.
LEMMA CursorEmit ==
  ASSUME JournalInv, JournalInv', CursorInv, NEW p \in Streams, NEW kind \in Kinds,
         NEW next \in Places, next \notin {"none", "dead", "done"}, Emit(p, kind, next),
         st[p].pc \notin {"none", "dead", "done"}
  PROVE  CursorInv'
<1>0. PICK r, f : Emits(p, next, r, f)
  BY Emitted DEF JournalInv, RestOK
<1>1. /\ st' = [st EXCEPT ![p] = r] /\ r.pc = next /\ r.seq = f.seq
      /\ wire' = [wire EXCEPT ![p] = Append(wire[p], f)]
      /\ f \in Frames /\ f.seq = st[p].seq + 1 /\ f.ev.by = p
      /\ r.frames = st[p].frames
      /\ \/ r.io = st[p].io /\ r.batch = st[p].batch
         \/ r.io = "bulk" /\ r.buf = <<>>
      /\ \A i \in DOMAIN r.batch :
           \/ r.batch[i] = f
           \/ \E k \in DOMAIN st[p].buf : r.batch[i] = st[p].buf[k]
           \/ \E k \in DOMAIN st[p].batch : r.batch[i] = st[p].batch[k]
      /\ \A i \in DOMAIN r.buf :
           r.buf[i] = f \/ \E k \in DOMAIN st[p].buf : r.buf[i] = st[p].buf[k]
  BY <1>0 DEF Emits
<1>2. /\ Ready(p) /\ UNCHANGED <<journal, row, cl, seen, lost, overlap>>
      /\ st[p].io = "idle" /\ st[p].frames = <<>> /\ ~Quiet(p)
  BY DEF Emit, Ready, Quiet
<1>3. /\ WriterTold(p) /\ StreamOK(st[p]) /\ st[p] \in StreamType /\ st[p].batch = <<>>
      /\ st[p].seq \in Nat \cup {-1}
  BY <1>2 DEF CursorInv, JournalInv, StreamsOK, WriterTold, StreamType
<1>4. /\ st'[p] = r /\ \A q \in Streams : q # p => st'[q] = st[q] /\ wire'[q] = wire[q]
      /\ wire'[p] = Append(wire[p], f)
      /\ 0 \in Streams /\ 1 \in Streams /\ \A q \in Streams : q = 0 \/ q = 1
  BY <1>1 DEF JournalInv, StreamsOK, RestOK, Streams
<1>5. /\ Len(wire[p]) \in Nat /\ DOMAIN wire[p] = 1..Len(wire[p])
      /\ DOMAIN wire'[p] = 1..(Len(wire[p]) + 1) /\ Len(wire'[p]) = Len(wire[p]) + 1
      /\ \A i \in DOMAIN wire[p] : wire'[p][i] = wire[p][i]
      /\ wire'[p][Len(wire[p]) + 1] = f
  <2>1. wire[p] \in Seq(Frames)
    BY DEF JournalInv, RestOK
  <2> QED
    BY <1>1, <1>4, <2>1
<1>6. Grows
  <2>1. ASSUME NEW q \in Streams, NEW i \in DOMAIN wire[q], Sent(q, i)
        PROVE  i \in DOMAIN wire'[q] /\ Sent(q, i)' /\ wire'[q][i] = wire[q][i]
    <3>1. CASE q = p
      BY <1>5, <3>1 DEF Sent
    <3>2. CASE q # p
      BY <1>4, <2>1, <3>2 DEF Sent, Held, Ready
    <3> QED
      BY <3>1, <3>2
  <2> QED
    BY <1>2, <2>1 DEF Grows, Kept
<1>7. \A b \in Int : Numbered(p, b) => Numbered(p, b)'
  <2> SUFFICES ASSUME NEW b \in Int, Numbered(p, b) PROVE Numbered(p, b)'
    OBVIOUS
  <2>1. /\ \A i \in DOMAIN wire[p] : wire[p][i].seq = b + i - 1
        /\ st[p].seq = b + Len(wire[p]) - 1
    BY DEF Numbered
  <2>2. f.seq = b + (Len(wire[p]) + 1) - 1
    BY <1>1, <1>5, <2>1
  <2>3. \A i \in DOMAIN wire'[p] : i \in DOMAIN wire[p] \/ i = Len(wire[p]) + 1
    BY <1>5
  <2>4. \A i \in DOMAIN wire'[p] : wire'[p][i].seq = b + i - 1
    BY <1>5, <2>1, <2>2, <2>3
  <2> QED
    BY <1>1, <1>4, <1>5, <2>2, <2>4 DEF Numbered
<1>8. WriterTold(p)'
  <2>1. \A k \in DOMAIN st[p].buf : st[p].buf[k].seq <= f.seq /\ st[p].buf[k].ev.by = p
    <3>1. \A k \in DOMAIN st[p].buf : st[p].buf[k] \in Frames
      BY <1>3 DEF StreamType
    <3>2. \A k \in DOMAIN st[p].buf : /\ st[p].buf[k].seq \in Nat
                                      /\ st[p].buf[k].seq <= st[p].seq /\ st[p].buf[k].ev.by = p
      BY <1>3, <3>1 DEF WriterTold, StreamOK, Frames
    <3> QED
      BY <1>1, <1>3, <3>2
  <2>2. f.seq <= f.seq
    BY <1>1, <1>3
  <2>3. /\ \A i \in DOMAIN r.batch : r.batch[i].seq <= r.seq /\ r.batch[i].ev.by = p
        /\ \A i \in DOMAIN r.buf : r.buf[i].ev.by = p
    BY <1>1, <1>3, <2>1, <2>2
  <2>4. \A i \in DOMAIN wire'[p] : wire'[p][i].ev.by = p
    <3>1. \A i \in DOMAIN wire'[p] : i \in DOMAIN wire[p] \/ i = Len(wire[p]) + 1
      BY <1>5
    <3> QED
      BY <1>1, <1>3, <1>5, <3>1 DEF WriterTold
  <2>5. /\ r.io = "idle" => r.batch = <<>>
        /\ r.io # "idle" => r.buf = <<>>
        /\ r.frames = <<>>
    BY <1>1, <1>2, <1>3
  <2> QED
    BY <1>1, <1>4, <2>3, <2>4, <2>5 DEF WriterTold, Increasing
<1>9. ASSUME Single, Single'
      PROVE  RowsTold' /\ PendingTold(p)' /\ Writes(p, r) /\ Passes(p, r)
  <2>1. RowsTold /\ PendingTold(p) /\ WireTold
    BY <1>9 DEF CursorInv
  <2>2. RowsTold'
    <3> SUFFICES ASSUME st'[1].pc = "none", NEW s \in DOMAIN journal
                 PROVE  s <= Len(wire'[0]) /\ s < Len(wire'[0])
      BY <1>2 DEF RowsTold
    <3>1. p = 0 /\ st[1].pc = "none" /\ st[0].pc # "dead"
      BY <1>1, <1>4
    <3>2. s < Len(wire[0]) /\ s \in Nat
      BY <2>1, <3>1 DEF RowsTold, JournalInv, JournalOK
    <3> QED
      BY <1>5, <3>1, <3>2
  <2>3. Len(wire[0]) <= Len(wire'[0]) /\ Len(wire[0]) \in Nat /\ Len(wire'[0]) \in Nat
    <3>1. wire[0] \in Seq(Frames)
      BY <1>4 DEF JournalInv, RestOK
    <3>2. Len(wire[0]) \in Nat
      BY <3>1
    <3>3. CASE p = 0
      BY <1>5, <3>2, <3>3
    <3>4. CASE p # 0
      BY <1>4, <3>2, <3>4
    <3> QED
      BY <3>3, <3>4
  <2>4. ASSUME NEW n, NEW k \in Nat, OpenFrom(p, n), n \in Nat, k >= n PROVE OpenFrom(p, k)'
    <3> SUFFICES ASSUME NEW m \in Nat, m >= k
                 PROVE  Ahead(m) \/ (p = 1 /\ (m \in DOMAIN journal \/ m < Len(wire'[0])))
      BY <1>2 DEF OpenFrom, Ahead
    <3>1. Ahead(m) \/ (p = 1 /\ (m \in DOMAIN journal \/ m < Len(wire[0])))
      BY <2>4 DEF OpenFrom
    <3> QED
      BY <2>3, <3>1
  <2>5. PICK t : t = st[p]
    OBVIOUS
  <2>8. \A k \in DOMAIN t.buf : OpenFrom(p, t.buf[k].seq)'
    <3>1. \A k \in DOMAIN t.buf : t.buf[k] \in Frames
      BY <1>3, <2>5 DEF StreamType
    <3>2. \A k \in DOMAIN t.buf : t.buf[k].seq \in Nat /\ t.buf[k].seq >= t.buf[k].seq
      BY <3>1 DEF Frames
    <3>3. \A k \in DOMAIN t.buf : OpenFrom(p, t.buf[k].seq)
      BY <1>2, <2>1, <2>5 DEF PendingTold
    <3> QED
      BY <2>4, <3>2, <3>3
  <2>6. OpenFrom(p, f.seq)' /\ OpenFrom(p, f.seq + 1)'
    <3>1. f.seq \in Nat /\ f.seq + 1 \in Nat /\ f.seq >= f.seq /\ f.seq + 1 >= f.seq
      BY <1>1 DEF Frames
    <3>2. OpenFrom(p, f.seq)
      BY <1>1, <1>2, <2>1 DEF PendingTold
    <3> QED
      BY <2>4, <3>1, <3>2
  <2>7. PendingTold(p)'
    <3>1. /\ \A i \in DOMAIN r.batch :
               r.batch[i] = f \/ \E k \in DOMAIN t.buf : r.batch[i] = t.buf[k]
          /\ \A i \in DOMAIN r.buf : r.buf[i] = f \/ \E k \in DOMAIN t.buf : r.buf[i] = t.buf[k]
      BY <1>1, <1>3, <2>5
    <3>2. ASSUME NEW g, g = f \/ \E k \in DOMAIN t.buf : g = t.buf[k]
          PROVE  OpenFrom(p, g.seq)'
      BY <2>6, <2>8, <3>2
    <3>3. /\ \A i \in DOMAIN r.batch : OpenFrom(p, r.batch[i].seq)'
          /\ \A i \in DOMAIN r.buf : OpenFrom(p, r.buf[i].seq)'
      BY <3>1, <3>2
    <3>4. OpenFrom(p, r.seq + 1)' /\ r.io # "retry"
      BY <1>1, <1>2, <2>6
    <3> QED
      BY <1>4, <3>3, <3>4 DEF PendingTold, OpenFrom
  <2> QED
    BY <1>1, <1>2, <2>2, <2>7 DEF Writes, Passes
<1>10. UNCHANGED <<cl, overlap>> /\ (row' # "gone" => row # "gone") /\ r.pc # "none"
  BY <1>1, <1>2
<1> QED
  BY <1>1, <1>2, <1>4, <1>6, <1>7, <1>8, <1>9, <1>10, StreamMoves

\* The generator emits.
LEMMA CursorEmits ==
  ASSUME JournalInv, JournalInv', CursorInv, NEW p \in Streams,
         EmitData(p) \/ EmitAgentError(p) \/ EmitTail(p)
  PROVE  CursorInv'
<1>1. CASE EmitData(p)
  BY <1>1, CursorEmit DEF EmitData, Kinds, Places
<1>2. CASE EmitAgentError(p)
  BY <1>2, CursorEmit DEF EmitAgentError, Kinds, Places
<1>3. CASE EmitTail(p)
  <2>1. CASE st[p].pc = "pausing" /\ Emit(p, "pause", "closing")
    BY <2>1, CursorEmit DEF Kinds, Places
  <2>2. CASE st[p].pc = "closing" /\ Emit(p, "data", "ending")
    BY <2>2, CursorEmit DEF Kinds, Places
  <2>3. CASE st[p].pc = "ending" /\ Emit(p, "end", "close")
    BY <2>3, CursorEmit DEF Kinds, Places
  <2>4. CASE st[p].pc = "failing" /\ Emit(p, "error", "close")
    BY <2>4, CursorEmit DEF Kinds, Places
  <2> QED
    BY <1>3, <2>1, <2>2, <2>3, <2>4 DEF EmitTail
<1> QED
  BY <1>1, <1>2, <1>3

\* The process of stream p dies: what it did not publish is lost for a reader that waits.
LEMMA CursorCrash ==
  ASSUME JournalInv, JournalInv', CursorInv, NEW p \in Streams, Crash(p)
  PROVE  CursorInv'
<1>1. PICK r : r = [NewStream("dead", -1) EXCEPT !.dropped = st[p].dropped]
  OBVIOUS
<1>2. /\ r.pc = "dead" /\ r.io = "idle" /\ r.batch = <<>> /\ r.buf = <<>> /\ r.frames = <<>>
      /\ r.pc # "none"
  BY <1>1 DEF NewStream
<1>3. /\ st' = [st EXCEPT ![p] = r] /\ ~Quiet(p)
      /\ UNCHANGED <<journal, row, cl, seen, overlap>> /\ lost \subseteq lost'
      /\ cl.mode = "open" => \A i \in DOMAIN st[p].frames : st[p].frames[i].seq \in lost'
  BY <1>1 DEF Crash
<1>4. /\ st'[p] = r /\ wire'[p] = Yielded(p)
      /\ \A q \in Streams : q # p => st'[q] = st[q] /\ wire'[q] = wire[q]
      /\ 0 \in Streams /\ 1 \in Streams /\ \A q \in Streams : q = 0 \/ q = 1
  BY <1>3 DEF JournalInv, StreamsOK, RestOK, Streams, Crash
<1>5. /\ Len(wire[p]) \in Nat /\ Len(wire'[p]) \in Nat /\ Len(wire[p]) <= Len(wire'[p]) + 1
      /\ Held(p) \/ wire'[p] = wire[p]
      /\ \A i \in DOMAIN wire[p] :
           (Held(p) => i < Len(wire[p])) => i \in DOMAIN wire'[p]
      /\ \A i \in DOMAIN wire'[p] : i \in DOMAIN wire[p] /\ wire'[p][i] = wire[p][i]
  <2>1. wire[p] \in Seq(Frames)
    BY DEF JournalInv, RestOK
  <2>2. CASE Held(p)
    <3>1. wire'[p] = SubSeq(wire[p], 1, Len(wire[p]) - 1)
      BY <1>4, <2>2 DEF Yielded
    <3> QED
      BY <2>1, <2>2, <3>1
  <2>3. CASE ~Held(p)
    BY <1>4, <2>1, <2>3 DEF Yielded
  <2> QED
    BY <2>2, <2>3
<1>6. ~Held(p)' /\ Ready(p)'
  BY <1>2, <1>4 DEF Held, Ready
<1>7. Grows
  <2>1. ASSUME NEW q \in Streams, NEW i \in DOMAIN wire[q], Sent(q, i)
        PROVE  i \in DOMAIN wire'[q] /\ Sent(q, i)' /\ wire'[q][i] = wire[q][i]
    <3>1. CASE q = p
      BY <1>5, <1>6, <2>1, <3>1 DEF Sent
    <3>2. CASE q # p
      BY <1>4, <2>1, <3>2 DEF Sent, Held, Ready
    <3> QED
      BY <3>1, <3>2
  <2> QED
    BY <1>3, <2>1 DEF Grows, Kept
<1>8. \A b \in Int : Numbered(p, b) => Numbered(p, b)'
  BY <1>2, <1>4, <1>5 DEF Numbered
<1>9. WriterTold(p)'
  <2>1. \A i \in DOMAIN wire'[p] : wire'[p][i].ev.by = p
    BY <1>5 DEF CursorInv, WriterTold
  <2> QED
    BY <1>2, <1>4, <1>6, <2>1 DEF WriterTold, Increasing
<1>10. ASSUME Single, Single'
       PROVE  RowsTold' /\ PendingTold(p)' /\ Writes(p, r) /\ Passes(p, r)
  <2>1. RowsTold'
    <3> SUFFICES ASSUME st'[1].pc = "none", NEW s \in DOMAIN journal
                 PROVE  s <= Len(wire'[0]) /\ st'[0].pc = "dead"
      BY <1>3 DEF RowsTold
    <3>1. p = 0 /\ st[1].pc = "none" /\ st[0].pc # "dead"
      BY <1>2, <1>3, <1>4, AtWork
    <3>2. s < Len(wire[0]) /\ s \in Nat
      BY <1>10, <3>1 DEF CursorInv, RowsTold, JournalInv, JournalOK
    <3> QED
      BY <1>2, <1>4, <1>5, <3>1, <3>2
  <2>2. PendingTold(p)'
    BY <1>2, <1>4, <1>6 DEF PendingTold, Quiet
  <2> QED
    BY <1>2, <1>3, <2>1, <2>2 DEF Writes, Passes, Tailing
<1> QED
  BY <1>2, <1>3, <1>4, <1>7, <1>8, <1>9, <1>10, StreamMoves

-----------------------------------------------------------------------------
(* The client, and the reader that serves it.                               *)

\* A step of the client.
LEMMA ReaderMoves ==
  ASSUME JournalInv, JournalInv', CursorInv, UNCHANGED <<st, wire, journal, row, lost, overlap>>,
         cl'.mode # "live", cl'.mode # "open" => ~cl'.loaded /\ cl'.inbox = <<>>,
         Single => LineTold' /\ TailTold' /\ CursorTold'
  PROVE  CursorInv'
<1>1. \A p \in Streams : WriterTold(p)'
  BY WriterStays DEF CursorInv
<1>2. WireTold'
  BY DEF CursorInv, WireTold, Numbered, Unstarted, Quiet, Ready
<1>3. Single' => Single
  BY DEF Single
<1>4. Single => RowsTold'
  BY DEF CursorInv, RowsTold
<1>5. ASSUME Single, NEW p \in Streams PROVE PendingTold(p)'
  <2>1. PendingTold(p)
    BY <1>5 DEF CursorInv
  <2>2. Latest' = Latest
    BY DEF Latest, Rows
  <2> QED
    BY <2>1, <2>2 DEF PendingTold, OpenFrom, Ahead, Quiet, Ready
<1> QED
  BY <1>1, <1>2, <1>3, <1>4, <1>5 DEF CursorInv

\* What was seen before is still seen.
LEMMA ReaderGrows ==
  ASSUME UNCHANGED <<st, wire, journal, lost>>, seen \subseteq seen'
  PROVE  Grows
BY DEF Grows, Kept, Sent, Held, Ready

\* The line does not move.
LEMMA LineRests ==
  ASSUME JournalInv, CursorInv, Single, UNCHANGED <<st, wire, journal, lost>>,
         seen \subseteq seen', cl'.inbox = cl.inbox \/ cl'.inbox = <<>>
  PROVE  LineTold'
<1>1. Grows /\ LineTold
  BY ReaderGrows DEF CursorInv
<1>2. CASE cl'.inbox = cl.inbox
  <2>1. \A p \in Streams : \A j \in DOMAIN st'[p].frames :
          \E k \in DOMAIN st[p].frames : st'[p].frames[j] = st[p].frames[k]
    OBVIOUS
  <2> QED
    BY <1>1, <1>2, <2>1, LineStays
<1>3. CASE cl'.inbox = <<>>
  BY <1>3 DEF LineTold
<1> QED
  BY <1>2, <1>3

\* The cursor rests, and nobody tails.
LEMMA ReaderRests ==
  ASSUME JournalInv, JournalInv', CursorInv,
         UNCHANGED <<st, wire, journal, row, seen, lost, overlap>>,
         cl'.mode # "live", cl'.mode # "open" => ~cl'.loaded, ~Tailing', cl'.inbox = <<>>,
         cl'.cursor = cl.cursor, cl'.base = cl.base
  PROVE  CursorInv'
<1>1. Grows
  BY ReaderGrows
<1>2. ASSUME Single PROVE LineTold' /\ TailTold' /\ CursorTold'
  <2>1. LineTold'
    BY <1>2, LineRests
  <2>2. TailTold'
    BY DEF TailTold
  <2>3. CursorTold'
    BY <1>1, <1>2, CursorStays DEF CursorInv
  <2> QED
    BY <2>1, <2>2, <2>3
<1> QED
  BY <1>2, ReaderMoves

\* A connection ends, or one begins.
LEMMA CursorRests ==
  ASSUME JournalInv, JournalInv', CursorInv,
         \/ Disconnect \/ Connect \/ SubscribeRefused \/ SnapshotFails
         \/ Watchdog \/ WatchdogStale \/ SubscriptionBreaks \/ CloseUntailed
  PROVE  CursorInv'
<1>1. cl \in ClientType /\ WireTold
  BY DEF JournalInv, ClientOK, CursorInv
<1>2. UNCHANGED <<st, wire, journal, row, seen, lost, overlap>>
  BY DEF Disconnect, Connect, SubscribeRefused, Open, SnapshotFails, Watchdog, WatchdogStale,
         SubscriptionBreaks, CloseUntailed
<1>3. ASSUME NEW m \in {"away", "over"}, cl' = Closed(cl, m) PROVE CursorInv'
  <2>1. /\ cl'.mode = m /\ ~cl'.loaded /\ cl'.inbox = <<>>
        /\ cl'.cursor = cl.cursor /\ cl'.base = cl.base
    BY <1>1, <1>3 DEF Closed, ClientType
  <2>2. ~Tailing'
    BY <2>1 DEF Tailing
  <2> QED
    BY <1>2, <2>1, <2>2, ReaderRests
<1>4. ASSUME NEW b \in BOOLEAN, Open(b) PROVE CursorInv'
  <2>1. ~cl.loaded /\ cl.inbox = <<>>
    BY <1>1, <1>4 DEF Open, WireTold
  <2>2. /\ cl'.mode = "open" /\ ~cl'.loaded /\ cl'.inbox = <<>>
        /\ cl'.cursor = cl.cursor /\ cl'.base = cl.base
    BY <1>1, <1>4, <2>1 DEF Open, ClientType
  <2>3. ~Tailing'
    BY <2>2 DEF Tailing
  <2> QED
    BY <1>2, <2>2, <2>3, ReaderRests
<1>5. ASSUME SubscriptionBreaks PROVE CursorInv'
  <2>1. /\ cl'.mode = "open" /\ ~cl'.subscribed /\ cl'.inbox = <<>>
        /\ cl'.cursor = cl.cursor /\ cl'.base = cl.base
    BY <1>1, <1>5 DEF SubscriptionBreaks, ClientType
  <2>2. ~Tailing'
    BY <2>1 DEF Tailing
  <2> QED
    BY <1>2, <2>1, <2>2, ReaderRests
<1> QED
  BY <1>3, <1>4, <1>5 DEF Disconnect, Connect, SubscribeRefused, SnapshotFails, Watchdog,
         WatchdogStale, CloseUntailed

\* The cursor goes up to a row, past rows that were given.
LEMMA CursorGoesUp ==
  ASSUME JournalInv, JournalInv', CursorInv, Single, Grows,
         UNCHANGED <<st, wire, journal>>, cl'.base = cl.base, cl'.cursor \in DOMAIN journal,
         \A s \in DOMAIN journal : cl.cursor < s /\ s <= cl'.cursor =>
           [seq |-> s, ev |-> journal[s]] \in seen' \/ s \in lost \/ Excused(s)
  PROVE  CursorTold'
<1>0. /\ CursorTold /\ cl.base \in Nat /\ cl.cursor \in Nat \cup {-1}
      /\ DOMAIN journal \subseteq Nat /\ journal' = journal
  BY DEF CursorInv, JournalInv, ClientOK, ClientType, JournalOK
<1> SUFFICES ASSUME NEW s \in cl.base..cl'.cursor
             PROVE  /\ s \in DOMAIN journal => Given(s)'
                    /\ ~Ahead(s)'
  BY <1>0 DEF CursorTold
<1>1. ~Ahead(s)'
  BY <1>0 DEF Ahead
<1>2. ASSUME s \in DOMAIN journal PROVE Given(s)'
  <2>1. CASE s <= cl.cursor
    <3>1. s \in cl.base..cl.cursor
      BY <1>0, <2>1
    <3>2. Given(s)
      BY <1>0, <1>2, <3>1 DEF CursorTold
    <3> QED
      BY <1>2, <3>2, GivenStays
  <2>2. CASE cl.cursor < s
    <3>1. \/ [seq |-> s, ev |-> journal[s]] \in seen'
          \/ s \in lost
          \/ Excused(s)
      BY <1>0, <1>2, <2>2
    <3>2. CASE Excused(s)
      BY <3>2, ExcusedStays DEF Given
    <3> QED
      BY <1>0, <3>1, <3>2 DEF Given, Grows
  <2> QED
    BY <1>0, <2>1, <2>2
<1> QED
  BY <1>1, <1>2

\* The snapshot is handed over, whole or in part.
LEMMA CursorSnapshot ==
  ASSUME JournalInv, JournalInv', CursorInv, Snapshot \/ SnapshotCut
  PROVE  CursorInv'
<1>1. /\ cl \in ClientType /\ WireTold /\ cl.cursor \in Nat \cup {-1}
      /\ DOMAIN journal \subseteq Nat /\ JournalOK
  BY DEF JournalInv, ClientOK, CursorInv, ClientType, JournalOK
<1>2. /\ UNCHANGED <<st, wire, journal, row, lost, overlap>> /\ seen \subseteq seen'
      /\ cl.mode = "open"
  BY DEF Snapshot, SnapshotCut, Hand
<1>3. Grows
  BY <1>2, ReaderGrows
<1>4. Rows \subseteq DOMAIN journal /\ (Single => Rows = DOMAIN journal)
  BY DEF Rows, Single
<1>5. \A S : \A s \in S : [seq |-> s, ev |-> journal[s]] \in RowsAt(S)
  BY DEF RowsAt
<1>6. CASE Snapshot
  <2>1. PICK c : c = [cl EXCEPT !.loaded = TRUE,
                                !.cursor = IF Backlog = {} THEN cl.cursor ELSE Latest]
    OBVIOUS
  <2>2. cl' = Closed(c, "over") \/ cl' = c
    BY <1>6, <2>1 DEF Snapshot
  <2>3. /\ c.mode = "open" /\ c.inbox = cl.inbox /\ c.base = cl.base
        /\ c.cursor = IF Backlog = {} THEN cl.cursor ELSE Latest
    BY <1>1, <1>2, <2>1 DEF ClientType
  <2>4. /\ cl'.cursor = c.cursor /\ cl'.base = cl.base
        /\ \/ cl'.mode = "open" /\ cl'.inbox = cl.inbox
           \/ cl'.mode = "over" /\ cl'.inbox = <<>> /\ ~cl'.loaded
    <3>1. c \in [mode : {"live", "away", "open", "over"}, src : Streams, base : Nat,
                 cursor : Nat \cup {-1}, subscribed : BOOLEAN,
                 loaded : BOOLEAN, inbox : Seq(Frames), conns : 0..MaxConns]
      <4>1. Latest \in Nat \cup {-1}
        BY <1>1, LatestIsRow
      <4> QED
        BY <1>1, <2>1, <4>1 DEF ClientType
    <3>2. CASE cl' = c
      BY <2>3, <3>2
    <3>3. CASE cl' = Closed(c, "over")
      BY <2>3, <3>1, <3>3 DEF Closed
    <3> QED
      BY <2>2, <3>2, <3>3
  <2>5. RowsAt(Backlog) \subseteq seen'
    BY <1>6 DEF Snapshot, Hand
  <2>6. ASSUME Single PROVE LineTold' /\ TailTold' /\ CursorTold'
    <3>1. LineTold'
      BY <1>2, <2>4, <2>6, LineRests
    <3>2. CASE Backlog = {}
      <4>1. cl'.cursor = cl.cursor
        BY <2>3, <2>4, <3>2
      <4>2. \A s \in DOMAIN journal : ~(s > cl.cursor)
        BY <1>4, <2>6, <3>2 DEF Backlog
      <4>3. TailTold'
        BY <1>2, <4>1, <4>2 DEF TailTold
      <4>4. CursorTold'
        BY <1>2, <1>3, <2>4, <2>6, <4>1, CursorStays DEF CursorInv
      <4> QED
        BY <3>1, <4>3, <4>4
    <3>3. CASE Backlog # {}
      <4>1. cl'.cursor = Latest
        BY <2>3, <2>4, <3>3
      <4>2. Latest \in DOMAIN journal /\ \A s \in DOMAIN journal : s <= Latest
        <5>1. Rows # {}
          BY <3>3 DEF Backlog
        <5> QED
          BY <1>1, <1>4, <2>6, <5>1, LatestIsRow
      <4>3. TailTold'
        <5>1. \A s \in DOMAIN journal : ~(s > Latest)
          BY <1>1, <4>2
        <5> QED
          BY <1>2, <4>1, <5>1 DEF TailTold
      <4>4. \A s \in DOMAIN journal : cl.cursor < s =>
              [seq |-> s, ev |-> journal[s]] \in seen'
        <5> SUFFICES ASSUME NEW s \in DOMAIN journal, cl.cursor < s
                     PROVE  [seq |-> s, ev |-> journal[s]] \in seen'
          OBVIOUS
        <5>1. s \in Backlog
          BY <1>1, <1>4, <2>6 DEF Backlog
        <5> QED
          BY <1>5, <2>5, <5>1
      <4>5. CursorTold'
        BY <1>2, <1>3, <2>4, <2>6, <4>1, <4>2, <4>4, CursorGoesUp
      <4> QED
        BY <3>1, <4>3, <4>5
    <3> QED
      BY <3>2, <3>3
  <2> QED
    BY <1>1, <1>2, <2>4, <2>6, ReaderMoves
<1>7. CASE SnapshotCut
  <2>1. PICK last \in Backlog :
          /\ Hand(RowsAt({s \in Backlog : s <= last}))
          /\ cl' = Closed([cl EXCEPT !.cursor = last], "away")
    BY <1>7 DEF SnapshotCut
  <2>2. PICK c : c = [cl EXCEPT !.cursor = last]
    OBVIOUS
  <2>3. last \in DOMAIN journal /\ last \in Nat /\ last > cl.cursor
    BY <1>1, <1>4 DEF Backlog
  <2>4. /\ c.base = cl.base /\ c.cursor = last /\ c \in ClientType
    BY <1>1, <2>2, <2>3 DEF ClientType
  <2>5. /\ cl'.cursor = last /\ cl'.base = cl.base
        /\ cl'.mode = "away" /\ cl'.inbox = <<>> /\ ~cl'.loaded
    BY <2>1, <2>2, <2>4 DEF Closed, ClientType
  <2>6. ASSUME Single PROVE LineTold' /\ TailTold' /\ CursorTold'
    <3>1. LineTold'
      BY <1>2, <2>5, <2>6, LineRests
    <3>2. TailTold'
      BY <2>5 DEF TailTold, Tailing
    <3>3. \A s \in DOMAIN journal : cl.cursor < s /\ s <= last =>
            [seq |-> s, ev |-> journal[s]] \in seen'
      <4> SUFFICES ASSUME NEW s \in DOMAIN journal, cl.cursor < s, s <= last
                   PROVE  [seq |-> s, ev |-> journal[s]] \in seen'
        OBVIOUS
      <4>1. s \in {t \in Backlog : t <= last}
        BY <1>1, <1>4, <2>6 DEF Backlog
      <4>2. RowsAt({t \in Backlog : t <= last}) \subseteq seen'
        BY <2>1 DEF Hand
      <4> QED
        BY <1>5, <4>1, <4>2
    <3>4. CursorTold'
      BY <1>2, <1>3, <2>3, <2>5, <2>6, <3>3, CursorGoesUp
    <3> QED
      BY <3>1, <3>2, <3>4
  <2> QED
    BY <1>2, <2>5, <2>6, ReaderMoves
<1> QED
  BY <1>6, <1>7

\* A queued frame is dropped or handed over.
LEMMA CursorTail ==
  ASSUME JournalInv, JournalInv', CursorInv, TailFrame
  PROVE  CursorInv'
<1>1. /\ cl \in ClientType /\ WireTold /\ cl.cursor \in Nat \cup {-1}
      /\ DOMAIN journal \subseteq Nat
      /\ cl.inbox \in Seq(Frames) /\ cl.inbox # <<>> /\ Committed(cl.inbox)
  BY DEF JournalInv, ClientOK, CursorInv, ClientType, JournalOK, TailFrame
<1>2. /\ UNCHANGED <<st, wire, journal, row, lost, overlap>> /\ seen \subseteq seen'
      /\ cl.mode = "open" /\ Tailing
  BY DEF TailFrame, Hand, Tailing
<1>3. Grows
  BY <1>2, ReaderGrows
<1>4. PICK f : f = cl.inbox[1]
  OBVIOUS
<1>5. PICK rest : rest = [cl EXCEPT !.inbox = Tail(cl.inbox)]
  OBVIOUS
<1>6. /\ f = Head(cl.inbox) /\ f \in Frames /\ 1 \in DOMAIN cl.inbox
      /\ Tail(cl.inbox) \in Seq(Frames)
      /\ \A i \in DOMAIN Tail(cl.inbox) : /\ i + 1 \in DOMAIN cl.inbox /\ i + 1 > 1
                                          /\ Tail(cl.inbox)[i] = cl.inbox[i + 1]
      /\ \A i \in DOMAIN cl.inbox : \/ i = 1
                                    \/ /\ i - 1 \in DOMAIN Tail(cl.inbox) /\ 1 < i
                                       /\ Tail(cl.inbox)[i - 1] = cl.inbox[i]
  BY <1>1, <1>4
<1>7. /\ rest.inbox = Tail(cl.inbox) /\ rest.cursor = cl.cursor /\ rest.base = cl.base
      /\ rest.mode = "open" /\ rest \in ClientType
  BY <1>1, <1>2, <1>5, <1>6 DEF ClientType
<1>8. f.seq \in DOMAIN journal /\ f.seq \in Nat /\ f = [seq |-> f.seq, ev |-> journal[f.seq]]
  <2>1. f.seq \in DOMAIN journal /\ journal[f.seq] = f.ev
    BY <1>1, <1>4, <1>6 DEF Committed
  <2> QED
    BY <1>1, <1>6, <2>1 DEF Frames
\* The rows that the frame passes are lost or excused.
<1>9. ASSUME Single, NEW s \in DOMAIN journal, s > cl.cursor, s < f.seq
      PROVE  s \in lost \/ Excused(s)
  <2>1. s \in lost \/ Coming(s)
    BY <1>2, <1>9 DEF CursorInv, TailTold
  <2>2. s \in Nat
    BY <1>1, <1>9
  <2>3. ASSUME NEW i \in DOMAIN cl.inbox, cl.inbox[i].seq = s PROVE f.seq < s \/ Excused(s)
    <3>1. 1 < i
      BY <1>4, <1>6, <1>8, <1>9, <2>3
    <3>2. After(cl.inbox[1], cl.inbox[i])
      BY <1>6, <1>9, <3>1 DEF CursorInv, LineTold
    <3> QED
      BY <1>4, <2>3, <3>2 DEF After
  <2>4. ASSUME NEW p \in Streams, NEW j \in DOMAIN st[p].frames, st[p].frames[j].seq = s
        PROVE  f.seq < s \/ Excused(s)
    <3>1. After(cl.inbox[1], st[p].frames[j])
      BY <1>6, <1>9 DEF CursorInv, LineTold
    <3> QED
      BY <1>4, <2>4, <3>1 DEF After
  <2> QED
    BY <1>8, <1>9, <2>1, <2>2, <2>3, <2>4 DEF Coming
<1>10. ASSUME Single, cl'.inbox = Tail(cl.inbox) PROVE LineTold'
  <2>1. LineTold
    BY <1>10 DEF CursorInv
  <2>2. \A g, h : After(g, h) => (g.seq < h.seq \/ Excused(h.seq)')
    <3> SUFFICES ASSUME NEW g, NEW h, After(g, h) PROVE g.seq < h.seq \/ Excused(h.seq)'
      OBVIOUS
    <3>1. PICK s : s = h.seq
      OBVIOUS
    <3>2. Excused(s) => Excused(s)'
      BY <1>3, ExcusedStays
    <3> QED
      BY <3>1, <3>2 DEF After
  <2>3. PICK line : line = Tail(cl.inbox)
    OBVIOUS
  <2>4. \A i, j \in DOMAIN line : i < j => After(line[i], line[j])
    BY <1>6, <2>1, <2>3 DEF LineTold
  <2>5. \A p \in Streams : \A i \in DOMAIN line : \A j \in DOMAIN st[p].frames :
          After(line[i], st[p].frames[j])
    BY <1>6, <2>1, <2>3 DEF LineTold
  <2>6. PICK fr : fr = [p \in Streams |-> st[p].frames]
    OBVIOUS
  <2>7. /\ \A i, j \in DOMAIN line : i < j =>
             line[i].seq < line[j].seq \/ Excused(line[j].seq)'
        /\ \A p \in Streams : \A i \in DOMAIN line : \A j \in DOMAIN fr[p] :
             line[i].seq < fr[p][j].seq \/ Excused(fr[p][j].seq)'
    BY <2>2, <2>4, <2>5, <2>6
  <2>8. cl'.inbox = line /\ \A p \in Streams : st'[p].frames = fr[p]
    BY <1>2, <1>10, <2>3, <2>6
  <2> QED
    BY <2>7, <2>8 DEF LineTold, After, Excused
<1>11. CASE ~Fresh(f)
  <2>1. cl' = rest
    BY <1>5, <1>6, <1>11 DEF TailFrame
  <2>2. ASSUME Single PROVE TailTold' /\ CursorTold'
    <3>1. CursorTold'
      BY <1>2, <1>3, <1>7, <2>1, <2>2, CursorStays DEF CursorInv
    <3>2. ASSUME NEW s \in DOMAIN journal, s > cl.cursor PROVE s \in lost \/ Coming(s)'
      <4>1. s \in lost \/ Coming(s)
        BY <1>2, <2>2, <3>2 DEF CursorInv, TailTold
      <4>2. ASSUME NEW i \in DOMAIN cl.inbox, cl.inbox[i].seq = s PROVE Coming(s)'
        <5>1. i # 1
          BY <1>4, <1>11, <3>2, <4>2 DEF Fresh
        <5>2. cl'.inbox = Tail(cl.inbox)
          BY <1>7, <2>1
        <5>3. i - 1 \in DOMAIN cl'.inbox /\ cl'.inbox[i - 1].seq = s
          BY <1>6, <4>2, <5>1, <5>2
        <5> QED
          BY <5>3 DEF Coming
      <4> QED
        BY <1>2, <4>1, <4>2 DEF Coming
    <3>3. TailTold'
      BY <1>2, <1>7, <2>1, <3>2 DEF TailTold
    <3> QED
      BY <3>1, <3>3
  <2> QED
    BY <1>2, <1>7, <1>10, <2>1, <2>2, ReaderMoves
<1>12. CASE Fresh(f)
  <2>1. PICK c : c = [rest EXCEPT !.cursor = f.seq]
    OBVIOUS
  <2>2. /\ f \in seen'
        /\ cl' = c \/ cl' = Closed(c, "over")
    BY <1>5, <1>6, <1>12, <2>1 DEF TailFrame, Hand
  <2>3. /\ c.inbox = Tail(cl.inbox) /\ c.cursor = f.seq /\ c.base = cl.base
        /\ c.mode = "open" /\ c \in ClientType
    BY <1>7, <1>8, <2>1 DEF ClientType
  <2>4. /\ cl'.cursor = f.seq /\ cl'.base = cl.base
        /\ \/ cl'.mode = "open" /\ cl'.inbox = Tail(cl.inbox)
           \/ cl'.mode = "over" /\ cl'.inbox = <<>> /\ ~cl'.loaded
    <3>1. CASE cl' = c
      BY <2>3, <3>1
    <3>2. CASE cl' = Closed(c, "over")
      BY <2>3, <3>2 DEF Closed, ClientType
    <3> QED
      BY <2>2, <3>1, <3>2
  <2>5. ASSUME Single PROVE LineTold' /\ TailTold' /\ CursorTold'
    <3>1. LineTold'
      BY <1>2, <1>10, <2>4, <2>5, LineRests
    <3>2. CursorTold'
      <4>1. \A s \in DOMAIN journal : cl.cursor < s /\ s <= f.seq =>
              [seq |-> s, ev |-> journal[s]] \in seen' \/ s \in lost \/ Excused(s)
        <5> SUFFICES ASSUME NEW s \in DOMAIN journal, cl.cursor < s, s <= f.seq
                     PROVE  [seq |-> s, ev |-> journal[s]] \in seen' \/ s \in lost \/ Excused(s)
          OBVIOUS
        <5>1. CASE s = f.seq
          BY <1>8, <2>2, <5>1
        <5>2. CASE s # f.seq
          BY <1>1, <1>8, <1>9, <2>5, <5>2
        <5> QED
          BY <5>1, <5>2
      <4> QED
        BY <1>2, <1>3, <1>8, <2>4, <2>5, <4>1, CursorGoesUp
    <3>3. TailTold'
      <4> SUFFICES ASSUME Tailing', NEW s \in DOMAIN journal, s > f.seq
                   PROVE  s \in lost \/ Coming(s)'
        BY <1>2, <2>4 DEF TailTold
      <4>1. cl'.inbox = Tail(cl.inbox)
        BY <2>4 DEF Tailing
      <4>2. s \in lost \/ Coming(s)
        BY <1>1, <1>2, <1>8, <1>12, <2>5 DEF CursorInv, TailTold, Fresh
      <4>3. ASSUME NEW i \in DOMAIN cl.inbox, cl.inbox[i].seq = s PROVE Coming(s)'
        <5>1. i # 1
          BY <1>1, <1>4, <1>8, <4>3
        <5>2. i - 1 \in DOMAIN cl'.inbox /\ cl'.inbox[i - 1].seq = s
          BY <1>6, <4>1, <4>3, <5>1
        <5> QED
          BY <5>2 DEF Coming
      <4> QED
        BY <1>2, <4>2, <4>3 DEF Coming
    <3> QED
      BY <3>1, <3>2, <3>3
  <2> QED
    BY <1>2, <2>4, <2>5, ReaderMoves
<1> QED
  BY <1>11, <1>12

\* The connection of the POST drops or ends.
LEMMA CursorLive ==
  ASSUME JournalInv, JournalInv', CursorInv, LiveDrops \/ LiveEnds
  PROVE  CursorInv'
<1>0. PICK w : w = Yielded(cl.src)
  OBVIOUS
<1>1. /\ cl \in ClientType /\ WireTold /\ cl.src \in Streams /\ cl.base \in Nat
      /\ wire[cl.src] \in Seq(Frames) /\ cl.cursor \in Nat \cup {-1}
      /\ cl.mode = "live" /\ DOMAIN journal \subseteq Nat
  BY DEF JournalInv, ClientOK, ClientType, CursorInv, RestOK, JournalOK, LiveDrops, LiveEnds
<1>2. /\ Len(w) \in Nat /\ Len(w) <= Len(wire[cl.src]) /\ DOMAIN w = 1..Len(w)
      /\ \A i \in DOMAIN w : i \in DOMAIN wire[cl.src] /\ w[i] = wire[cl.src][i] /\ w[i] \in Frames
      /\ \A i \in DOMAIN w : Sent(cl.src, i)
  <2>1. CASE Held(cl.src)
    <3>1. w = SubSeq(wire[cl.src], 1, Len(wire[cl.src]) - 1)
      BY <1>0, <2>1 DEF Yielded
    <3>2. /\ Len(w) \in Nat /\ DOMAIN w = 1..Len(w) /\ Len(w) <= Len(wire[cl.src])
          /\ \A i \in DOMAIN w : /\ i \in DOMAIN wire[cl.src] /\ w[i] = wire[cl.src][i]
                                 /\ w[i] \in Frames /\ i < Len(wire[cl.src])
      BY <1>1, <3>1
    <3> QED
      BY <3>2 DEF Sent
  <2>2. CASE ~Held(cl.src)
    <3>1. w = wire[cl.src]
      BY <1>0, <2>2 DEF Yielded
    <3> QED
      BY <1>1, <2>2, <3>1 DEF Sent
  <2> QED
    BY <2>1, <2>2
<1>3. PICK k \in 0..Len(w), m \in {"away", "over"} : Received(k, m)
  <2>1. CASE LiveDrops
    BY <1>0, <2>1 DEF LiveDrops
  <2>2. CASE LiveEnds
    <3>1. w = wire[cl.src]
      BY <1>0, <2>2 DEF LiveEnds, Quiet, Held, Yielded
    <3> QED
      BY <1>2, <2>2, <3>1 DEF LiveEnds
  <2> QED
    BY <2>1, <2>2
<1>4. PICK got : got = SubSeq(w, 1, k)
  OBVIOUS
<1>5. /\ \A i \in 1..k : i \in DOMAIN w /\ got[i] = w[i]
      /\ k \in Nat
  BY <1>2, <1>3, <1>4
<1>6. /\ UNCHANGED <<st, wire, journal, row, lost, overlap>>
      /\ seen' = seen \cup {got[i] : i \in 1..k}
      /\ cl' = [cl EXCEPT !.mode = m, !.cursor = IF k = 0 THEN cl.cursor ELSE got[k].seq]
  BY <1>0, <1>3, <1>4 DEF Received
<1>7. /\ cl'.mode = m /\ cl'.base = cl.base /\ ~cl'.loaded /\ cl'.inbox = <<>>
      /\ cl'.cursor = IF k = 0 THEN cl.cursor ELSE got[k].seq
  BY <1>1, <1>3, <1>6 DEF ClientType, WireTold
<1>8. Grows
  BY <1>6, ReaderGrows
\* The i-th frame has the number base + i - 1.
<1>9. cl'.cursor = cl.base + k - 1 \/ (k = 0 /\ cl'.cursor = -1)
  <2>1. CASE k = 0
    BY <1>1, <1>7, <2>1 DEF WireTold
  <2>2. CASE k # 0
    <3>1. k \in 1..k /\ k \in DOMAIN w /\ got[k] = w[k]
      BY <1>5, <2>2
    <3>2. k \in DOMAIN wire[cl.src] /\ got[k] = wire[cl.src][k]
      BY <1>2, <3>1
    <3>3. wire[cl.src][k].seq = cl.base + k - 1
      BY <1>1, <3>2 DEF WireTold, Numbered
    <3> QED
      BY <1>7, <2>2, <3>2, <3>3
  <2> QED
    BY <2>1, <2>2
<1>10. ASSUME Single PROVE CursorTold'
  <2> SUFFICES ASSUME NEW s \in cl.base..cl'.cursor
               PROVE  /\ s \in DOMAIN journal => Given(s)'
                      /\ \E p \in Streams : \E i \in DOMAIN wire[p] :
                           Sent(p, i)' /\ wire[p][i].seq = s /\ wire[p][i] \in seen'
    BY <1>6, <1>7 DEF CursorTold
  <2>1. PICK i \in 1..k : s = cl.base + i - 1
    <3>1. s \in Int /\ s >= cl.base /\ s <= cl.base + k - 1
      BY <1>1, <1>5, <1>9
    <3>2. k \in Nat /\ cl.base \in Int
      BY <1>1, <1>5
    <3>3. s - cl.base + 1 \in 1..k /\ s = cl.base + (s - cl.base + 1) - 1
      BY <3>1, <3>2
    <3> QED
      BY <3>3
  <2>2. /\ i \in DOMAIN wire[cl.src] /\ wire[cl.src][i].seq = s /\ wire[cl.src][i] \in Frames
        /\ Sent(cl.src, i)
    BY <1>1, <1>2, <1>5, <2>1 DEF WireTold, Numbered
  <2>3. wire[cl.src][i] \in seen'
    BY <1>2, <1>5, <1>6, <2>1
  <2>4. PICK p \in Streams : p = cl.src
    BY <1>1
  <2>5. Sent(p, i)'
    BY <1>6, <2>2, <2>4 DEF Sent, Held, Ready
  <2>6. ASSUME s \in DOMAIN journal PROVE Given(s)'
    <3>1. CASE wire[p][i].ev = journal[s]
      <4>1. wire[p][i] = [seq |-> s, ev |-> journal[s]]
        BY <2>2, <2>4, <3>1 DEF Frames
      <4> QED
        BY <1>6, <2>3, <2>4, <4>1 DEF Given
    <3>2. CASE wire[p][i].ev # journal[s]
      <4>1. Twice(s)'
        BY <1>6, <2>2, <2>4, <2>5, <2>6, <3>2 DEF Twice
      <4>2. s \in 0..s
        BY <1>1, <2>6
      <4> QED
        BY <4>1, <4>2 DEF Given, Excused
    <3> QED
      BY <3>1, <3>2
  <2> QED
    BY <2>2, <2>3, <2>4, <2>5, <2>6
<1>11. ASSUME Single PROVE LineTold' /\ TailTold'
  <2>1. LineTold'
    BY <1>6, <1>7, <1>11, LineRests
  <2> QED
    BY <1>3, <1>7, <2>1 DEF TailTold, Tailing
<1> QED
  BY <1>3, <1>6, <1>7, <1>10, <1>11, ReaderMoves

\* The message is deleted.
LEMMA CursorTruncate ==
  ASSUME JournalInv, CursorInv, Truncate PROVE CursorInv'
<1>1. UNCHANGED <<st, wire, journal, cl, seen, lost, overlap>> /\ row' = "gone"
  BY DEF Truncate
<1>2. \A p \in Streams : WriterTold(p)'
  BY <1>1, WriterStays DEF CursorInv
<1>3. WireTold'
  BY <1>1 DEF CursorInv, WireTold, Numbered, Unstarted, Quiet, Ready
<1>4. ~Single'
  BY <1>1 DEF Single
<1> QED
  BY <1>2, <1>3, <1>4 DEF CursorInv

\* A continuation starts, and the client may follow it.
LEMMA CursorContinues ==
  ASSUME JournalInv, JournalInv', CursorInv, NEW seed \in {Latest, -1}, Continue(seed),
         UNCHANGED row
  PROVE  CursorInv'
<1>1. PICK r : r = NewStream("run", seed)
  OBVIOUS
<1>2. /\ r.pc = "run" /\ r.seq = seed /\ r.io = "idle" /\ r.batch = <<>> /\ r.buf = <<>>
      /\ r.frames = <<>> /\ seed \in Nat \cup {-1}
  BY <1>1, LatestIsRow DEF NewStream, JournalInv
<1>3. /\ st[1].pc = "none" /\ overlap' = ~Quiet(0)
      /\ UNCHANGED <<wire, journal, row, seen, lost>>
  BY DEF Continue
<1>4. /\ st'[1] = r /\ st'[0] = st[0] /\ Streams = {0, 1}
  BY <1>1 DEF Continue, JournalInv, StreamsOK, Streams
<1>5. WireTold /\ Unstarted(1) /\ ~overlap /\ wire[1] = <<>> /\ st[1].frames = <<>>
  <2>1. WireTold /\ Unstarted(1) /\ ~overlap
    BY <1>3 DEF CursorInv, WireTold
  <2> QED
    BY <2>1 DEF Unstarted, NewStream
<1>6. \/ cl' = cl
      \/ /\ cl'.mode = "live" /\ cl'.src = 1 /\ cl'.base = seed + 1 /\ cl'.cursor = -1
         /\ ~cl'.loaded /\ cl'.inbox = <<>>
  <2>1. CASE cl' = [NewClient("live") EXCEPT !.src = 1, !.base = seed + 1, !.conns = cl.conns]
    BY <2>1 DEF NewClient
  <2> QED
    BY <2>1 DEF Continue
<1>7. Grows
  <2>1. ~Held(1)' /\ (Held(0)' <=> Held(0))
    BY <1>2, <1>4 DEF Held, Ready
  <2> QED
    BY <1>3, <1>4, <2>1 DEF Grows, Kept, Sent
<1>8. \A p \in Streams : WriterTold(p)'
  <2>1. WriterTold(0)'
    BY <1>3, <1>4, WriterStays DEF CursorInv
  <2>2. WriterTold(1)'
    BY <1>2, <1>3, <1>4, <1>5 DEF WriterTold, Increasing
  <2> QED
    BY <1>4, <2>1, <2>2
<1>9. WireTold'
  <2>1. Numbered(0, 0)' /\ st'[0].pc # "none"
    BY <1>3, <1>4, <1>5 DEF WireTold, Numbered
  <2>2. overlap' \/ Quiet(0)'
    BY <1>3, <1>4 DEF Quiet, Ready
  <2>3. CASE cl' = cl
    BY <1>2, <1>3, <1>4, <1>5, <2>1, <2>2, <2>3 DEF WireTold, JournalInv, ClientOK, ClientType
  <2>4. CASE /\ cl'.mode = "live" /\ cl'.src = 1 /\ cl'.base = seed + 1 /\ cl'.cursor = -1
             /\ ~cl'.loaded /\ cl'.inbox = <<>>
    <3>1. Numbered(1, seed + 1)'
      BY <1>2, <1>3, <1>4, <1>5 DEF Numbered
    <3>2. Numbered(cl.src, cl.base)'
      BY <2>4, <3>1 DEF Numbered
    <3> QED
      BY <1>2, <1>4, <2>1, <2>2, <2>4, <3>2 DEF WireTold
  <2> QED
    BY <1>6, <2>3, <2>4
<1>10. ASSUME Single'
       PROVE  /\ RowsTold' /\ \A q \in Streams : PendingTold(q)'
              /\ LineTold' /\ TailTold' /\ CursorTold'
  <2>1. /\ Quiet(0) /\ Single /\ row # "gone"
        /\ RowsTold /\ LineTold /\ TailTold /\ CursorTold
    BY <1>3, <1>5, <1>10 DEF Single, CursorInv
  <2>2. RowsTold'
    BY <1>2, <1>4 DEF RowsTold
  <2>3. PendingTold(0)'
    BY <1>4, <2>1 DEF PendingTold, Quiet, Ready
  <2>4. PendingTold(1)'
    <3> SUFFICES ASSUME NEW n \in Nat, n >= seed + 1, ~Ahead(n), n \notin DOMAIN journal
                 PROVE  n < Len(wire[0])
      BY <1>2, <1>3, <1>4 DEF PendingTold, OpenFrom, Ahead
    <3>1. /\ DOMAIN journal \subseteq Nat /\ wire[0] \in Seq(Frames) /\ Rows = DOMAIN journal
          /\ JournalOK
      BY <1>4, <2>1 DEF JournalInv, JournalOK, RestOK, Rows
    <3>2. PICK s \in DOMAIN journal : s > n
      BY <3>1 DEF Ahead
    <3>3. seed # Latest
      <4>1. s <= Latest /\ Latest \in Nat \cup {-1}
        BY <3>1, <3>2, LatestIsRow
      <4> QED
        BY <1>2, <3>1, <3>2, <4>1
    <3>4. s <= Len(wire[0]) /\ Len(wire[0]) \in Nat
      BY <1>3, <2>1, <3>1, <3>2 DEF RowsTold
    <3> QED
      BY <3>1, <3>2, <3>4
  <2>5. LineTold'
    <3>1. CASE cl' = cl
      <4>1. \A q \in Streams : \A j \in DOMAIN st'[q].frames :
              \E k \in DOMAIN st[q].frames : st'[q].frames[j] = st[q].frames[k]
        BY <1>2, <1>4
      <4> QED
        BY <1>7, <2>1, <3>1, <4>1, LineStays
    <3>2. CASE cl'.inbox = <<>>
      BY <3>2 DEF LineTold
    <3> QED
      BY <1>6, <3>1, <3>2
  <2>6. TailTold'
    <3>1. CASE cl' = cl
      BY <1>2, <1>3, <1>4, <1>5, <2>1, <3>1 DEF TailTold, Tailing, Coming
    <3>2. CASE cl'.mode = "live"
      BY <3>2 DEF TailTold, Tailing
    <3> QED
      BY <1>6, <3>1, <3>2
  <2>7. CursorTold'
    <3>1. CASE cl' = cl
      BY <1>3, <1>7, <2>1, <3>1, CursorStays
    <3>2. CASE cl'.base = seed + 1 /\ cl'.cursor = -1
      <4>1. cl'.base..cl'.cursor = {}
        BY <1>2, <3>2
      <4> QED
        BY <4>1 DEF CursorTold
    <3> QED
      BY <1>6, <3>1, <3>2
  <2> QED
    BY <1>4, <2>2, <2>3, <2>4, <2>5, <2>6, <2>7
<1> QED
  BY <1>8, <1>9, <1>10 DEF CursorInv

-----------------------------------------------------------------------------
(* Together.                                                                *)

\* Each step keeps the invariant.
LEMMA CursorStep == JournalInv /\ JournalInv' /\ CursorInv /\ [Next]_vars => CursorInv'
<1> SUFFICES ASSUME JournalInv, JournalInv', CursorInv, [Next]_vars PROVE CursorInv'
  OBVIOUS
<1>1. CASE UNCHANGED vars
  <2>1. UNCHANGED <<st, wire, journal, row, lost, overlap, cl, seen>>
    BY <1>1 DEF vars
  <2>2. ASSUME NEW p \in Streams PROVE WriterTold(p)' <=> WriterTold(p)
    BY <2>1 DEF WriterTold, Ready
  <2>3. WireTold' <=> WireTold
    BY <2>1 DEF WireTold, Numbered, Unstarted, Quiet, Ready
  <2>4. (Single' <=> Single) /\ (RowsTold' <=> RowsTold)
    BY <2>1 DEF Single, RowsTold
  <2>5. ASSUME NEW p \in Streams PROVE PendingTold(p)' <=> PendingTold(p)
    BY <2>1 DEF PendingTold, OpenFrom, Ahead, Quiet, Ready, Latest, Rows
  <2>6. \A s : Excused(s)' <=> Excused(s)
    BY <2>1 DEF Excused, Twice, Sent, Held, Ready
  <2>7. (LineTold' <=> LineTold) /\ (TailTold' <=> TailTold)
    BY <2>1, <2>6 DEF LineTold, After, TailTold, Tailing, Coming
  <2>8. CursorTold' <=> CursorTold
    BY <2>1, <2>6 DEF CursorTold, Given, Ahead, Sent, Held, Ready
  <2> QED
    BY <2>2, <2>3, <2>4, <2>5, <2>7, <2>8 DEF CursorInv
<1>2. ASSUME NEW p \in Streams, Generate(p) PROVE CursorInv'
  BY <1>2, CursorEmits, CursorGenerator, CursorClose DEF Generate
<1>3. ASSUME NEW p \in Streams, Flush(p) PROVE CursorInv'
  BY <1>3, CursorInserts, CursorBatch, CursorFallback, CursorLooksUp, CursorUnheard, CursorHeard
  DEF Flush
<1>4. ASSUME NEW p \in Streams, StreamFault(p) PROVE CursorInv'
  BY <1>4, CursorEmits, CursorGenerator, CursorCrash, CursorBatch, CursorFallback, CursorUnheard
  DEF StreamFault
<1>5. CASE Pause \/ PauseUnsaved
  <2>1. 0 \in Streams
    BY DEF Streams
  <2> QED
    BY <1>5, <2>1, CursorGenerator
<1>6. CASE Read
  BY <1>6, CursorSnapshot, CursorTail, CursorRests DEF Read
<1>7. CASE Resume
  BY <1>7, CursorContinues DEF Resume, Continue, Seed
<1>8. CASE ResumeEarly
  BY <1>8, CursorContinues DEF ResumeEarly, Continue, Seed
<1>9. CASE ResumeUnseeded
  BY <1>9, CursorContinues DEF ResumeUnseeded, Continue
<1>10. CASE Client
  BY <1>7, <1>10, CursorRests, CursorSnapshot, CursorLive DEF Client
<1>11. CASE OtherFault
  BY <1>5, <1>8, <1>9, <1>11, CursorTruncate, CursorRests DEF OtherFault
<1> QED
  BY <1>1, <1>2, <1>3, <1>4, <1>5, <1>6, <1>10, <1>11 DEF Next

\* It holds at the start.
LEMMA CursorInit == Init => CursorInv
<1> SUFFICES ASSUME Init PROVE CursorInv
  OBVIOUS
<1>1. /\ \A p \in Streams : st[p] = NewStream(IF p = 0 THEN "run" ELSE "none", -1)
      /\ \A p \in Streams : wire[p] = <<>>
      /\ DOMAIN journal = {} /\ ~overlap
      /\ 0 \in Streams /\ 1 \in Streams /\ \A p \in Streams : p = 0 \/ p = 1
  BY DEF Init, Streams
<1>2. /\ cl.mode = "live" /\ cl.src = 0 /\ cl.base = 0 /\ cl.cursor = -1
      /\ ~cl.loaded /\ cl.inbox = <<>>
  BY DEF Init, NewClient
<1>3. \A p \in Streams : /\ st[p].pc = IF p = 0 THEN "run" ELSE "none"
                         /\ st[p].seq = -1 /\ st[p].io = "idle" /\ st[p].batch = <<>>
                         /\ st[p].buf = <<>> /\ st[p].frames = <<>>
  <2>1. st[0] = NewStream("run", -1) /\ st[1] = NewStream("none", -1)
    BY <1>1
  <2> QED
    BY <1>1, <2>1 DEF NewStream
<1>4. \A p \in Streams : WriterTold(p)
  BY <1>1, <1>3 DEF WriterTold, Ready, Increasing
<1>5. Numbered(0, 0)
  BY <1>1, <1>3 DEF Numbered
<1>6. WireTold
  BY <1>1, <1>2, <1>3, <1>5 DEF WireTold, Unstarted
<1>7. RowsTold /\ LineTold /\ TailTold
  BY <1>1, <1>2 DEF RowsTold, LineTold, TailTold, Tailing
<1>8. \A p \in Streams : PendingTold(p)
  BY <1>1, <1>3 DEF PendingTold, OpenFrom, Ahead
<1>9. CursorTold
  <2>1. cl.base..cl.cursor = {}
    BY <1>2
  <2> QED
    BY <2>1 DEF CursorTold
<1> QED
  BY <1>4, <1>6, <1>7, <1>8, <1>9 DEF CursorInv

\* The numbers up to the cursor that have a row were given, lost, or used twice.
LEMMA CursorImplies == JournalInv /\ CursorInv => CursorPassesNothing
<1> SUFFICES ASSUME JournalInv, CursorInv, NEW s \in Rows, cl.base <= s, s <= cl.cursor, ~overlap
             PROVE  \/ [seq |-> s, ev |-> journal[s]] \in seen
                    \/ s \in lost
                    \/ \E t \in 0..s : Reused(t)
  BY DEF CursorPassesNothing
<1>1. Single /\ s \in DOMAIN journal
  BY DEF Rows, Single
<1>2. s \in cl.base..cl.cursor
  <2>1. s \in Nat /\ cl.base \in Nat /\ cl.cursor \in Nat \cup {-1}
    BY <1>1 DEF JournalInv, JournalOK, ClientOK, ClientType
  <2> QED
    BY <2>1
<1>3. Given(s)
  BY <1>1, <1>2 DEF CursorInv, CursorTold
<1>4. \A t : Twice(t) => Reused(t)
  BY DEF Twice, Reused
<1> QED
  BY <1>3, <1>4 DEF Given, Excused

\* The cursor that a client reconnects with never passes a row it was not given, but for a
\* lost publish, a number used twice or two streams at once (message_journal.py,
\* event_replay.py: the last number received is all the reader goes by).
THEOREM CursorPassesNothingHolds == Spec => []CursorPassesNothing
<1>1. JournalInv /\ CursorInv /\ [Next]_vars => JournalInv' /\ CursorInv'
  BY InvStep, CursorStep
<1>2. Spec => [](JournalInv /\ CursorInv)
  BY <1>1, InvInit, CursorInit, PTL DEF Spec
<1> QED
  BY <1>2, CursorImplies, PTL

-----------------------------------------------------------------------------
(* The log that the client is promised.  A step of a stream only adds to    *)
(* the rows and to what is on the connections; a step of the reader hands   *)
(* over committed rows (JournalInv), and where a continuation begins its    *)
(* connection is empty (CursorInv).                                         *)

\* The set of the frames on the wires, as the proofs speak of them.
LEMMA OnWireIs ==
  RestOK => \A f : f \in OnWire <=>
              \E p \in Streams : \E i \in DOMAIN wire[p] : Sent(p, i) /\ wire[p][i] = f
<1> SUFFICES ASSUME RestOK, NEW f
             PROVE  f \in OnWire <=>
                      \E p \in Streams : \E i \in DOMAIN wire[p] : Sent(p, i) /\ wire[p][i] = f
  OBVIOUS
<1>1. ASSUME NEW p \in Streams
      PROVE  /\ \A i \in DOMAIN Yielded(p) :
                  i \in DOMAIN wire[p] /\ Sent(p, i) /\ Yielded(p)[i] = wire[p][i]
             /\ \A i \in DOMAIN wire[p] :
                  Sent(p, i) => i \in DOMAIN Yielded(p) /\ Yielded(p)[i] = wire[p][i]
  <2>1. wire[p] \in Seq(Frames)
    BY DEF RestOK
  <2>2. CASE Held(p)
    <3>1. Yielded(p) = SubSeq(wire[p], 1, Len(wire[p]) - 1)
      BY <2>2 DEF Yielded
    <3> QED
      BY <2>1, <2>2, <3>1 DEF Sent
  <2>3. CASE ~Held(p)
    BY <2>3 DEF Yielded, Sent
  <2> QED
    BY <2>2, <2>3
<1> QED
  BY <1>1 DEF OnWire

\* It changes only with the streams and their wires.
LEMMA OnWireRests ==
  ASSUME UNCHANGED <<st, wire>> PROVE UNCHANGED OnWire
BY DEF OnWire, Yielded, Held, Ready

\* What the streams send and write is a Write of the log.
LEMMA LogWrites ==
  ASSUME JournalInv, JournalInv', Grows, UNCHANGED seen,
         cl'.cursor = cl.cursor, cl'.mode = cl.mode
  PROVE  Log!Write
<1>1. RestOK /\ RestOK'
  BY DEF JournalInv
<1>2. (RestOK => \A f : f \in OnWire <=>
              \E p \in Streams : \E i \in DOMAIN wire[p] : Sent(p, i) /\ wire[p][i] = f)'
  BY OnWireIs, PTL
<1>3. OnWire \subseteq OnWire'
  BY <1>1, <1>2, OnWireIs DEF Grows
<1>4. OnWire' \subseteq Frames
  BY <1>1, <1>2 DEF RestOK
<1> QED
  BY <1>3, <1>4 DEF Log!Write, Grows, Kept

\* A step of stream p that emits nothing: what is held is not sent by it.
LEMMA WireRests ==
  ASSUME JournalInv, JournalInv', NEW p \in Streams, Kept, UNCHANGED <<wire, seen>>,
         lost \subseteq lost', \A q \in Streams : q # p => st'[q] = st[q], Held(p)' => Held(p)
  PROVE  Grows
BY DEF Grows, Sent, Held, Ready

\* An event that is emitted comes after what was sent.
LEMMA EmitGrows ==
  ASSUME JournalInv, NEW p \in Streams, NEW kind \in Kinds, NEW next \in Places,
         Emit(p, kind, next)
  PROVE  Grows /\ UNCHANGED <<seen, cl>>
<1>0. PICK r, f : Emits(p, next, r, f)
  BY Emitted DEF JournalInv, RestOK
<1>1. /\ st' = [st EXCEPT ![p] = r] /\ wire' = [wire EXCEPT ![p] = Append(wire[p], f)]
      /\ f \in Frames /\ UNCHANGED <<journal, cl, seen, lost>>
  BY <1>0 DEF Emits, Emit
<1>2. /\ \A q \in Streams : q # p => st'[q] = st[q] /\ wire'[q] = wire[q]
      /\ wire'[p] = Append(wire[p], f) /\ wire[p] \in Seq(Frames)
  BY <1>1 DEF JournalInv, StreamsOK, RestOK
<1>3. \A i \in DOMAIN wire[p] : /\ i \in DOMAIN wire'[p] /\ wire'[p][i] = wire[p][i]
                                /\ i < Len(wire'[p])
  BY <1>1, <1>2
<1>4. ASSUME NEW q \in Streams, NEW i \in DOMAIN wire[q], Sent(q, i)
      PROVE  i \in DOMAIN wire'[q] /\ Sent(q, i)' /\ wire'[q][i] = wire[q][i]
  <2>1. CASE q = p
    BY <1>3, <2>1 DEF Sent
  <2>2. CASE q # p
    BY <1>2, <1>4, <2>2 DEF Sent, Held, Ready
  <2> QED
    BY <2>1, <2>2
<1> QED
  BY <1>1, <1>4 DEF Grows, Kept

LEMMA EmitLogged ==
  ASSUME JournalInv, JournalInv', NEW p \in Streams,
         EmitData(p) \/ EmitAgentError(p) \/ EmitTail(p)
  PROVE  Log!Write
<1>1. PICK kind \in Kinds, next \in Places : Emit(p, kind, next)
  BY DEF EmitData, EmitAgentError, EmitTail, Kinds, Places
<1> QED
  BY <1>1, EmitGrows, LogWrites

\* A step of the generator of stream p between its events.
LEMMA GeneratorLogged ==
  ASSUME JournalInv, JournalInv', NEW p \in Streams,
         \/ Finalize(p) \/ Supersede(p) \/ Close(p) \/ Raise(p)
         \/ p = 0 /\ (Pause \/ PauseUnsaved)
  PROVE  Log!Write
<1>1. /\ UNCHANGED <<wire, journal, cl, seen, lost>> /\ Ready(p)
      /\ \A q \in Streams : q # p => st'[q] = st[q]
  BY DEF Finalize, Supersede, Close, Raise, Pause, PauseUnsaved, Generating,
         JournalInv, StreamsOK
<1>2. ~Held(p)'
  <2>1. st[p] \in StreamType
    BY DEF JournalInv, StreamsOK
  <2>2. CASE Close(p)
    BY <2>1, <2>2 DEF Close, Held, JournalInv, StreamsOK, StreamType
  <2>3. CASE ~Close(p)
    <3>1. \E x : st' = [st EXCEPT ![p].pc = x]
      BY <2>3 DEF Finalize, Supersede, Raise, Pause, PauseUnsaved
    <3>2. PICK x : st' = [st EXCEPT ![p].pc = x]
      BY <3>1
    <3>3. st'[p].io = st[p].io /\ st'[p].frames = st[p].frames
      BY <2>1, <3>2 DEF JournalInv, StreamsOK, StreamType
    <3> QED
      BY <1>1, <3>3 DEF Held, Ready
  <2> QED
    BY <2>2, <2>3
<1> QED
  BY <1>1, <1>2, SameIsKept, WireRests, LogWrites

\* A step of the writer of stream p.
LEMMA WriterLogged ==
  ASSUME JournalInv, JournalInv', NEW p \in Streams, NEW r, st' = [st EXCEPT ![p] = r],
         r.pc = st[p].pc, ~Ready(p), Kept, UNCHANGED <<wire, seen>>, lost \subseteq lost',
         cl'.cursor = cl.cursor, cl'.mode = cl.mode
  PROVE  Log!Write
<1>1. st'[p] = r /\ \A q \in Streams : q # p => st'[q] = st[q]
  BY DEF JournalInv, StreamsOK
<1>2. Held(p)' => Held(p)
  BY <1>1 DEF Held
<1> QED
  BY <1>1, <1>2, WireRests, LogWrites

\* The row of the next event goes on with its stream.
LEMMA NextRowIs ==
  ASSUME JournalInv, NEW p \in Streams, NEW out, st' = NextRow(p, out)
  PROVE  \E r : st' = [st EXCEPT ![p] = r] /\ r.pc = st[p].pc
<1>1. PICK r : r = [st[p] EXCEPT
        !.io = IF Len(st[p].batch) = 1 THEN "idle" ELSE "rows",
        !.batch = Tail(st[p].batch), !.frames = out, !.retry = 0,
        !.dropped = st[p].dropped \/ out = <<>>]
  OBVIOUS
<1>2. st[p] \in StreamType
  BY DEF JournalInv, StreamsOK
<1>3. r.pc = st[p].pc
  BY <1>1, <1>2 DEF StreamType
<1>4. st' = [st EXCEPT ![p] = r]
  BY <1>1 DEF NextRow, JournalInv, StreamsOK
<1> QED
  BY <1>3, <1>4

\* One event, written at a number that is free.
LEMMA OneCommits ==
  ASSUME JournalInv, NEW f \in Frames, Vacant(f.seq), journal' = With(<<f>>)
  PROVE  Kept
<1>1. /\ <<f>> \in Seq(Frames) /\ <<f>> # <<>> /\ Increasing(<<f>>)
      /\ \A i \in DOMAIN <<f>> : Vacant(<<f>>[i].seq)
  BY DEF Increasing
<1> QED
  BY <1>1, WithCommits DEF JournalInv

LEMMA FlushLogged ==
  ASSUME JournalInv, JournalInv', NEW p \in Streams,
         Flush(p) \/ BulkFails(p) \/ RowFails(p) \/ PublishLost(p)
  PROVE  Log!Write
<1>0. /\ st[p] \in StreamType /\ StreamOK(st[p]) /\ JournalOK /\ cl \in ClientType
      /\ st \in [Streams -> StreamType]
  BY DEF JournalInv, StreamsOK, ClientOK
<1>1. CASE BulkInsert(p)
  <2>1. PICK r : r = [st[p] EXCEPT !.io = "idle", !.batch = <<>>, !.frames = st[p].batch]
    OBVIOUS
  <2>2. r.pc = st[p].pc /\ st' = [st EXCEPT ![p] = r] /\ ~Ready(p)
    BY <1>0, <1>1, <2>1 DEF BulkInsert, StreamType, Ready
  <2>3. Kept
    <3>1. st[p].batch \in Seq(Frames) /\ st[p].batch # <<>> /\ Increasing(st[p].batch)
      BY <1>0, <1>1 DEF BulkInsert, StreamOK, StreamType
    <3> QED
      BY <1>0, <1>1, <3>1, WithCommits DEF BulkInsert
  <2> QED
    BY <1>1, <2>2, <2>3, WriterLogged DEF BulkInsert
<1>2. CASE BulkOrphaned(p) \/ BulkCollides(p) \/ LookUpLatest(p) \/ BulkFails(p)
  <2>1. \E r : st' = [st EXCEPT ![p] = r] /\ r.pc = st[p].pc
    <3>1. CASE BulkOrphaned(p)
      <4>1. PICK r : r = [st[p] EXCEPT !.io = "idle", !.batch = <<>>, !.missing = TRUE]
        OBVIOUS
      <4>2. r.pc = st[p].pc /\ st' = [st EXCEPT ![p] = r]
        BY <1>0, <3>1, <4>1 DEF BulkOrphaned, StreamType
      <4> QED
        BY <4>2
    <3>2. CASE BulkCollides(p)
      <4>1. PICK r : r = [st[p] EXCEPT !.io = "rows"]
        OBVIOUS
      <4>2. r.pc = st[p].pc /\ st' = [st EXCEPT ![p] = r]
        BY <1>0, <3>2, <4>1 DEF BulkCollides, StreamType
      <4> QED
        BY <4>2
    <3>3. CASE LookUpLatest(p)
      <4>1. PICK r : r = [st[p] EXCEPT !.io = "retry", !.retry = Latest + 1]
        OBVIOUS
      <4>2. r.pc = st[p].pc /\ st' = [st EXCEPT ![p] = r]
        BY <1>0, <3>3, <4>1 DEF LookUpLatest, StreamType
      <4> QED
        BY <4>2
    <3>4. CASE BulkFails(p)
      <4>1. PICK r : r = [st[p] EXCEPT !.io = "idle", !.batch = <<>>, !.dropped = TRUE]
        OBVIOUS
      <4>2. r.pc = st[p].pc /\ st' = [st EXCEPT ![p] = r]
        BY <1>0, <3>4, <4>1 DEF BulkFails, StreamType
      <4> QED
        BY <4>2
    <3> QED
      BY <1>2, <3>1, <3>2, <3>3, <3>4
  <2>2. ~Ready(p) /\ UNCHANGED <<wire, journal, cl, seen, lost>>
    BY <1>2 DEF BulkOrphaned, BulkCollides, LookUpLatest, BulkFails, Ready
  <2> QED
    BY <2>1, <2>2, SameIsKept, WriterLogged
<1>3. CASE InsertRow(p) \/ RetryRow(p) \/ RowFails(p)
  <2>1. \E r : st' = [st EXCEPT ![p] = r] /\ r.pc = st[p].pc
    BY <1>3, NextRowIs DEF InsertRow, RetryRow, RowFails
  <2>2. ~Ready(p) /\ UNCHANGED <<wire, cl, seen, lost>>
    BY <1>3 DEF InsertRow, RetryRow, RowFails, Ready
  <2>3. Kept
    <3>1. Head(st[p].batch) \in Frames /\ st[p].retry \in Nat
      <4>1. st[p].batch \in Seq(Frames) /\ st[p].batch # <<>> /\ st[p].retry \in Nat
        BY <1>0, <2>2, <1>3 DEF StreamOK, StreamType, InsertRow, RetryRow, RowFails
      <4> QED
        BY <4>1, TailOf
    <3>2. CASE InsertRow(p)
      BY <3>1, <3>2, OneCommits DEF InsertRow
    <3>3. CASE RetryRow(p)
      <4>1. PICK f : f = [Head(st[p].batch) EXCEPT !.seq = st[p].retry]
        OBVIOUS
      <4>2. f \in Frames
        BY <3>1, <4>1 DEF Frames
      <4>3. UNCHANGED journal \/ (Vacant(f.seq) /\ journal' = With(<<f>>))
        BY <3>3, <4>1 DEF RetryRow
      <4> QED
        BY <4>2, <4>3, OneCommits, SameIsKept
    <3>4. CASE RowFails(p)
      BY <3>4, SameIsKept DEF RowFails
    <3> QED
      BY <1>3, <3>2, <3>3, <3>4
  <2> QED
    BY <2>1, <2>2, <2>3, WriterLogged
<1>4. CASE Publish(p) \/ PublishLost(p)
  <2>1. PICK r : r = [st[p] EXCEPT !.frames = Tail(st[p].frames)]
    OBVIOUS
  <2>2. r.pc = st[p].pc /\ st' = [st EXCEPT ![p] = r] /\ ~Ready(p)
    BY <1>0, <1>4, <2>1 DEF Publish, PublishLost, StreamType, Ready
  <2>3. /\ UNCHANGED <<wire, journal, seen>> /\ lost \subseteq lost'
        /\ cl'.cursor = cl.cursor /\ cl'.mode = cl.mode
    BY <1>0, <1>4 DEF Publish, PublishLost, ClientType
  <2> QED
    BY <2>2, <2>3, SameIsKept, WriterLogged
<1> QED
  BY <1>1, <1>2, <1>3, <1>4 DEF Flush

\* A crash takes back only the frame that was not yielded.
LEMMA CrashLogged ==
  ASSUME JournalInv, JournalInv', NEW p \in Streams, Crash(p)
  PROVE  Log!Write
<1>1. /\ UNCHANGED <<journal, cl, seen>> /\ lost \subseteq lost' /\ Kept
      /\ wire'[p] = Yielded(p) /\ wire[p] \in Seq(Frames)
      /\ \A q \in Streams : q # p => st'[q] = st[q] /\ wire'[q] = wire[q]
  BY SameIsKept DEF Crash, JournalInv, StreamsOK, RestOK
<1>2. ~Held(p)'
  <2>1. st'[p] = [NewStream("dead", -1) EXCEPT !.dropped = st[p].dropped]
    BY DEF Crash, JournalInv, StreamsOK
  <2>2. st'[p].io = "idle" /\ st'[p].frames = <<>>
    BY <2>1 DEF NewStream
  <2> QED
    BY <2>2 DEF Held, Ready
<1>3. ASSUME NEW q \in Streams, NEW i \in DOMAIN wire[q], Sent(q, i)
      PROVE  i \in DOMAIN wire'[q] /\ Sent(q, i)' /\ wire'[q][i] = wire[q][i]
  <2>1. CASE q = p /\ Held(p)
    <3>1. wire'[p] = SubSeq(wire[p], 1, Len(wire[p]) - 1)
      BY <1>1, <2>1 DEF Yielded
    <3> QED
      BY <1>1, <1>2, <1>3, <2>1, <3>1 DEF Sent
  <2>2. CASE q = p /\ ~Held(p)
    BY <1>1, <1>2, <1>3, <2>2 DEF Sent, Yielded
  <2>3. CASE q # p
    BY <1>1, <1>3, <2>3 DEF Sent, Held, Ready
  <2> QED
    BY <2>1, <2>2, <2>3
<1> QED
  BY <1>1, <1>3, LogWrites DEF Grows

\* The connection of the POST drops or ends.
LEMMA LiveLogged ==
  ASSUME JournalInv, LiveDrops \/ LiveEnds PROVE Log!Leave
<1>1. /\ cl \in ClientType /\ cl.src \in Streams /\ wire[cl.src] \in Seq(Frames)
      /\ cl.mode = "live"
  BY DEF JournalInv, ClientOK, ClientType, RestOK, LiveDrops, LiveEnds
<1>2. PICK w : w = Yielded(cl.src)
  OBVIOUS
<1>3. w \in Seq(Frames) /\ \A i \in DOMAIN w : w[i] \in OnWire
  <2>1. w = wire[cl.src] \/ w = SubSeq(wire[cl.src], 1, Len(wire[cl.src]) - 1)
    BY <1>2 DEF Yielded
  <2>2. w \in Seq(Frames)
    BY <1>1, <2>1
  <2>3. \A i \in DOMAIN w : w[i] \in OnWire
    BY <1>1, <1>2 DEF OnWire
  <2> QED
    BY <2>2, <2>3
<1>4. PICK k \in 0..Len(w), m \in {"away", "over"} : Received(k, m)
  <2>1. CASE LiveDrops
    BY <1>2, <2>1 DEF LiveDrops
  <2>2. CASE LiveEnds
    <3>1. w = wire[cl.src] /\ Len(w) \in 0..Len(w)
      BY <1>1, <1>2, <2>2 DEF LiveEnds, Quiet, Held, Yielded
    <3> QED
      BY <2>2, <3>1 DEF LiveEnds
  <2> QED
    BY <2>1, <2>2
<1>5. PICK got : got = SubSeq(w, 1, k)
  OBVIOUS
<1>6. \A i \in 1..k : i \in DOMAIN w /\ got[i] = w[i]
  BY <1>3, <1>4, <1>5
<1>7. /\ UNCHANGED <<st, wire, journal>>
      /\ seen' = seen \cup {got[i] : i \in 1..k}
      /\ cl' = [cl EXCEPT !.mode = m, !.cursor = IF k = 0 THEN cl.cursor ELSE got[k].seq]
  BY <1>2, <1>4, <1>5 DEF Received
<1>8. cl'.mode = m /\ cl'.cursor = IF k = 0 THEN cl.cursor ELSE got[k].seq
  BY <1>1, <1>7 DEF ClientType
<1>9. seen \subseteq seen' /\ seen' \subseteq seen \cup OnWire
  BY <1>3, <1>6, <1>7
<1>10. cl'.cursor = cl.cursor \/ \E f \in seen' \cap OnWire : cl'.cursor = f.seq
  <2>1. CASE k = 0
    BY <1>8, <2>1
  <2>2. CASE k # 0
    <3>1. k \in 1..k
      BY <1>4, <2>2
    <3>2. got[k] \in seen' /\ got[k] \in OnWire /\ cl'.cursor = got[k].seq
      BY <1>3, <1>6, <1>7, <1>8, <2>2, <3>1
    <3> QED
      BY <3>2
  <2> QED
    BY <2>1, <2>2
<1> QED
  BY <1>1, <1>4, <1>7, <1>8, <1>9, <1>10, OnWireRests DEF Log!Leave

\* A part of the backlog, up to row `last`, is handed over.
LEMMA ReplayLogged ==
  ASSUME JournalInv, UNCHANGED <<st, wire, journal>>, cl.mode = "open",
         NEW last \in Backlog, seen' = seen \cup RowsAt({s \in Backlog : s <= last}),
         cl'.cursor = last,
         \/ cl'.mode \in {"away", "open"}
         \/ cl'.mode = "over" /\ \E s \in Backlog : s <= last /\ Terminal(journal[s])
  PROVE  \E n \in DOMAIN journal : Log!Replay(n)
<1>1. DOMAIN journal \subseteq Nat /\ cl.cursor \in Nat \cup {-1} /\ Rows = DOMAIN journal
  BY DEF JournalInv, JournalOK, ClientOK, ClientType, Backlog, Rows
<1>2. PICK rows : rows = {n \in DOMAIN journal : cl.cursor < n /\ n <= last}
  OBVIOUS
<1>3. rows = {s \in Backlog : s <= last} /\ last \in rows
  BY <1>1, <1>2 DEF Backlog
<1>4. seen' = seen \cup {Log!FrameAt(n) : n \in rows}
  BY <1>3 DEF RowsAt, Log!FrameAt
<1>5. cl'.mode = "over" => \E n \in rows : journal[n] \in {e \in Events : Terminal(e)}
  <2> SUFFICES ASSUME cl'.mode = "over"
               PROVE  \E n \in rows : journal[n] \in {e \in Events : Terminal(e)}
    OBVIOUS
  <2>1. PICK s \in Backlog : s <= last /\ Terminal(journal[s])
    OBVIOUS
  <2>2. s \in rows /\ journal[s] \in Events
    BY <1>1, <1>3, <2>1 DEF Backlog, JournalInv, JournalOK
  <2> QED
    BY <2>1, <2>2
<1>6. Log!Replay(last)
  BY <1>2, <1>3, <1>4, <1>5, OnWireRests DEF Log!Replay
<1> QED
  BY <1>1, <1>6 DEF Backlog

\* The snapshot is one replay of the log, or nothing was missing.
LEMMA SnapshotLogged ==
  ASSUME JournalInv, Snapshot PROVE [Log!Next]_Log!vars
<1>1. /\ cl \in ClientType /\ JournalOK /\ cl.mode = "open"
      /\ UNCHANGED <<st, wire, journal>> /\ seen' = seen \cup RowsAt(Backlog)
  BY DEF JournalInv, ClientOK, Snapshot, Hand
<1>2. PICK c : c = [cl EXCEPT !.loaded = TRUE,
                              !.cursor = IF Backlog = {} THEN cl.cursor ELSE Latest]
  OBVIOUS
<1>3. c.mode = "open" /\ c.cursor = IF Backlog = {} THEN cl.cursor ELSE Latest
  BY <1>1, <1>2 DEF ClientType
<1>4. cl' = IF \E s \in Backlog : Terminal(journal[s]) THEN Closed(c, "over") ELSE c
  BY <1>2 DEF Snapshot
<1>5. CASE Backlog = {}
  <2>1. cl' = c /\ seen' = seen
    BY <1>1, <1>4, <1>5 DEF RowsAt
  <2> QED
    BY <1>1, <1>3, <1>5, <2>1, OnWireRests DEF Log!vars
<1>6. CASE Backlog # {}
  <2>1. /\ Latest \in Backlog /\ \A s \in Backlog : s <= Latest
        /\ Backlog = {s \in Backlog : s <= Latest}
    <3>1. Latest \in Rows /\ \A s \in Rows : s <= Latest
      BY <1>1, <1>6, LatestIsRow DEF Backlog
    <3>2. Rows \subseteq Nat /\ cl.cursor \in Nat \cup {-1}
      BY <1>1 DEF Rows, JournalOK, ClientType
    <3>3. PICK s : s \in Backlog
      BY <1>6
    <3>4. Latest > cl.cursor
      BY <3>1, <3>2, <3>3 DEF Backlog
    <3>5. Latest \in Backlog /\ \A t \in Backlog : t <= Latest
      BY <3>1, <3>4 DEF Backlog
    <3> QED
      BY <3>5
  <2>2. c \in ClientType
    BY <1>1, <1>2, LatestIsRow DEF ClientType
  <2>3. /\ cl'.cursor = Latest
        /\ \/ cl'.mode = "open"
           \/ cl'.mode = "over" /\ \E s \in Backlog : Terminal(journal[s])
    BY <1>3, <1>4, <1>6, <2>2 DEF Closed, ClientType
  <2>4. seen' = seen \cup RowsAt({s \in Backlog : s <= Latest})
    BY <1>1, <2>1
  <2>5. \E n \in DOMAIN journal : Log!Replay(n)
    BY <1>1, <2>1, <2>3, <2>4, ReplayLogged
  <2> QED
    BY <2>5 DEF Log!Next
<1> QED
  BY <1>5, <1>6

\* A snapshot that is cut is a shorter replay.
LEMMA CutLogged ==
  ASSUME JournalInv, SnapshotCut PROVE [Log!Next]_Log!vars
<1>1. cl \in ClientType /\ UNCHANGED <<st, wire, journal>> /\ cl.mode = "open"
  BY DEF JournalInv, ClientOK, SnapshotCut
<1>2. PICK last \in Backlog :
        /\ seen' = seen \cup RowsAt({s \in Backlog : s <= last})
        /\ cl' = Closed([cl EXCEPT !.cursor = last], "away")
  BY DEF SnapshotCut, Hand
<1>3. cl'.cursor = last /\ cl'.mode = "away"
  BY <1>1, <1>2 DEF Closed, ClientType
<1> QED
  BY <1>1, <1>2, <1>3, ReplayLogged DEF Log!Next

\* A queued frame is a row of the log, and dropped when it was replayed.
LEMMA TailLogged ==
  ASSUME JournalInv, TailFrame PROVE [Log!Next]_Log!vars
<1>1. /\ cl \in ClientType /\ UNCHANGED <<st, wire, journal>> /\ cl.mode = "open"
      /\ cl.inbox \in Seq(Frames) /\ cl.inbox # <<>> /\ Committed(cl.inbox)
  BY DEF JournalInv, ClientOK, ClientType, TailFrame, Tailing
<1>2. PICK f : f = Head(cl.inbox)
  OBVIOUS
<1>3. PICK rest : rest = [cl EXCEPT !.inbox = Tail(cl.inbox)]
  OBVIOUS
<1>4. PICK c : c = [rest EXCEPT !.cursor = f.seq]
  OBVIOUS
<1>5. f \in Frames /\ f.seq \in DOMAIN journal /\ f = Log!FrameAt(f.seq)
  <2>1. f \in Frames /\ f.seq \in DOMAIN journal /\ journal[f.seq] = f.ev
    BY <1>1, <1>2, TailOf DEF Committed
  <2> QED
    BY <2>1 DEF Frames, Log!FrameAt
<1>6. /\ rest.mode = "open" /\ rest.cursor = cl.cursor
      /\ c.mode = "open" /\ c.cursor = f.seq
      /\ Closed(c, "over").mode = "over" /\ Closed(c, "over").cursor = f.seq
  BY <1>1, <1>3, <1>4 DEF ClientType, Closed
<1>7. CASE Fresh(f)
  <2>1. seen' = seen \cup {f} /\ cl' = IF Terminal(f.ev) THEN Closed(c, "over") ELSE c
    BY <1>2, <1>3, <1>4, <1>7 DEF TailFrame, Hand
  <2>2. f.ev = journal[f.seq] /\ journal[f.seq] \in Events /\ f.seq > cl.cursor
    BY <1>5, <1>7 DEF Log!FrameAt, Fresh, JournalInv, JournalOK
  <2>3. PICK n \in DOMAIN journal : n = f.seq
    BY <1>5
  <2>4. /\ cl'.cursor = n /\ seen' = seen \cup {Log!FrameAt(n)} /\ n > cl.cursor
        /\ cl'.mode = IF journal[n] \in {e \in Events : Terminal(e)} THEN "over" ELSE "open"
    BY <1>5, <1>6, <2>1, <2>2, <2>3
  <2>5. Log!Tail(n)
    BY <1>1, <2>3, <2>4, OnWireRests DEF Log!Tail
  <2> QED
    BY <2>5 DEF Log!Next
<1>8. CASE ~Fresh(f)
  <2>1. cl' = rest /\ seen' = seen
    BY <1>2, <1>3, <1>8 DEF TailFrame
  <2> QED
    BY <1>1, <1>6, <2>1, OnWireRests DEF Log!vars
<1> QED
  BY <1>7, <1>8

\* A connection begins or ends, without a row.
LEMMA ConnectionLogged ==
  ASSUME JournalInv,
         \/ Disconnect \/ Connect \/ SubscribeRefused \/ SnapshotFails
         \/ Watchdog \/ WatchdogStale \/ SubscriptionBreaks \/ CloseUntailed
  PROVE  [Log!Next]_Log!vars
<1>1. cl \in ClientType
  BY DEF JournalInv, ClientOK
<1>2. UNCHANGED <<st, wire, journal, seen>>
  BY DEF Disconnect, Connect, SubscribeRefused, Open, SnapshotFails, Watchdog, WatchdogStale,
         SubscriptionBreaks, CloseUntailed
<1>3. CASE Disconnect \/ Connect \/ SubscribeRefused \/ SubscriptionBreaks \/ CloseUntailed
  <2>1. cl.mode \in {"away", "open"} /\ cl'.mode \in {"away", "open"} /\ cl'.cursor = cl.cursor
    BY <1>1, <1>3 DEF Disconnect, Connect, SubscribeRefused, Open, SubscriptionBreaks,
       CloseUntailed, Closed, ClientType
  <2> QED
    BY <1>2, <2>1, OnWireRests DEF Log!vars
<1>4. CASE SnapshotFails \/ Watchdog \/ WatchdogStale
  <2>1. cl.mode = "open" /\ cl'.mode = "over" /\ cl'.cursor = cl.cursor
    BY <1>1, <1>4 DEF SnapshotFails, Watchdog, WatchdogStale, Tailing, Closed, ClientType
  <2>2. Log!Stop
    BY <1>2, <2>1, OnWireRests DEF Log!Stop
  <2> QED
    BY <2>2 DEF Log!Next
<1> QED
  BY <1>3, <1>4

\* A continuation starts, and nothing is on its connection yet.
LEMMA ContinueLogged ==
  ASSUME JournalInv, CursorInv, NEW seed, Continue(seed)
  PROVE  [Log!Next]_Log!vars
<1>1. /\ st[1].pc = "none" /\ UNCHANGED <<wire, journal, seen>>
      /\ st'[1] = NewStream("run", seed) /\ st'[0] = st[0]
  BY DEF Continue, JournalInv, StreamsOK, Streams
<1>2. wire[1] = <<>> /\ ~Held(1) /\ ~Held(1)'
  <2>1. Unstarted(1) /\ WriterTold(1)
    BY <1>1 DEF CursorInv, WireTold, Streams
  <2>2. st'[1].io = "idle" /\ st'[1].frames = <<>>
    BY <1>1 DEF NewStream
  <2> QED
    BY <1>1, <2>1, <2>2 DEF Unstarted, WriterTold, Held, Ready
<1>3. Yielded(0)' = Yielded(0) /\ Yielded(1)' = Yielded(1)
  BY <1>1, <1>2 DEF Yielded, Held, Ready
<1>4. OnWire' = OnWire
  BY <1>3 DEF OnWire, Streams
<1>5. CASE UNCHANGED cl
  BY <1>1, <1>4, <1>5 DEF Log!vars
<1>6. CASE /\ cl.mode \in {"live", "over"}
           /\ cl' = [NewClient("live") EXCEPT !.src = 1, !.base = seed + 1, !.conns = cl.conns]
  <2>1. cl'.mode = "live" /\ cl'.cursor = -1
    BY <1>6 DEF NewClient
  <2>2. Log!Follow
    BY <1>1, <1>4, <1>6, <2>1 DEF Log!Follow
  <2> QED
    BY <2>2 DEF Log!Next
<1> QED
  BY <1>5, <1>6 DEF Continue

\* Each step is a step of the log, or none.
LEMMA LogStep ==
  ASSUME JournalInv, JournalInv', CursorInv, [Next]_vars PROVE [Log!Next]_Log!vars
<1>1. CASE UNCHANGED vars
  BY <1>1, OnWireRests DEF vars, Log!vars
<1>2. ASSUME NEW p \in Streams, Generate(p) \/ Flush(p) \/ StreamFault(p)
      PROVE  Log!Write
  <2>1. CASE Generate(p)
    BY <2>1, EmitLogged, GeneratorLogged DEF Generate
  <2>2. CASE Flush(p)
    BY <2>2, FlushLogged
  <2>3. CASE StreamFault(p)
    BY <2>3, EmitLogged, GeneratorLogged, CrashLogged, FlushLogged DEF StreamFault
  <2> QED
    BY <1>2, <2>1, <2>2, <2>3
<1>3. CASE Pause \/ PauseUnsaved
  <2>1. 0 \in Streams
    BY DEF Streams
  <2>2. Log!Write
    BY <1>3, <2>1, GeneratorLogged
  <2> QED
    BY <2>2 DEF Log!Next
<1>4. CASE Read
  BY <1>4, SnapshotLogged, TailLogged, ConnectionLogged DEF Read
<1>5. CASE Resume \/ ResumeEarly \/ ResumeUnseeded
  BY <1>5, ContinueLogged DEF Resume, ResumeEarly, ResumeUnseeded
<1>6. CASE LiveDrops \/ LiveEnds
  BY <1>6, LiveLogged DEF Log!Next
<1>7. CASE Client
  BY <1>5, <1>6, <1>7, CutLogged, ConnectionLogged DEF Client
<1>8. CASE Truncate
  BY <1>8, OnWireRests DEF Truncate, Log!vars
<1>9. CASE OtherFault
  BY <1>3, <1>5, <1>8, <1>9, ConnectionLogged DEF OtherFault
<1> QED
  BY <1>1, <1>2, <1>3, <1>4, <1>7, <1>9 DEF Next, Log!Next

\* Whatever is batched, renumbered, published late, lost, cut or restarted, the reconnecting
\* client is given rows of a log: all that the snapshot has and each later one once, with
\* rising ids and nothing after a terminal event (async_event_replay.py).
THEOREM ImplementsReplayLogHolds == Spec => ImplementsReplayLog
<1>1. Init => Log!Init
  <2> SUFFICES ASSUME Init PROVE Log!Init
    OBVIOUS
  <2>1. \A p \in Streams : wire[p] = <<>> /\ Yielded(p) = <<>>
    <3>1. \A p \in Streams : wire[p] = <<>> /\ st[p].io = "idle" /\ st[p].frames = <<>>
      BY DEF Init, NewStream
    <3> QED
      BY <3>1 DEF Yielded, Held, Ready
  <2>2. OnWire = {}
    BY <2>1 DEF OnWire
  <2> QED
    BY <2>2 DEF Init, NewClient, Log!Init
<1>2. JournalInv /\ CursorInv /\ [Next]_vars => JournalInv' /\ CursorInv'
  BY InvStep, CursorStep
<1>3. JournalInv /\ JournalInv' /\ CursorInv /\ [Next]_vars => [Log!Next]_Log!vars
  BY LogStep
<1> QED
  BY <1>1, <1>2, <1>3, InvInit, CursorInit, PTL DEF Spec, ImplementsReplayLog, Log!Spec
=============================================================================
