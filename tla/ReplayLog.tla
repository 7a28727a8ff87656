------------------------------ MODULE ReplayLog ------------------------------
(***************************************************************************)
(* What the journal and the reconnect endpoint promise a client, without   *)
(* batches, channels, snapshots, watchdogs or faults: a log to which rows  *)
(* are only added, and a client that follows a stream until it loses it,   *)
(* and from then on is given rows of the log, each once and in their       *)
(* order, up to one that ends the answer.  StreamJournal implements it     *)
(* (StreamJournal!ImplementsReplayLog).                                    *)
(***************************************************************************)
EXTENDS Integers

CONSTANTS
  Frame,           \* a number and an event
  Ending           \* the events after which nothing follows

VARIABLES
  log,             \* number -> event
  sent,            \* frames put on the connections of the streams
  given,           \* frames the client has
  cursor,          \* the last number it was given, -1 if none
  mode             \* "following" a stream, "away" from it, or told that it is "over"

vars == <<log, sent, given, cursor, mode>>

FrameAt(n) == [seq |-> n, ev |-> log[n]]

Init ==
  /\ log = [n \in {} |-> 0]
  /\ sent = {} /\ given = {}
  /\ cursor = -1
  /\ mode = "following"

\* The streams send frames and write rows; no row is changed or removed.
Write ==
  /\ \A n \in DOMAIN log : n \in DOMAIN log' /\ log'[n] = log[n]
  /\ sent \subseteq sent' /\ sent' \subseteq Frame
  /\ UNCHANGED <<given, cursor, mode>>

\* The connection of the stream ends, or breaks anywhere.
Leave ==
  /\ mode = "following" /\ mode' \in {"away", "over"}
  /\ given \subseteq given' /\ given' \subseteq given \cup sent
  /\ cursor' = cursor \/ \E f \in given' \cap sent : cursor' = f.seq
  /\ UNCHANGED <<log, sent>>

\* A reconnect: every row beyond the cursor up to `last`.
Replay(last) ==
  LET rows == {n \in DOMAIN log : cursor < n /\ n <= last} IN
  /\ mode = "away" /\ last \in rows
  /\ given' = given \cup {FrameAt(n) : n \in rows}
  /\ cursor' = last
  /\ mode' = "away" \/ (mode' = "over" /\ \E n \in rows : log[n] \in Ending)
  /\ UNCHANGED <<log, sent>>

\* A row that was added since.
Tail(n) ==
  /\ mode = "away" /\ n \in DOMAIN log /\ n > cursor
  /\ given' = given \cup {FrameAt(n)}
  /\ cursor' = n
  /\ mode' = IF log[n] \in Ending THEN "over" ELSE "away"
  /\ UNCHANGED <<log, sent>>

\* The client is told that nothing follows.
Stop ==
  /\ mode = "away" /\ mode' = "over"
  /\ UNCHANGED <<log, sent, given, cursor>>

\* It starts the next stream over the same answer.
Follow ==
  /\ mode # "away" /\ mode' = "following"
  /\ cursor' = -1
  /\ UNCHANGED <<log, sent, given>>

Next == Write \/ Leave \/ Stop \/ Follow
        \/ \E n \in DOMAIN log : Replay(n) \/ Tail(n)

Spec == Init /\ [][Next]_vars
=============================================================================
