------------------------------ MODULE UserEvents ------------------------------
(***************************************************************************)
(* The notifications of one user: publishers that append to the backlog    *)
(* and then publish, the seats of /api/events, and the stream of one tab,  *)
(* which subscribes, replays the backlog past its cursor and follows the   *)
(* channel.  Each action is one Redis command, or one frame.               *)
(***************************************************************************)
EXTENDS Integers, Sequences, FiniteSets, FiniteSetsExt

CONSTANTS
  Tabs,          \* browser tabs of the user
  Reader,        \* the tab whose stream is followed; the others only take seats
  SeatCap,       \* SSE_MAX_CONCURRENT_PER_USER
  Kept,          \* EVENTS_STREAM_MAXLEN
  ReplayMax,     \* EVENTS_REPLAY_MAX_PER_REQUEST
  MaxEvents,     \* bound: events ever published
  MaxLeaks,      \* bound: seats that leak before the counter expires
  EventFaults    \* subset of {"publish", "replay", "seat", "kill"}

ASSUME EventsAssumption ==
  /\ IsFiniteSet(Tabs) /\ Reader \in Tabs
  /\ {SeatCap, Kept, ReplayMax, MaxEvents, MaxLeaks} \subseteq Nat \ {0}
  /\ EventFaults \subseteq {"publish", "replay", "seat", "kill"}

VARIABLES
  feed,      \* the backlog: its last id, the oldest retained, the first one that is not
             \* too old; `unsent` were appended and not yet published
  seats,     \* the connection counter of the user: value, and whether it expires
  tab,       \* the request of each tab, and whether the counter has it
  pipe,      \* the stream of the reader
  client,    \* the reader's tab: its cursor (0: none), the events it was given since
             \* `base`, and those it was given twice by one stream
  slips,     \* history: events kept from the reader by a fault or a race
  cut,       \* history: events that a full replay left out
  leaks,     \* history: seats that nobody gives back
  lapsedSeats \* history: the counter expired in use

eventVars == <<feed, seats, tab, pipe, client, slips, cut, leaks, lapsedSeats>>

EventIds == 1..MaxEvents

Notice == 0    \* the frame backlog.truncated, which has no id

NoPipe == [pc |-> "off", lines |-> <<>>, inbox |-> <<>>, floor |-> 0, edge |-> 0, heard |-> {}]

Seated == {t \in Tabs : tab[t].pc # "away" /\ tab[t].counted}

EventsTypeOK ==
  /\ feed \in [last : 0..MaxEvents, oldest : EventIds, young : 1..MaxEvents + 1,
               unsent : SUBSET EventIds]
  /\ seats.value \in Int /\ seats.expires \in BOOLEAN
  /\ tab \in [Tabs -> [pc : {"away", "refused", "open", "closing"}, counted : BOOLEAN]]
  /\ pipe \in [pc : {"off", "opened", "subscribed", "probed", "live", "draining"},
               lines : Seq(0..MaxEvents), inbox : Seq(EventIds), floor : 0..MaxEvents,
               edge : 0..MaxEvents + 1, heard : SUBSET EventIds]
  /\ client \in [cursor : 0..MaxEvents, base : 0..MaxEvents, got : SUBSET EventIds,
                 twice : SUBSET EventIds]
  /\ slips \subseteq EventIds /\ cut \subseteq EventIds
  /\ leaks \in 0..MaxLeaks /\ lapsedSeats \in BOOLEAN

-----------------------------------------------------------------------------
(* publish_user_event.                                                      *)

\* XADD with MAXLEN ~: the backlog may be trimmed, but not below its cap.
AppendEvent ==
  /\ feed.last < MaxEvents
  /\ \E o \in feed.oldest..Max({feed.oldest, feed.last + 2 - Kept}) :
       feed' = [feed EXCEPT !.last = @ + 1, !.oldest = o, !.unsent = @ \cup {feed.last + 1}]
  /\ UNCHANGED <<seats, tab, pipe, client, slips, cut, leaks, lapsedSeats>>

\* After the PUBLISH of a later event it comes out of order.
Late(e) == \E d \in e + 1..feed.last : d \notin feed.unsent

\* From SUBSCRIBE on, what is published waits in the connection.
Listening == pipe.pc \in {"subscribed", "probed", "live"}

PublishEvent(e) ==
  /\ e \in feed.unsent
  /\ feed' = [feed EXCEPT !.unsent = @ \ {e}]
  /\ \/ /\ pipe' = IF Listening THEN [pipe EXCEPT !.inbox = Append(@, e)] ELSE pipe
        /\ slips' = IF Late(e) THEN slips \cup {e} ELSE slips
     \/ /\ "publish" \in EventFaults
        /\ slips' = slips \cup {e}
        /\ UNCHANGED pipe
  /\ UNCHANGED <<seats, tab, client, cut, leaks, lapsedSeats>>

\* The oldest replayed entry passes EVENTS_REPLAY_MAX_AGE_HOURS.
EventAges ==
  /\ feed.young <= feed.last
  /\ feed' = [feed EXCEPT !.young = @ + 1]
  /\ UNCHANGED <<seats, tab, pipe, client, slips, cut, leaks, lapsedSeats>>

-----------------------------------------------------------------------------
(* The seats.                                                               *)

TabGoes(t, pc, counted) == tab' = [tab EXCEPT ![t] = [pc |-> pc, counted |-> counted]]

\* INCR and EXPIRE; the cap and then the replay budget, which counts requests with a
\* cursor, may refuse.
Arrive(t) ==
  /\ tab[t].pc = "away"
  /\ \E e \in IF "seat" \in EventFaults THEN {seats.expires, TRUE} ELSE {TRUE} :
       seats' = [value |-> seats.value + 1, expires |-> e]
  /\ \/ /\ seats.value + 1 > SeatCap \/ t # Reader \/ client.cursor # 0
        /\ TabGoes(t, "refused", TRUE)
        /\ UNCHANGED pipe
     \/ /\ seats.value + 1 <= SeatCap
        /\ TabGoes(t, "open", TRUE)
        /\ pipe' = IF t = Reader THEN [NoPipe EXCEPT !.pc = "opened"] ELSE pipe
  /\ UNCHANGED <<feed, client, slips, cut, leaks, lapsedSeats>>

\* INCR fails: the request is served, and not counted.
ArriveUncounted(t) ==
  /\ "seat" \in EventFaults
  /\ tab[t].pc = "away"
  /\ TabGoes(t, "open", FALSE)
  /\ pipe' = IF t = Reader THEN [NoPipe EXCEPT !.pc = "opened"] ELSE pipe
  /\ UNCHANGED <<feed, seats, client, slips, cut, leaks, lapsedSeats>>

\* The generator ends: the client is gone, or the subscription with nothing to send.
CloseTab(t) ==
  /\ tab[t].pc = "open"
  /\ TabGoes(t, "closing", tab[t].counted)
  /\ pipe' = IF t = Reader THEN NoPipe ELSE pipe
  /\ UNCHANGED <<feed, seats, client, slips, cut, leaks, lapsedSeats>>

\* The process dies with the request.
TabKilled(t) ==
  /\ "kill" \in EventFaults /\ leaks < MaxLeaks
  /\ tab[t].pc \in {"open", "closing", "refused"}
  /\ TabGoes(t, "away", FALSE)
  /\ pipe' = IF t = Reader THEN NoPipe ELSE pipe
  /\ leaks' = IF tab[t].counted THEN leaks + 1 ELSE leaks
  /\ UNCHANGED <<feed, seats, client, slips, cut, lapsedSeats>>

\* DECR, which may fail.
LeaveSeat(t) ==
  /\ tab[t].pc \in {"refused", "closing"}
  /\ TabGoes(t, "away", FALSE)
  /\ \/ /\ seats' = IF tab[t].counted THEN [seats EXCEPT !.value = @ - 1] ELSE seats
        /\ UNCHANGED leaks
     \/ /\ "seat" \in EventFaults /\ tab[t].counted
        /\ leaks < MaxLeaks
        /\ leaks' = leaks + 1
        /\ UNCHANGED seats
  /\ UNCHANGED <<feed, pipe, client, slips, cut, lapsedSeats>>

\* An hour after the last request the key is gone; DECR makes a new one without expiry.
SeatsExpire ==
  /\ seats.expires
  /\ \A t \in Tabs : tab[t].pc # "refused"
  /\ seats' = [value |-> 0, expires |-> FALSE]
  /\ leaks' = 0
  /\ lapsedSeats' = (Seated # {})
  /\ UNCHANGED <<feed, tab, pipe, client, slips, cut>>

-----------------------------------------------------------------------------
(* The stream of the reader.                                                *)

\* SUBSCRIBE: a request without a cursor starts live.
SubscribeTab ==
  /\ pipe.pc = "opened"
  /\ IF client.cursor = 0
       THEN /\ pipe' = [pipe EXCEPT !.pc = "live"]
            /\ client' = [client EXCEPT !.base = feed.last]
       ELSE pipe' = [pipe EXCEPT !.pc = "subscribed"] /\ UNCHANGED client
  /\ UNCHANGED <<feed, seats, tab, slips, cut, leaks, lapsedSeats>>

\* XINFO: the edge of what can be replayed; a cursor before it is answered with a notice.
ProbeBacklog ==
  /\ pipe.pc = "subscribed"
  /\ \E oldest \in {feed.oldest} \cup (IF "replay" \in EventFaults THEN {0} ELSE {}) :
       LET edge == Max({oldest, feed.young}) IN
       pipe' = [pipe EXCEPT
         !.pc = "probed", !.edge = edge,
         !.lines = IF client.cursor < edge THEN <<Notice>> ELSE <<>>]
  /\ UNCHANGED <<feed, seats, tab, client, slips, cut, leaks, lapsedSeats>>

\* The entries past the cursor that are retained and not too old.
Replayable ==
  Max({client.cursor + 1, feed.oldest, feed.young})..feed.last

\* Events that are gone although no notice told so.
GoneUntold ==
  LET told == IF pipe.lines = <<>> THEN 0 ELSE pipe.edge - 1 IN
  {e \in client.cursor + 1..feed.last : e > told} \ Replayable

ReadBacklog ==
  /\ pipe.pc = "probed"
  /\ LET first == Min(Replayable \cup {feed.last + 1})
         upto  == Min({feed.last, first + ReplayMax - 1})
     IN /\ pipe' = [pipe EXCEPT
             !.pc = "live", !.lines = @ \o [i \in 1..upto - first + 1 |-> first + i - 1],
             !.floor = IF Replayable = {} THEN 0 ELSE upto]
        /\ cut' = cut \cup (upto + 1..feed.last)
  /\ slips' = slips \cup GoneUntold
  /\ UNCHANGED <<feed, seats, tab, client, leaks, lapsedSeats>>

\* XRANGE fails: the stream goes on without a replay.
ReadFails ==
  /\ "replay" \in EventFaults
  /\ pipe.pc = "probed"
  /\ pipe' = [pipe EXCEPT !.pc = "live"]
  /\ slips' = slips \cup (client.cursor + 1..feed.last)
  /\ UNCHANGED <<feed, seats, tab, client, cut, leaks, lapsedSeats>>

Hears(e) ==
  client' = [client EXCEPT !.cursor = e, !.got = @ \cup {e},
                           !.twice = IF e \in pipe.heard THEN @ \cup {e} ELSE @]

\* A line of the replay; the notice makes the tab drop its cursor.
SendLine ==
  /\ pipe.pc \in {"live", "draining"} /\ pipe.lines # <<>>
  /\ LET e == Head(pipe.lines) IN
     IF e = Notice
       THEN /\ client' = [client EXCEPT !.cursor = 0, !.base = Max({@, pipe.edge - 1})]
            /\ pipe' = [pipe EXCEPT !.lines = Tail(@)]
       ELSE /\ Hears(e)
            /\ pipe' = [pipe EXCEPT !.lines = Tail(@), !.heard = @ \cup {e}]
  /\ UNCHANGED <<feed, seats, tab, slips, cut, leaks, lapsedSeats>>

\* Mutant: the last event of the replay is not recognized.
Replayed_before(e) == e < pipe.floor

\* max_replayed_id
Replayed(e) == e <= pipe.floor

\* A frame of the channel, unless the replay had it.
SendLive ==
  /\ pipe.pc = "live" /\ pipe.lines = <<>> /\ pipe.inbox # <<>>
  /\ LET e == Head(pipe.inbox) IN
     IF Replayed(e)
       THEN pipe' = [pipe EXCEPT !.inbox = Tail(@)] /\ UNCHANGED client
       ELSE /\ Hears(e)
            /\ pipe' = [pipe EXCEPT !.inbox = Tail(@), !.heard = @ \cup {e}]
  /\ UNCHANGED <<feed, seats, tab, slips, cut, leaks, lapsedSeats>>

\* The subscription breaks, or the process shuts down: the replay is still sent.
Drain ==
  /\ pipe.pc = "live" /\ pipe.lines # <<>>
  /\ pipe' = [pipe EXCEPT !.pc = "draining", !.inbox = <<>>]
  /\ UNCHANGED <<feed, seats, tab, client, slips, cut, leaks, lapsedSeats>>

EventsInit ==
  /\ feed = [last |-> 0, oldest |-> 1, young |-> 1, unsent |-> {}]
  /\ seats = [value |-> 0, expires |-> FALSE]
  /\ tab = [t \in Tabs |-> [pc |-> "away", counted |-> FALSE]]
  /\ pipe = NoPipe
  /\ client = [cursor |-> 0, base |-> 0, got |-> {}, twice |-> {}]
  /\ slips = {} /\ cut = {}
  /\ leaks = 0 /\ lapsedSeats = FALSE

TabStep(t) ==
  \/ Arrive(t) \/ ArriveUncounted(t) \/ CloseTab(t) \/ TabKilled(t) \/ LeaveSeat(t)

EventsNext ==
  \/ AppendEvent \/ EventAges \/ SeatsExpire
  \/ \E e \in EventIds : PublishEvent(e)
  \/ \E t \in Tabs : TabStep(t)
  \/ SubscribeTab \/ ProbeBacklog \/ ReadBacklog \/ ReadFails
  \/ SendLine \/ SendLive \/ Drain

EventsSpec == EventsInit /\ [][EventsNext]_eventVars

-----------------------------------------------------------------------------
(* Properties.                                                              *)

Skipped == {e \in client.base + 1..client.cursor : e \notin client.got}

\* The cursor of a tab passes no event that it was not given, so that the next request
\* resumes where this one ended: but for events a fault or a race kept from it, that a
\* full replay left out, or that are appended and still to be published.
NothingSkipped == Skipped \subseteq slips \cup cut \cup feed.unsent

\* A stream with nothing left to send has sent everything since the tab last began
\* without a cursor, or since the edge that its last notice named.
CaughtUp ==
  pipe.pc = "live" /\ pipe.lines = <<>> /\ pipe.inbox = <<>> /\ feed.unsent = {} =>
    client.base + 1..feed.last \subseteq client.got \cup slips \cup cut

\* While the counter has not expired in use it counts the requests at work and the seats
\* that leaked, and no more requests than the cap are served.
SeatsHold ==
  lapsedSeats \/ /\ seats.value = Cardinality(Seated) + leaks
                  /\ Cardinality({t \in Seated : tab[t].pc = "open"}) <= SeatCap

\* The above, and no stream sends an event twice.
EventsSafe == NothingSkipped /\ CaughtUp /\ SeatsHold /\ client.twice = {}

\* "The cursor advances via the per-entry id: headers ... so the next reconnect resumes
\* from there" (routes.py:382-385): a tab further behind than one replay catches up.
ReplaysCatchUp == Skipped \subseteq slips \cup feed.unsent
=============================================================================
