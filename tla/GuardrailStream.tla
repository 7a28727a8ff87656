--------------------------- MODULE GuardrailStream ---------------------------
(***************************************************************************)
(* The output guard of one streamed answer: text is held until the checks  *)
(* have seen enough of what follows, and released with the matches masked. *)
(* A detector matches whole words by one pattern; a judge, if there is     *)
(* one, passes or blocks whole segments.                                   *)
(*                                                                         *)
(* The patterns of guardrails/checks/patterns.py are of four kinds:        *)
(*   short   no match is longer than the window: AWS_ACCESS_KEY,           *)
(*           GOOGLE_API_KEY, US_SSN, PHONE, CREDIT_CARD, IBAN, IPV4;       *)
(*   prefix  recognised by its beginning, however long it gets:            *)
(*           GITHUB_TOKEN, OPENAI_KEY, ANTHROPIC_KEY, SLACK_TOKEN;         *)
(*   value   as prefix, but only behind the name it is assigned to, and    *)
(*           the name is not reported: GENERIC_SECRET;                     *)
(*   closed  recognised when its end is there, however long it is: EMAIL,  *)
(*           JWT, a link, the block of PRIVATE_KEY.                        *)
(***************************************************************************)
EXTENDS Integers, Sequences, FiniteSetsExt

CONSTANTS
  Lookback,      \* the window
  MinMatch,      \* the shortest match
  SegmentChars,  \* segment_chars
  MaxHold,       \* MAX_HOLD_CHARS
  MaxChunk,      \* bound: length of what one feed brings
  MaxText        \* bound: length of the answer

ASSUME GuardAssumption ==
  /\ {Lookback, MinMatch, SegmentChars, MaxHold, MaxChunk, MaxText} \subseteq Nat \ {0}
  /\ MinMatch <= Lookback /\ Lookback < MaxHold

VARIABLES
  setup,      \* the configuration: whether a judge must pass a segment, the kind of
              \* the pattern, the action, and fail_open
  answer,     \* history: the text fed so far
  heldBack,   \* _held: the end of it that was not released
  shown,      \* for each released character, whether it went out clear or masked
  state,      \* "blocked" in the stream, "retracted" by a check of the whole answer
  unscanned,  \* history: text was released although a check could not run
  severed     \* history: the names that went out before what is assigned to them

guardVars == <<setup, answer, heldBack, shown, state, unscanned, severed>>

\* A letter, a sentence terminator, a blank, a name with the sign that assigns to it.
Characters == {"s", ".", " ", "="}

Strings(n) == UNION {[1..k -> Characters] : k \in 0..n}

GuardSetups ==
  [judged : BOOLEAN, pattern : {"short", "prefix", "value", "closed"},
   action : {"redact", "block"}, failOpen : BOOLEAN]

GuardTypeOK ==
  /\ setup \in GuardSetups
  /\ answer \in Seq(Characters) /\ heldBack \in Seq(Characters)
  /\ shown \in Seq({"clear", "masked"})
  /\ state \in {"open", "ended", "blocked", "retracted"}
  /\ unscanned \in BOOLEAN
  /\ severed \subseteq Nat

-----------------------------------------------------------------------------
(* The detector and the points of release.                                  *)

MatchLengths == IF setup.pattern = "short" THEN MinMatch..Lookback ELSE MinMatch..MaxText

\* A terminator may be part of a word, as in an address.
InWord == {"s", "."}

\* The words of t, as first and last place, none part of a longer one.
Words(t) ==
  {w \in (1..Len(t)) \X (1..Len(t)) :
     /\ w[1] <= w[2]
     /\ \A i \in w[1]..w[2] : t[i] \in InWord
     /\ w[1] = 1 \/ t[w[1] - 1] \notin InWord
     /\ w[2] = Len(t) \/ t[w[2] + 1] \notin InWord}

\* What a scan of t reports.
Spans(t) ==
  {w \in Words(t) :
     /\ w[2] - w[1] + 1 \in MatchLengths
     /\ setup.pattern = "value" => w[1] > 1 /\ t[w[1] - 1] = "="
     /\ setup.pattern = "closed" => t[w[2]] = "."}

Within(i, spans) == \E s \in spans : s[1] <= i /\ i <= s[2]

\* _last_boundary: a terminator before a blank or at the end.
LastBoundary(t) ==
  Max({0} \cup {i \in 1..Len(t) : t[i] = "." /\ (i = Len(t) \/ t[i + 1] = " ")})

BeforeWindow(t) == Max({0, Len(t) - Lookback})

\* _release_point
ReleasePoint(t) ==
  IF ~setup.judged THEN BeforeWindow(t)
  ELSE IF LastBoundary(t) < SegmentChars THEN 0
  ELSE Min({LastBoundary(t), BeforeWindow(t)})

\* Mutant: a match may be cut in two.
SafeRelease_cut(end, spans) == end

\* _safe_release: matches do not overlap, so one step back is enough.
SafeRelease(end, spans) ==
  Min({end} \cup {s[1] - 1 : s \in {x \in spans : x[1] <= end /\ end < x[2]}})

-----------------------------------------------------------------------------
(* feed and flush.                                                          *)

MarksOf(end, spans) == [i \in 1..end |-> IF Within(i, spans) THEN "masked" ELSE "clear"]

\* _split: t up to `end` is released, the matches in it masked; the rest is held as it is.
Release(t, end, spans) ==
  /\ shown' = shown \o MarksOf(end, {s \in spans : s[2] <= end})
  /\ heldBack' = SubSeq(t, end + 1, Len(t))
  /\ severed' = severed \cup {n \in {Len(shown) + end} : end > 0 /\ t[end] = "="}

\* The check of t ends the answer: a match, a verdict of the judge, or no verdict.
Blocks(t) ==
  /\ \/ setup.action = "block" /\ Spans(t) # {}
     \/ setup.judged
     \/ ~setup.failOpen
  /\ state' = "blocked"
  /\ heldBack' = <<>>
  /\ UNCHANGED <<shown, unscanned, severed>>

\* The check of t lets it pass: it was evaluated, or it failed open.
Passes(t, end, next) ==
  /\ \/ /\ setup.action = "redact" \/ Spans(t) = {}
        /\ Release(t, SafeRelease(end, Spans(t)), Spans(t))
        /\ UNCHANGED unscanned
     \/ /\ setup.failOpen
        /\ Release(t, end, {})
        /\ unscanned' = (unscanned \/ end > 0)
  /\ state' = next

Forced(t) == ReleasePoint(t) = 0 /\ Len(t) > MaxHold

Feed(chunk) ==
  /\ state = "open"
  /\ Len(answer) + Len(chunk) <= MaxText
  /\ answer' = answer \o chunk
  /\ LET t == heldBack \o chunk IN
     IF ReleasePoint(t) = 0 /\ ~Forced(t)
       THEN heldBack' = t /\ UNCHANGED <<shown, state, unscanned, severed>>
       ELSE \/ Blocks(t)
            \/ Passes(t, IF Forced(t) THEN BeforeWindow(t) ELSE ReleasePoint(t), "open")
  /\ UNCHANGED setup

\* The tail is scanned once more; then the checks of the whole answer may retract it.
Flush ==
  /\ state = "open"
  /\ \/ heldBack # <<>> /\ Blocks(heldBack)
     \/ \E next \in {"ended", "retracted"} : Passes(heldBack, Len(heldBack), next)
  /\ UNCHANGED <<setup, answer>>

GuardInit ==
  /\ setup \in GuardSetups
  /\ answer = <<>> /\ heldBack = <<>> /\ shown = <<>>
  /\ state = "open"
  /\ unscanned = FALSE
  /\ severed = {}

GuardNext == Flush \/ \E chunk \in Strings(MaxChunk) \ {<<>>} : Feed(chunk)

GuardSpec == GuardInit /\ [][GuardNext]_guardVars

-----------------------------------------------------------------------------
(* Properties.                                                              *)

\* A match that the guard can see to its end before it has to let go of its front: one
\* recognised by its end fits the window, and the name of a value is still held with it.
Promised(t) ==
  {s \in Spans(t) :
     /\ setup.pattern = "closed" => s[2] - s[1] + 1 <= Lookback
     /\ setup.pattern = "value" => s[1] - 1 \notin severed}

\* No character of such a match in the answer goes out clear, however the answer is cut
\* into chunks, unless a check could not run and the configuration lets that pass.
NothingLeaks ==
  unscanned \/ \A i \in 1..Len(shown) : Within(i, Promised(answer)) => shown[i] = "masked"

\* A word at the front of t that reaches the window: a match whose end was not seen yet,
\* or the value of a name that is out, which is no match any more.
Growing(t) ==
  \E w \in Words(t) : /\ w[1] = 1 /\ w[2] > Len(t) - Lookback
                      /\ w \in Spans(t) \/ setup.pattern = "value"

\* An answer that was not blocked goes out to its end, and no more of it is held back
\* than the ceiling, or the window and the chunk of the last feed, but for a match that
\* is still growing.
NothingStalls ==
  /\ state \in {"ended", "retracted"} => Len(shown) = Len(answer)
  /\ Len(heldBack) <= Max({MaxHold, Lookback + MaxChunk}) \/ Growing(heldBack)

\* The above.
GuardSafe == NothingLeaks /\ NothingStalls
=============================================================================
