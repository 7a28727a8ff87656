--------------------------- MODULE GuardrailProofs ---------------------------
(***************************************************************************)
(* GuardSafe holds for every window, segment, ceiling and chunk size.  What *)
(* carries it: the point of release never lies inside a promised match, of *)
(* what was fed so far or of any continuation (Uncut).  A promised match   *)
(* that begins before that point lies in the window, or is recognised from *)
(* its beginning, so that it was seen in time; one that begins right       *)
(* behind it has its name held with it (Told).                             *)
(***************************************************************************)
EXTENDS GuardrailStream, WellFoundedInduction, TLAPS

-----------------------------------------------------------------------------
(* Least and greatest elements.                                             *)

\* A set of naturals that is not empty has a least element.
LEMMA LeastExists ==
  ASSUME NEW S \in SUBSET Nat, S # {}
  PROVE  \E x \in S : \A y \in S : x <= y
<1> DEFINE R == {ss \in Nat \X Nat : ss[1] < ss[2]}
<1>1. IsWellFoundedOn(R, Nat)
  <2>1. OpToRel(<, Nat) = R
    BY Zenon DEF OpToRel
  <2> QED
    BY <2>1, NatLessThanWellFounded, Zenon
<1> HIDE DEF R
<1>2. PICK x \in S : \A y \in S : <<y, x>> \notin R
  BY <1>1, WFMin, Zenon
<1>3. ASSUME NEW y \in S PROVE x <= y
  <2>1. <<y, x>> \notin R
    BY <1>2, Zenon
  <2>2. <<y, x>> \in Nat \X Nat
    BY Zenon
  <2> QED
    BY <2>1, <2>2 DEF R
<1> QED
  BY <1>3

\* ... which is its Min.
LEMMA MinOfNat ==
  ASSUME NEW S \in SUBSET Nat, S # {}
  PROVE  Min(S) \in S /\ \A y \in S : Min(S) <= y
<1>1. PICK x \in S : \A y \in S : x <= y
  BY LeastExists
<1> QED
  BY <1>1 DEF Min

\* A bounded set of naturals that is not empty has a greatest element.
LEMMA MaxOfNat ==
  ASSUME NEW n \in Nat, NEW S \in SUBSET (0..n), S # {}
  PROVE  Max(S) \in S /\ \A y \in S : y <= Max(S)
<1> DEFINE T == {n - x : x \in S}
<1>1. T \in SUBSET Nat /\ T # {}
  <2>1. \A x \in S : n - x \in Nat
    OBVIOUS
  <2> QED
    BY <2>1
<1>2. PICK z \in T : \A y \in T : z <= y
  BY <1>1, LeastExists, Zenon
<1>3. PICK x \in S : z = n - x
  BY <1>2
<1>4. \A y \in S : y <= x
  BY <1>2, <1>3
<1> QED
  BY <1>4 DEF Max

-----------------------------------------------------------------------------
(* Words, matches and their places in a longer text.                        *)

\* t[a..b] is a word, and not part of a longer one.
IsWord(t, a, b) ==
  /\ a \in 1..Len(t) /\ b \in 1..Len(t) /\ a <= b
  /\ \A i \in a..b : t[i] \in InWord
  /\ a = 1 \/ t[a - 1] \notin InWord
  /\ b = Len(t) \/ t[b + 1] \notin InWord

\* t stands in u behind its first p characters.
StandsIn(t, u, p) ==
  /\ p + Len(t) <= Len(u)
  /\ \A i \in 1..Len(t) : t[i] = u[p + i]

LEMMA Sizes ==
  /\ Lookback \in Nat \ {0} /\ MinMatch \in Nat \ {0} /\ SegmentChars \in Nat \ {0}
  /\ MaxHold \in Nat \ {0} /\ MaxChunk \in Nat \ {0} /\ MaxText \in Nat \ {0}
  /\ MinMatch <= Lookback /\ Lookback < MaxHold
BY GuardAssumption DEF GuardAssumption

\* What is between places a and b of t is of a length and in a place that are reported.
Reported(t, a, b) ==
  /\ b - a + 1 \in MatchLengths
  /\ setup.pattern = "value" => a > 1 /\ t[a - 1] = "="
  /\ setup.pattern = "closed" => t[b] = "."

\* A word, and a match, is a pair of places.
LEMMA WordIs ==
  ASSUME NEW t \in Seq(Characters), NEW a, NEW b
  PROVE  <<a, b>> \in Words(t) <=> IsWord(t, a, b)
BY DEF Words, IsWord

LEMMA MatchIsWord ==
  ASSUME NEW t \in Seq(Characters), NEW a, NEW b
  PROVE  <<a, b>> \in Spans(t) <=> IsWord(t, a, b) /\ Reported(t, a, b)
<1>1. <<a, b>> \in Spans(t) <=> <<a, b>> \in Words(t) /\ Reported(t, a, b)
  BY DEF Spans, Reported
<1> QED
  BY <1>1, WordIs

LEMMA MatchIsPair ==
  ASSUME NEW t \in Seq(Characters), NEW s \in Spans(t)
  PROVE  \E a \in 1..Len(t), b \in 1..Len(t) : s = <<a, b>> /\ s[1] = a /\ s[2] = b
BY DEF Spans, Words

\* A match is not longer than the text, and one of a short pattern fits the window.
LEMMA MatchLength ==
  ASSUME NEW t \in Seq(Characters), NEW a, NEW b, <<a, b>> \in Spans(t)
  PROVE  /\ a \in 1..Len(t) /\ b \in 1..Len(t) /\ a <= b
         /\ MinMatch <= b - a + 1
         /\ setup.pattern = "short" => b - a + 1 <= Lookback
BY MatchIsWord, Sizes DEF IsWord, Reported, MatchLengths

\* The matches that are promised when the names in sev are out.
KeptOf(t, sev) ==
  {s \in Spans(t) :
     /\ setup.pattern = "closed" => s[2] - s[1] + 1 <= Lookback
     /\ setup.pattern = "value" => s[1] - 1 \notin sev}

LEMMA KeptIs ==
  ASSUME NEW t, NEW sev, NEW a, NEW b
  PROVE  <<a, b>> \in KeptOf(t, sev) <=>
           /\ <<a, b>> \in Spans(t)
           /\ setup.pattern = "closed" => b - a + 1 <= Lookback
           /\ setup.pattern = "value" => a - 1 \notin sev
BY DEF KeptOf

LEMMA KeptIsMatch ==
  ASSUME NEW t, NEW sev PROVE KeptOf(t, sev) \subseteq Spans(t)
BY DEF KeptOf

\* Between two words there is a character that belongs to neither.
LEMMA WordsApart ==
  ASSUME NEW t \in Seq(Characters), NEW a, NEW b, NEW c, NEW d,
         IsWord(t, a, b), IsWord(t, c, d), a < c
  PROVE  b + 1 < c
BY DEF IsWord

\* A match that ends before the text does is a match of any continuation's beginning.
LEMMA MatchOfBeginning ==
  ASSUME NEW t \in Seq(Characters), NEW u \in Seq(Characters), StandsIn(t, u, 0),
         NEW a, NEW b, <<a, b>> \in Spans(u), b < Len(t)
  PROVE  <<a, b>> \in Spans(t)
<1>1. IsWord(u, a, b) /\ Reported(u, a, b)
  BY MatchIsWord
<1>2. Len(t) \in Nat /\ Len(u) \in Nat /\ Len(t) <= Len(u)
  BY DEF StandsIn
<1>3. \A i \in 1..Len(t) : t[i] = u[i]
  BY <1>2 DEF StandsIn
<1>4. a \in 1..Len(t) /\ b \in 1..Len(t) /\ a <= b /\ a # Len(t) /\ b # Len(u)
  BY <1>1, <1>2 DEF IsWord
<1>5. \A i \in a..b : t[i] \in InWord
  BY <1>1, <1>2, <1>3, <1>4 DEF IsWord
<1>6. a = 1 \/ t[a - 1] \notin InWord
  <2> SUFFICES ASSUME a # 1 PROVE t[a - 1] \notin InWord
    OBVIOUS
  <2>1. a - 1 \in 1..Len(t)
    BY <1>2, <1>4
  <2> QED
    BY <1>1, <1>3, <2>1 DEF IsWord
<1>7. t[b + 1] \notin InWord
  <2>1. b + 1 \in 1..Len(t)
    BY <1>2, <1>4
  <2> QED
    BY <1>1, <1>3, <1>4, <2>1 DEF IsWord
<1>8. Reported(t, a, b)
  <2>1. t[b] = u[b]
    BY <1>3, <1>4
  <2>2. ASSUME a > 1 PROVE t[a - 1] = u[a - 1]
    <3>1. a - 1 \in 1..Len(t)
      BY <1>2, <1>4, <2>2
    <3> QED
      BY <1>3, <3>1
  <2> QED
    BY <1>1, <2>1, <2>2 DEF Reported
<1>9. IsWord(t, a, b)
  BY <1>4, <1>5, <1>6, <1>7 DEF IsWord
<1> QED
  BY <1>8, <1>9, MatchIsWord

LEMMA KeptOfBeginning ==
  ASSUME NEW t \in Seq(Characters), NEW u \in Seq(Characters), StandsIn(t, u, 0), NEW sev,
         NEW a, NEW b, <<a, b>> \in KeptOf(u, sev), b < Len(t)
  PROVE  <<a, b>> \in KeptOf(t, sev)
BY MatchOfBeginning, KeptIs

\* A promised match of a continuation that goes over a place before the window goes over
\* it in what was there already.
LEMMA MatchWasSeen ==
  ASSUME NEW t \in Seq(Characters), NEW u \in Seq(Characters), StandsIn(t, u, 0),
         Len(u) <= MaxText, NEW sev,
         NEW q \in Nat, q <= Len(t) - Lookback,
         NEW a, NEW b, <<a, b>> \in KeptOf(u, sev), a <= q, q < b
  PROVE  \E c : <<a, c>> \in KeptOf(t, sev) /\ q < c
<1>1. /\ <<a, b>> \in Spans(u) /\ IsWord(u, a, b) /\ Reported(u, a, b)
      /\ setup.pattern = "closed" => b - a + 1 <= Lookback
      /\ setup.pattern = "value" => a - 1 \notin sev
  BY KeptIs, MatchIsWord
<1>2. /\ Len(t) \in Nat /\ Len(u) \in Nat /\ Len(t) <= Len(u)
      /\ a \in 1..Len(u) /\ b \in 1..Len(u) /\ a <= b
  BY <1>1 DEF StandsIn, IsWord
<1>3. CASE b < Len(t)
  BY <1>3, KeptOfBeginning
<1>4. CASE b >= Len(t)
  <2>1. setup.pattern # "short" /\ setup.pattern # "closed"
    <3>1. b - a + 1 > Lookback
      BY <1>2, <1>4, Sizes
    <3> QED
      BY <1>1, <1>2, <3>1, MatchLength, Sizes
  <2>2. \A i \in 1..Len(t) : t[i] = u[i]
    BY <1>2 DEF StandsIn
  <2>3. IsWord(t, a, Len(t))
    <3>1. a \in 1..Len(t) /\ Len(t) \in 1..Len(t) /\ a <= Len(t)
      BY <1>2, Sizes
    <3>2. ASSUME NEW i \in a..Len(t) PROVE t[i] \in InWord
      <4>1. i \in a..b /\ i \in 1..Len(t)
        BY <1>2, <1>4, <3>1
      <4> QED
        BY <1>1, <2>2, <4>1 DEF IsWord
    <3>3. ASSUME a # 1 PROVE t[a - 1] \notin InWord
      <4>1. a - 1 \in 1..Len(t)
        BY <1>2, <3>1, <3>3
      <4> QED
        BY <1>1, <2>2, <3>3, <4>1 DEF IsWord
    <3> QED
      BY <3>1, <3>2, <3>3 DEF IsWord
  <2>4. Len(t) - a + 1 \in MatchLengths
    <3>1. MinMatch <= Len(t) - a + 1 /\ Len(t) - a + 1 <= MaxText /\ Len(t) - a + 1 \in Nat
      <4>1. Lookback < Len(t) - a + 1 /\ Len(t) - a + 1 <= Len(u)
        BY <1>2, Sizes
      <4> QED
        BY <1>2, <4>1, Sizes
    <3>2. MatchLengths = MinMatch..MaxText
      BY <2>1 DEF MatchLengths
    <3> QED
      BY <3>1, <3>2, Sizes
  <2>5. ASSUME setup.pattern = "value" PROVE a > 1 /\ t[a - 1] = "="
    <3>1. a > 1 /\ u[a - 1] = "="
      BY <1>1, <2>5 DEF Reported
    <3>2. a - 1 \in 1..Len(t)
      BY <1>2, <3>1, Sizes
    <3> QED
      BY <2>2, <3>1, <3>2
  <2>6. <<a, Len(t)>> \in Spans(t)
    BY <2>1, <2>3, <2>4, <2>5, MatchIsWord DEF Reported
  <2>7. <<a, Len(t)>> \in KeptOf(t, sev)
    BY <1>1, <2>1, <2>6, KeptIs
  <2>8. q < Len(t)
    BY <1>2, Sizes
  <2> QED
    BY <2>7, <2>8, Zenon
<1>5. b < Len(t) \/ b >= Len(t)
  BY <1>2
<1> QED
  BY <1>3, <1>4, <1>5, Zenon

\* A word behind the first p characters is a word of what follows them.
LEMMA WordOfRest ==
  ASSUME NEW t \in Seq(Characters), NEW u \in Seq(Characters),
         NEW p \in Nat, StandsIn(t, u, p), Len(u) = p + Len(t),
         NEW a, NEW b, IsWord(u, p + a, p + b), a \in Nat, b \in Nat, a > 0
  PROVE  IsWord(t, a, b) /\ a \in 1..Len(t) /\ b \in 1..Len(t)
<1>1. Len(t) \in Nat /\ Len(u) \in Nat
  OBVIOUS
<1>2. a \in 1..Len(t) /\ b \in 1..Len(t) /\ a <= b
  BY <1>1 DEF IsWord
<1>3. ASSUME NEW i \in a..b PROVE t[i] \in InWord
  <2>1. p + i \in (p + a)..(p + b) /\ i \in 1..Len(t)
    BY <1>1, <1>2
  <2> QED
    BY <2>1 DEF IsWord, StandsIn
<1>4. ASSUME a # 1 PROVE t[a - 1] \notin InWord
  <2>1. a - 1 \in 1..Len(t) /\ p + (a - 1) = (p + a) - 1 /\ p + a # 1
    BY <1>1, <1>2, <1>4
  <2> QED
    BY <2>1 DEF IsWord, StandsIn
<1>5. ASSUME b # Len(t) PROVE t[b + 1] \notin InWord
  <2>1. b + 1 \in 1..Len(t) /\ p + (b + 1) = (p + b) + 1 /\ p + b # Len(u)
    BY <1>1, <1>2, <1>5
  <2> QED
    BY <2>1 DEF IsWord, StandsIn
<1> QED
  BY <1>2, <1>3, <1>4, <1>5 DEF IsWord

\* ... and a match is a match of it, but for a value whose name is not in it.
LEMMA MatchOfRest ==
  ASSUME NEW t \in Seq(Characters), NEW u \in Seq(Characters),
         NEW p \in Nat, StandsIn(t, u, p), Len(u) = p + Len(t),
         NEW a, NEW b, <<p + a, p + b>> \in Spans(u), a \in Nat, b \in Nat, a > 0,
         setup.pattern = "value" => a > 1
  PROVE  <<a, b>> \in Spans(t)
<1>1. IsWord(u, p + a, p + b) /\ Reported(u, p + a, p + b)
  BY MatchIsWord
<1>2. IsWord(t, a, b) /\ a \in 1..Len(t) /\ b \in 1..Len(t)
  BY <1>1, WordOfRest
<1>3. b - a + 1 \in MatchLengths
  <2>1. (p + b) - (p + a) + 1 = b - a + 1
    OBVIOUS
  <2> QED
    BY <1>1, <2>1 DEF Reported
<1>4. ASSUME setup.pattern = "value" PROVE a > 1 /\ t[a - 1] = "="
  <2>1. u[(p + a) - 1] = "="
    BY <1>1, <1>4 DEF Reported
  <2>2. a > 1 /\ a - 1 \in 1..Len(t) /\ p + (a - 1) = (p + a) - 1
    BY <1>2, <1>4
  <2> QED
    BY <2>1, <2>2 DEF StandsIn
<1>5. ASSUME setup.pattern = "closed" PROVE t[b] = "."
  BY <1>1, <1>2, <1>5 DEF Reported, StandsIn
<1> QED
  BY <1>2, <1>3, <1>4, <1>5, MatchIsWord DEF Reported

-----------------------------------------------------------------------------
(* The points of release.                                                   *)

LEMMA MinOfTwo ==
  ASSUME NEW x \in Nat, NEW y \in Nat
  PROVE  Min({x, y}) = IF x <= y THEN x ELSE y
<1>1. Min({x, y}) \in {x, y} /\ Min({x, y}) <= x /\ Min({x, y}) <= y
  BY MinOfNat
<1> QED
  BY <1>1

LEMMA MaxOfTwo ==
  ASSUME NEW x \in Nat, NEW y \in Nat
  PROVE  Max({x, y}) = IF x <= y THEN y ELSE x
<1>1. Max({x, y}) \in {x, y} /\ x <= Max({x, y}) /\ y <= Max({x, y})
  <2>1. {x, y} \in SUBSET (0..(x + y)) /\ x + y \in Nat
    OBVIOUS
  <2> QED
    BY <2>1, MaxOfNat
<1> QED
  BY <1>1

\* t has a sentence end at i.
IsBoundary(t, i) == i \in 1..Len(t) /\ t[i] = "." /\ (i = Len(t) \/ t[i + 1] = " ")

LEMMA LastBoundaryIsLast ==
  ASSUME NEW t \in Seq(Characters)
  PROVE  /\ LastBoundary(t) \in 0..Len(t)
         /\ LastBoundary(t) # 0 => IsBoundary(t, LastBoundary(t))
         /\ \A i : IsBoundary(t, i) => i <= LastBoundary(t)
<1> DEFINE I == {i \in 1..Len(t) : t[i] = "." /\ (i = Len(t) \/ t[i + 1] = " ")}
           B == {0} \cup I
<1>1. Len(t) \in Nat /\ B \in SUBSET (0..Len(t)) /\ B # {}
  <2>1. Len(t) \in Nat
    OBVIOUS
  <2>2. ASSUME NEW x \in B PROVE x \in 0..Len(t)
    <3>1. I \subseteq 1..Len(t)
      BY Zenon
    <3> HIDE DEF I
    <3> QED
      BY <2>1, <3>1
  <2>3. 0 \in B
    OBVIOUS
  <2> QED
    BY <2>1, <2>2, <2>3, Zenon
<1>2. Max(B) \in B /\ \A y \in B : y <= Max(B)
  BY <1>1, MaxOfNat
<1>3. LastBoundary(t) = Max(B)
  BY DEF LastBoundary
<1> HIDE DEF B
<1>4. LastBoundary(t) \in B /\ \A y \in B : y <= LastBoundary(t)
  BY <1>2, <1>3
<1> QED
  BY <1>1, <1>4 DEF B, IsBoundary

LEMMA WindowPoint ==
  ASSUME NEW t \in Seq(Characters)
  PROVE  /\ BeforeWindow(t) \in 0..Len(t)
         /\ BeforeWindow(t) = IF Len(t) <= Lookback THEN 0 ELSE Len(t) - Lookback
<1>1. Len(t) \in Nat
  OBVIOUS
<1>2. CASE Len(t) >= Lookback
  <2>1. Len(t) - Lookback \in Nat
    BY <1>1, <1>2, Sizes
  <2>2. BeforeWindow(t) = IF 0 <= Len(t) - Lookback THEN Len(t) - Lookback ELSE 0
    BY <2>1, MaxOfTwo DEF BeforeWindow
  <2> QED
    BY <1>1, <1>2, <2>1, <2>2, Sizes
<1>3. CASE Len(t) < Lookback
  <2>1. \A x \in {0, Len(t) - Lookback} : x <= 0
    BY <1>1, <1>3, Sizes
  <2>2. BeforeWindow(t) = 0
    BY <1>1, <1>3, <2>1, Sizes DEF BeforeWindow, Max
  <2> QED
    BY <1>1, <1>3, <2>2, Sizes
<1> QED
  BY <1>1, <1>2, <1>3, Sizes

\* A release that is due ends at the window, or at a sentence end before it.
LEMMA DuePoint ==
  ASSUME NEW t \in Seq(Characters), ReleasePoint(t) # 0
  PROVE  /\ ReleasePoint(t) \in 1..Len(t)
         /\ \/ ReleasePoint(t) = BeforeWindow(t)
            \/ /\ setup.judged
               /\ ReleasePoint(t) = LastBoundary(t)
               /\ SegmentChars <= LastBoundary(t) /\ LastBoundary(t) < BeforeWindow(t)
<1>1. BeforeWindow(t) \in 0..Len(t) /\ LastBoundary(t) \in 0..Len(t) /\ Len(t) \in Nat
  BY WindowPoint, LastBoundaryIsLast
<1>2. CASE ~setup.judged
  BY <1>1, <1>2 DEF ReleasePoint
<1>3. CASE setup.judged
  <2>1. LastBoundary(t) >= SegmentChars
        /\ ReleasePoint(t) = Min({LastBoundary(t), BeforeWindow(t)})
    BY <1>1, <1>3, Sizes DEF ReleasePoint
  <2>2. ReleasePoint(t) = IF LastBoundary(t) <= BeforeWindow(t) THEN LastBoundary(t)
                          ELSE BeforeWindow(t)
    BY <1>1, <2>1, MinOfTwo
  <2> QED
    BY <1>1, <1>3, <2>1, <2>2
<1> QED
  BY <1>2, <1>3

\* Nothing is due: there is no judge or no segment, or the text fits the window.
LEMMA NotDue ==
  ASSUME NEW t \in Seq(Characters), ReleasePoint(t) = 0
  PROVE  LastBoundary(t) < SegmentChars \/ Len(t) <= Lookback
<1>1. BeforeWindow(t) \in 0..Len(t) /\ LastBoundary(t) \in 0..Len(t) /\ Len(t) \in Nat
  BY WindowPoint, LastBoundaryIsLast
<1>2. CASE ~setup.judged
  BY <1>1, <1>2, WindowPoint, Sizes DEF ReleasePoint
<1>3. CASE setup.judged /\ LastBoundary(t) >= SegmentChars
  <2>1. Min({LastBoundary(t), BeforeWindow(t)}) = 0
    BY <1>1, <1>3, Sizes DEF ReleasePoint
  <2>2. BeforeWindow(t) = 0
    BY <1>1, <1>3, <2>1, MinOfTwo, Sizes
  <2> QED
    BY <1>1, <2>2, WindowPoint, Sizes
<1> QED
  BY <1>1, <1>2, <1>3, Sizes

\* _safe_release: no match goes over the point, and if it was pulled back a match that
\* went over the old one begins there.
LEMMA SafeReleaseIsSafe ==
  ASSUME NEW t \in Seq(Characters), NEW end \in 0..Len(t)
  PROVE  /\ SafeRelease(end, Spans(t)) \in 0..end
         /\ \A a, b : <<a, b>> \in Spans(t) =>
              ~(a <= SafeRelease(end, Spans(t)) /\ SafeRelease(end, Spans(t)) < b)
         /\ \/ SafeRelease(end, Spans(t)) = end
            \/ \E b : <<SafeRelease(end, Spans(t)) + 1, b>> \in Spans(t) /\ end < b
<1> DEFINE e == SafeRelease(end, Spans(t))
           P == {end} \cup {s[1] - 1 : s \in {x \in Spans(t) : x[1] <= end /\ end < x[2]}}
<1>1. Len(t) \in Nat /\ end \in Nat
  OBVIOUS
<1>2. ASSUME NEW y \in P, y # end
      PROVE  \E b : /\ <<y + 1, b>> \in Spans(t) /\ y + 1 <= end /\ end < b
                    /\ y \in 0..end
  <2>1. PICK s \in Spans(t) : s[1] <= end /\ end < s[2] /\ y = s[1] - 1
    BY <1>2
  <2>2. PICK a \in 1..Len(t), b \in 1..Len(t) : s = <<a, b>> /\ s[1] = a /\ s[2] = b
    BY MatchIsPair
  <2>3. y + 1 = a /\ y \in 0..end
    BY <1>1, <2>1, <2>2
  <2> QED
    BY <2>1, <2>2, <2>3
<1>3. P \in SUBSET Nat /\ end \in P
  <2>1. ASSUME NEW y \in P PROVE y \in Nat
    <3>1. CASE y = end
      BY <1>1, <3>1
    <3>2. CASE y # end
      <4>1. y \in 0..end
        BY <1>2, <3>2
      <4> QED
        BY <1>1, <4>1
    <3> QED
      BY <3>1, <3>2
  <2> QED
    BY <2>1
<1>4. e = Min(P)
  BY DEF SafeRelease
<1>5. e \in P /\ \A y \in P : e <= y
  BY <1>3, <1>4, MinOfNat
<1>6. e \in 0..end
  BY <1>1, <1>3, <1>5
<1>7. e = end \/ \E b : <<e + 1, b>> \in Spans(t) /\ e + 1 <= end /\ end < b
  BY <1>2, <1>5
<1>8. ASSUME NEW a, NEW b, <<a, b>> \in Spans(t), a <= e, e < b
      PROVE  FALSE
  <2>1. a \in 1..Len(t) /\ b \in 1..Len(t) /\ IsWord(t, a, b)
    BY <1>8, MatchLength, MatchIsWord
  <2>2. CASE e = end
    <3>1. a - 1 \in P
      BY <1>8, <2>2
    <3> QED
      BY <1>5, <1>6, <1>8, <2>1, <3>1
  <2>3. CASE e # end
    <3>1. PICK d : <<e + 1, d>> \in Spans(t)
      BY <1>7, <2>3
    <3>2. IsWord(t, e + 1, d)
      BY <3>1, MatchIsWord
    <3>3. a < e + 1 /\ b \in Nat /\ e \in Nat
      BY <1>1, <1>6, <1>8, <2>1
    <3>4. b + 1 < e + 1
      BY <2>1, <3>2, <3>3, WordsApart
    <3> QED
      BY <1>8, <3>3, <3>4
  <2> QED
    BY <2>2, <2>3
<1> QED
  BY <1>6, <1>7, <1>8

-----------------------------------------------------------------------------
(* What one feed does to the text.                                          *)

\* None of the matches goes over the place q.
NoCut(spans, q) == \A a, b : <<a, b>> \in spans => ~(a <= q /\ q < b)

LEMMA NoCutOfFewer ==
  ASSUME NEW few, NEW spans, few \subseteq spans, NEW q, NoCut(spans, q)
  PROVE  NoCut(few, q)
BY Zenon DEF NoCut

\* A chunk goes to the end of the text and of what is held of it.
LEMMA Joined ==
  ASSUME NEW w \in Seq(Characters), NEW h \in Seq(Characters), NEW c \in Seq(Characters),
         NEW p \in Nat, Len(w) = p + Len(h), StandsIn(h, w, p)
  PROVE  /\ w \o c \in Seq(Characters) /\ h \o c \in Seq(Characters)
         /\ Len(w \o c) = p + Len(h \o c) /\ Len(w \o c) = Len(w) + Len(c)
         /\ Len(h \o c) = Len(h) + Len(c)
         /\ StandsIn(h \o c, w \o c, p) /\ StandsIn(w, w \o c, 0) /\ StandsIn(h, h \o c, 0)
<1>1. /\ w \o c \in Seq(Characters) /\ h \o c \in Seq(Characters)
      /\ Len(w) \in Nat /\ Len(h) \in Nat /\ Len(c) \in Nat
      /\ Len(w \o c) = Len(w) + Len(c) /\ Len(h \o c) = Len(h) + Len(c)
  OBVIOUS
<1>2. ASSUME NEW i \in 1..Len(h \o c) PROVE (h \o c)[i] = (w \o c)[p + i]
  <2>1. CASE i <= Len(h)
    <3>1. (h \o c)[i] = h[i] /\ (w \o c)[p + i] = w[p + i] /\ i \in 1..Len(h)
      BY <1>1, <2>1
    <3> QED
      BY <3>1 DEF StandsIn
  <2>2. CASE i > Len(h)
    <3>1. (h \o c)[i] = c[i - Len(h)]
      BY <1>1, <2>2
    <3>2. (w \o c)[p + i] = c[(p + i) - Len(w)] /\ (p + i) - Len(w) = i - Len(h)
      BY <1>1, <2>2
    <3> QED
      BY <3>1, <3>2
  <2> QED
    BY <1>1, <2>1, <2>2
<1>3. \A i \in 1..Len(w) : w[i] = (w \o c)[0 + i]
  BY <1>1
<1>4. \A i \in 1..Len(h) : h[i] = (h \o c)[0 + i]
  BY <1>1
<1> QED
  BY <1>1, <1>2, <1>3, <1>4 DEF StandsIn

\* A place that no promised match goes over, and that lies before the window, stays one.
LEMMA NoCutStays ==
  ASSUME NEW w \in Seq(Characters), NEW u \in Seq(Characters), StandsIn(w, u, 0),
         Len(u) <= MaxText, NEW sev,
         NEW q \in Nat, q = 0 \/ (q <= Len(w) - Lookback /\ NoCut(KeptOf(w, sev), q))
  PROVE  NoCut(KeptOf(u, sev), q)
<1> SUFFICES ASSUME NEW a, NEW b, <<a, b>> \in KeptOf(u, sev), a <= q, q < b
             PROVE  FALSE
  BY DEF NoCut
<1>1. a \in 1..Len(u)
  BY KeptIs, MatchLength
<1>2. q # 0
  BY <1>1
<1>3. \E c : <<a, c>> \in KeptOf(w, sev) /\ q < c
  BY <1>2, MatchWasSeen
<1> QED
  BY <1>2, <1>3 DEF NoCut

\* A place in promised matches is in one, given by its places.
LEMMA WithinKept ==
  ASSUME NEW u \in Seq(Characters), NEW sev, NEW i, Within(i, KeptOf(u, sev))
  PROVE  \E a \in 1..Len(u), b \in 1..Len(u) :
           <<a, b>> \in KeptOf(u, sev) /\ a <= i /\ i <= b
<1>1. PICK s \in KeptOf(u, sev) : s[1] <= i /\ i <= s[2]
  BY DEF Within
<1>2. PICK a \in 1..Len(u), b \in 1..Len(u) : s = <<a, b>> /\ s[1] = a /\ s[2] = b
  BY KeptIsMatch, MatchIsPair
<1> QED
  BY <1>1, <1>2

\* What is in a match of the text, and was released at such a place, was in a match then.
LEMMA SeenInBeginning ==
  ASSUME NEW w \in Seq(Characters), NEW u \in Seq(Characters), StandsIn(w, u, 0), NEW sev,
         NEW q \in Nat, q < Len(w), NoCut(KeptOf(u, sev), q),
         NEW i \in 1..q, Within(i, KeptOf(u, sev))
  PROVE  Within(i, KeptOf(w, sev))
<1>1. PICK a \in 1..Len(u), b \in 1..Len(u) :
        <<a, b>> \in KeptOf(u, sev) /\ a <= i /\ i <= b
  BY WithinKept
<1>2. a <= q /\ ~(q < b)
  BY <1>1 DEF NoCut
<1>3. b < Len(w)
  BY <1>2
<1>4. <<a, b>> \in KeptOf(w, sev)
  BY <1>1, <1>3, KeptOfBeginning
<1>5. <<a, b>>[1] <= i /\ i <= <<a, b>>[2]
  BY <1>1
<1> QED
  BY <1>4, <1>5, Zenon DEF Within

\* The name that ends at p, if one does, went out without its value.
Noted(u, p, sev) == p > 0 /\ u[p] = "=" => p \in sev

\* A promised match that begins behind such a place is a match of what follows it.
LEMMA KeptInRest ==
  ASSUME NEW t \in Seq(Characters), NEW u \in Seq(Characters), NEW sev,
         NEW p \in Nat, StandsIn(t, u, p), Len(u) = p + Len(t), Noted(u, p, sev),
         NEW a, NEW b, <<a, b>> \in KeptOf(u, sev), a > p
  PROVE  /\ <<a - p, b - p>> \in Spans(t)
         /\ a \in 1..Len(u) /\ b \in 1..Len(u) /\ a <= b
<1>1. <<a, b>> \in Spans(u) /\ (setup.pattern = "value" => a - 1 \notin sev)
  BY KeptIs
<1>2. a \in 1..Len(u) /\ b \in 1..Len(u) /\ a <= b
  BY <1>1, MatchLength
<1>3. a - p \in Nat /\ b - p \in Nat /\ a - p > 0 /\ p + (a - p) = a /\ p + (b - p) = b
  BY <1>2
<1>4. ASSUME setup.pattern = "value" PROVE a - p > 1
  <2> SUFFICES ASSUME a = p + 1 PROVE FALSE
    BY <1>3
  <2>1. a > 1 /\ u[a - 1] = "="
    BY <1>1, <1>4, MatchIsWord DEF Reported
  <2>2. a - 1 = p
    BY <1>2
  <2>3. p \in sev
    BY <2>1, <2>2 DEF Noted
  <2> QED
    BY <1>1, <1>4, <2>2, <2>3
<1>5. <<p + (a - p), p + (b - p)>> \in Spans(u)
  BY <1>1, <1>3
<1> QED
  BY <1>2, <1>3, <1>4, <1>5, MatchOfRest

\* ... and so is what is in it.
LEMMA SeenInRest ==
  ASSUME NEW t \in Seq(Characters), NEW u \in Seq(Characters), NEW sev,
         NEW p \in Nat, StandsIn(t, u, p), Len(u) = p + Len(t), Noted(u, p, sev),
         NoCut(KeptOf(u, sev), p),
         NEW i \in 1..Len(t), Within(p + i, KeptOf(u, sev))
  PROVE  Within(i, Spans(t))
<1>1. PICK a \in 1..Len(u), b \in 1..Len(u) :
        <<a, b>> \in KeptOf(u, sev) /\ a <= p + i /\ p + i <= b
  BY WithinKept
<1>2. ~(a <= p /\ p < b)
  BY <1>1 DEF NoCut
<1>3. a > p
  BY <1>1, <1>2
<1>4. <<a - p, b - p>> \in Spans(t)
  BY <1>1, <1>3, KeptInRest
<1>5. <<a - p, b - p>>[1] <= i /\ i <= <<a - p, b - p>>[2]
  BY <1>1
<1> QED
  BY <1>4, <1>5, Zenon DEF Within

\* A place inside the rest that no match of the rest goes over is one of the text.
LEMMA NoCutOfRest ==
  ASSUME NEW t \in Seq(Characters), NEW u \in Seq(Characters), NEW sev,
         NEW p \in Nat, StandsIn(t, u, p), Len(u) = p + Len(t), Noted(u, p, sev),
         NoCut(KeptOf(u, sev), p),
         NEW e \in 0..Len(t), NoCut(Spans(t), e)
  PROVE  NoCut(KeptOf(u, sev), p + e)
<1> SUFFICES ASSUME NEW a, NEW b, <<a, b>> \in KeptOf(u, sev), a <= p + e, p + e < b
             PROVE  FALSE
  BY DEF NoCut
<1>1. a \in 1..Len(u) /\ b \in 1..Len(u) /\ a <= b
  BY KeptIs, MatchLength
<1>2. ~(a <= p)
  BY <1>1 DEF NoCut
<1>3. <<a - p, b - p>> \in Spans(t)
  BY <1>1, <1>2, KeptInRest
<1>4. a - p <= e /\ e < b - p
  BY <1>1
<1> QED
  BY <1>3, <1>4 DEF NoCut

-----------------------------------------------------------------------------
(* What one feed leaves held.                                               *)

\* The judge has no segment to look at, or the window is all there is.
Segment(t) == LastBoundary(t) < SegmentChars \/ Len(t) <= Lookback \/ Growing(t)

Short(t) == Len(t) <= Max({MaxHold, Lookback + MaxChunk}) \/ Growing(t)

LEMMA Ceiling ==
  ASSUME NEW n \in Nat, n <= MaxHold \/ n <= Lookback + MaxChunk
  PROVE  n <= Max({MaxHold, Lookback + MaxChunk})
<1>1. Lookback + MaxChunk \in Nat /\ MaxHold \in Nat
  BY Sizes
<1> QED
  BY <1>1, MaxOfTwo

\* The rest of t behind e.
LEMMA RestStandsIn ==
  ASSUME NEW t \in Seq(Characters), NEW e \in 0..Len(t), NEW r, r = SubSeq(t, e + 1, Len(t))
  PROVE  /\ r \in Seq(Characters) /\ Len(t) = e + Len(r) /\ Len(r) = Len(t) - e
         /\ StandsIn(r, t, e)
<1>1. Len(t) \in Nat /\ e \in Nat /\ e <= Len(t)
  OBVIOUS
<1>2. r \in Seq(Characters) /\ Len(r) = Len(t) - e
  BY <1>1
<1>3. ASSUME NEW i \in 1..Len(r) PROVE r[i] = t[e + i]
  <2>1. i \in 1..(Len(t) - e)
    BY <1>2
  <2>2. r[i] = t[(e + 1) + i - 1] /\ (e + 1) + i - 1 = e + i
    BY <1>1, <2>1
  <2> QED
    BY <2>2
<1> QED
  BY <1>1, <1>2, <1>3 DEF StandsIn

\* A word at the front of t that reaches the window is a match, or the value of a name that
\* is out.
LEMMA GrowingIs ==
  ASSUME NEW t \in Seq(Characters)
  PROVE  Growing(t) <=> \E b \in 1..Len(t) :
                          /\ IsWord(t, 1, b) /\ b > Len(t) - Lookback
                          /\ <<1, b>> \in Spans(t) \/ setup.pattern = "value"
<1>1. ASSUME Growing(t)
      PROVE  \E b \in 1..Len(t) :
               /\ IsWord(t, 1, b) /\ b > Len(t) - Lookback
               /\ <<1, b>> \in Spans(t) \/ setup.pattern = "value"
  <2>1. PICK w \in Words(t) : /\ w[1] = 1 /\ w[2] > Len(t) - Lookback
                              /\ w \in Spans(t) \/ setup.pattern = "value"
    BY <1>1 DEF Growing
  <2>2. w = <<1, w[2]>> /\ w[2] \in 1..Len(t)
    BY <2>1 DEF Words
  <2>3. IsWord(t, 1, w[2])
    BY <2>2, WordIs
  <2> QED
    BY <2>1, <2>2, <2>3
<1>2. ASSUME NEW b \in 1..Len(t), IsWord(t, 1, b), b > Len(t) - Lookback,
             <<1, b>> \in Spans(t) \/ setup.pattern = "value"
      PROVE  Growing(t)
  <2>1. <<1, b>> \in Words(t)
    BY <1>2, WordIs
  <2>2. <<1, b>>[1] = 1 /\ <<1, b>>[2] = b
    OBVIOUS
  <2> QED
    BY <1>2, <2>1, <2>2 DEF Growing
<1> QED
  BY <1>1, <1>2

\* The point was pulled back: a match begins the rest, and it reaches the window.
LEMMA PulledBack ==
  ASSUME NEW t \in Seq(Characters), NEW end \in 0..Len(t), end >= Len(t) - Lookback,
         NEW e \in 0..end, NEW b, <<e + 1, b>> \in Spans(t), end < b,
         NEW r, r = SubSeq(t, e + 1, Len(t))
  PROVE  Growing(r)
<1>1. Len(t) \in Nat /\ e \in 0..Len(t) /\ e \in Nat /\ b \in 1..Len(t) /\ e + 1 <= b
  BY MatchLength
<1>2. r \in Seq(Characters) /\ Len(t) = e + Len(r) /\ StandsIn(r, t, e)
  BY <1>1, RestStandsIn
<1>3. b - e \in Nat /\ e + (b - e) = b /\ 1 \in Nat /\ 1 > 0
  BY <1>1
<1>4. IsWord(r, 1, b - e) /\ b - e \in 1..Len(r)
  <2>1. IsWord(t, e + 1, e + (b - e))
    BY <1>3, MatchIsWord
  <2> QED
    BY <1>1, <1>2, <1>3, <2>1, WordOfRest
<1>5. setup.pattern # "value" => <<1, b - e>> \in Spans(r)
  <2>1. <<e + 1, e + (b - e)>> \in Spans(t)
    BY <1>3
  <2> QED
    BY <1>1, <1>2, <1>3, <2>1, MatchOfRest
<1>6. b - e > Len(r) - Lookback
  BY <1>1, <1>2, <1>3, Sizes
<1> QED
  BY <1>2, <1>4, <1>5, <1>6, GrowingIs

\* A sentence end inside t: no word and no match goes over it.
LEMMA BoundaryCuts ==
  ASSUME NEW t \in Seq(Characters), NEW e \in 1..Len(t), IsBoundary(t, e), e < Len(t)
  PROVE  /\ \A a, b : IsWord(t, a, b) => ~(a <= e /\ e < b)
         /\ NoCut(Spans(t), e)
<1>1. Len(t) \in Nat
  OBVIOUS
<1>2. t[e + 1] \notin InWord
  <2>1. e # Len(t)
    BY <1>1
  <2>2. t[e + 1] = " "
    BY <2>1, Zenon DEF IsBoundary
  <2> QED
    BY <2>2 DEF InWord
<1>3. ASSUME NEW a, NEW b, IsWord(t, a, b), a <= e, e < b PROVE FALSE
  <2>1. a \in 1..Len(t) /\ b \in 1..Len(t)
    BY <1>3 DEF IsWord
  <2>2. e + 1 \in a..b
    BY <1>1, <1>3, <2>1
  <2>3. \A i \in a..b : t[i] \in InWord
    BY <1>3 DEF IsWord
  <2> QED
    BY <1>2, <2>2, <2>3, Zenon
<1> QED
  BY <1>3, MatchIsWord DEF NoCut

LEMMA NothingAfterLast ==
  ASSUME NEW t \in Seq(Characters), NEW e \in 0..Len(t), e = LastBoundary(t),
         NEW r, r = SubSeq(t, e + 1, Len(t))
  PROVE  LastBoundary(r) = 0
<1>1. r \in Seq(Characters) /\ Len(t) = e + Len(r) /\ StandsIn(r, t, e)
  BY RestStandsIn
<1>2. Len(t) \in Nat /\ Len(r) \in Nat /\ e \in Nat
  <2>1. Len(t) \in Nat
    OBVIOUS
  <2>2. Len(r) \in Nat
    BY <1>1
  <2> QED
    BY <2>1, <2>2
<1>3. \A j \in 1..Len(r) : r[j] = t[e + j]
  BY <1>1 DEF StandsIn
<1>4. ASSUME LastBoundary(r) # 0 PROVE FALSE
  <2> DEFINE i == LastBoundary(r)
  <2>1. IsBoundary(r, i)
    BY <1>1, <1>4, LastBoundaryIsLast
  <2> HIDE DEF i
  <2>2. i \in 1..Len(r)
    BY <2>1, Zenon DEF IsBoundary
  <2>3. r[i] = "." /\ (i = Len(r) \/ r[i + 1] = " ")
    BY <2>1, Zenon DEF IsBoundary
  <2>4. e + i \in 1..Len(t)
    <3>1. Len(t) = e + Len(r)
      BY <1>1
    <3>2. i \in Nat /\ 1 <= i /\ i <= Len(r)
      BY <1>2, <2>2
    <3>3. 1 <= e + i /\ e + i <= e + Len(r) /\ e + i \in Nat
      BY <1>2, <3>2
    <3>4. e + i <= Len(t)
      BY <3>1, <3>3, Zenon
    <3> QED
      BY <1>2, <3>3, <3>4
  <2>5. t[e + i] = "."
    BY <1>3, <2>2, <2>3, Zenon
  <2>6. e + i = Len(t) \/ t[(e + i) + 1] = " "
    <3>1. CASE i = Len(r)
      BY <1>1, <3>1
    <3>2. CASE i # Len(r)
      <4>1. i + 1 \in 1..Len(r)
        BY <1>2, <2>2, <3>2
      <4>2. e + (i + 1) = (e + i) + 1
        BY <1>2, <2>2
      <4>3. r[i + 1] = t[e + (i + 1)]
        BY <1>3, <4>1, Zenon
      <4> QED
        BY <2>3, <3>2, <4>2, <4>3, Zenon
    <3> QED
      BY <3>1, <3>2
  <2>7. IsBoundary(t, e + i)
    BY <2>4, <2>5, <2>6, Zenon DEF IsBoundary
  <2>8. e + i <= e
    BY <2>7, LastBoundaryIsLast
  <2> QED
    BY <1>2, <2>2, <2>8
<1> QED
  BY <1>4

\* What a segment leaves behind is bounded: a sentence end in what was held before was
\* not due, or lies in a match that is growing.
LEMMA SegmentLeaves ==
  ASSUME NEW h \in Seq(Characters), NEW c \in Seq(Characters), Len(c) <= MaxChunk,
         Segment(h), NEW t \in Seq(Characters), t = h \o c,
         NEW end \in 1..Len(t), IsBoundary(t, end), end < Len(t), SegmentChars <= end
  PROVE  Len(t) - end <= Lookback + MaxChunk
<1>1. Len(h) \in Nat /\ Len(c) \in Nat /\ Len(t) = Len(h) + Len(c)
  OBVIOUS
<1>2. CASE end >= Len(h)
  BY <1>1, <1>2, Sizes
<1>3. CASE end < Len(h)
  <2>1. end \in 1..Len(h) /\ end + 1 \in 1..Len(h) /\ end # Len(t)
    BY <1>1, <1>3
  <2>2. h[end] = t[end] /\ h[end + 1] = t[end + 1]
    BY <1>1, <2>1
  <2>3. IsBoundary(h, end)
    BY <2>1, <2>2, Zenon DEF IsBoundary
  <2>4. LastBoundary(h) \in 0..Len(h) /\ end <= LastBoundary(h)
    BY <2>3, LastBoundaryIsLast
  <2>5. CASE LastBoundary(h) < SegmentChars
    BY <1>1, <2>1, <2>4, <2>5, Sizes
  <2>6. CASE Len(h) <= Lookback
    BY <1>1, <2>1, <2>6, Sizes
  <2>7. CASE Growing(h)
    <3>1. PICK b \in 1..Len(h) : IsWord(h, 1, b) /\ b > Len(h) - Lookback
      BY <2>7, GrowingIs
    <3>2. ~(1 <= end /\ end < b)
      BY <1>3, <2>1, <2>3, <3>1, BoundaryCuts
    <3> QED
      BY <1>1, <2>1, <3>1, <3>2, Sizes
  <2> QED
    BY <2>5, <2>6, <2>7 DEF Segment
<1> QED
  BY <1>1, <1>2, <1>3

\* A release up to the window, or up to a match that goes over it, leaves the window or
\* that match.
LEMMA WindowLeaves ==
  ASSUME NEW t \in Seq(Characters), BeforeWindow(t) # 0,
         NEW e \in 0..BeforeWindow(t),
         e = BeforeWindow(t) \/ e = SafeRelease(BeforeWindow(t), Spans(t)),
         NEW r, r = SubSeq(t, e + 1, Len(t))
  PROVE  Segment(r) /\ Short(r)
<1> DEFINE end == BeforeWindow(t)
<1>1. Len(t) \in Nat
  OBVIOUS
<1>2. end \in 0..Len(t) /\ end = Len(t) - Lookback
  BY <1>1, WindowPoint
<1> HIDE DEF end
<1>3. e \in 0..Len(t)
  BY <1>1, <1>2 DEF end
<1>4. r \in Seq(Characters) /\ Len(r) = Len(t) - e
  BY <1>3, RestStandsIn
<1>5. CASE e = end
  <2>1. Len(r) = Lookback
    BY <1>1, <1>2, <1>4, <1>5, Sizes
  <2>2. Lookback <= Max({MaxHold, Lookback + MaxChunk})
    <3>1. Lookback \in Nat /\ Lookback <= MaxHold
      BY Sizes
    <3> QED
      BY <3>1, Ceiling
  <2>3. Lookback <= Lookback
    BY Sizes
  <2> QED
    BY <2>1, <2>2, <2>3 DEF Segment, Short
<1>6. CASE e # end
  <2>1. PICK b : <<e + 1, b>> \in Spans(t) /\ end < b
    BY <1>2, <1>6, SafeReleaseIsSafe DEF end
  <2>2. end >= Len(t) - Lookback
    BY <1>1, <1>2, Sizes
  <2>3. Growing(r)
    BY <1>2, <2>1, <2>2, PulledBack DEF end
  <2> QED
    BY <2>3 DEF Segment, Short
<1> QED
  BY <1>5, <1>6

\* A release up to the last sentence end before the window leaves no sentence end.
LEMMA SentenceLeaves ==
  ASSUME NEW h \in Seq(Characters), NEW c \in Seq(Characters), Len(c) <= MaxChunk,
         Segment(h), NEW t \in Seq(Characters), t = h \o c,
         SegmentChars <= LastBoundary(t), LastBoundary(t) < BeforeWindow(t),
         NEW e \in 0..LastBoundary(t),
         e = LastBoundary(t) \/ e = SafeRelease(LastBoundary(t), Spans(t)),
         NEW r, r = SubSeq(t, e + 1, Len(t))
  PROVE  Segment(r) /\ Short(r)
<1> DEFINE end == LastBoundary(t)
<1>1. Len(t) \in Nat
  OBVIOUS
<1>2. end \in 0..Len(t) /\ end # 0 /\ end < Len(t)
  <2>1. end \in 0..Len(t)
    BY LastBoundaryIsLast
  <2>2. BeforeWindow(t) \in 0..Len(t)
    BY WindowPoint
  <2> QED
    BY <1>1, <2>1, <2>2, Sizes
<1>3. end \in 1..Len(t)
  BY <1>1, <1>2
<1>4. IsBoundary(t, end)
  BY <1>2, LastBoundaryIsLast
<1>5. NoCut(Spans(t), end)
  BY <1>2, <1>3, <1>4, BoundaryCuts
<1> HIDE DEF end
<1>6. e = end
  <2> SUFFICES ASSUME NEW b, <<e + 1, b>> \in Spans(t), end < b, e # end PROVE FALSE
    BY <1>2, SafeReleaseIsSafe DEF end
  <2>1. e + 1 <= end
    BY <1>1, <1>2 DEF end
  <2> QED
    BY <1>5, <2>1 DEF NoCut
<1>7. r \in Seq(Characters) /\ Len(r) = Len(t) - end
  BY <1>2, <1>6, RestStandsIn
<1>8. LastBoundary(r) = 0
  BY <1>2, <1>6, NothingAfterLast DEF end
<1>9. Len(t) - end <= Lookback + MaxChunk
  BY <1>2, <1>3, <1>4, SegmentLeaves DEF end
<1>10. Len(r) <= Max({MaxHold, Lookback + MaxChunk})
  <2>1. Len(r) \in Nat
    BY <1>7
  <2> QED
    BY <1>7, <1>9, <2>1, Ceiling
<1>11. 0 < SegmentChars
  BY Sizes
<1> QED
  BY <1>8, <1>10, <1>11 DEF Segment, Short

-----------------------------------------------------------------------------
(* What was shown, mark by mark.                                            *)

Marks == {"clear", "masked"}

\* The marks m cover the matches.
Covers(m, spans) == \A i \in 1..Len(m) : Within(i, spans) => m[i] = "masked"

LEMMA CoversFewer ==
  ASSUME NEW few, NEW spans, few \subseteq spans, NEW m, Covers(m, spans)
  PROVE  Covers(m, few)
BY Zenon DEF Covers, Within

\* The first q characters of w can go out: nothing that comes makes a match over q.
Settled(w, sev, q) == q = 0 \/ (q <= Len(w) - Lookback /\ NoCut(KeptOf(w, sev), q))

LEMMA Appended ==
  ASSUME NEW m \in Seq(Marks), NEW n \in Seq(Marks)
  PROVE  m \o n \in Seq(Marks) /\ Len(m \o n) = Len(m) + Len(n)
OBVIOUS

\* m2 is m with the marks of e more characters.
Appends(m2, m, e, spans) ==
  /\ m2 \in Seq(Marks) /\ Len(m2) = Len(m) + e
  /\ \A i \in 1..Len(m) : m2[i] = m[i]
  /\ \A i \in 1..e : m2[Len(m) + i] = MarksOf(e, spans)[i]

LEMMA MarksAppended ==
  ASSUME NEW m \in Seq(Marks), NEW e \in Nat, NEW spans
  PROVE  Appends(m \o MarksOf(e, spans), m, e, spans)
<1> DEFINE m2 == m \o MarksOf(e, spans)
<1> DEFINE n == MarksOf(e, spans)
<1>1. n \in [1..e -> Marks]
  BY DEF MarksOf, Marks
<1>2. m2 = m \o n
  OBVIOUS
<1> HIDE DEF n, m2
<1>3. n \in Seq(Marks) /\ Len(n) = e
  BY <1>1
<1>4. m \o n \in Seq(Marks) /\ Len(m \o n) = Len(m) + Len(n)
  BY <1>3, Appended
<1>5. m2 \in Seq(Marks) /\ Len(m2) = Len(m) + e
  BY <1>2, <1>3, <1>4, Zenon
<1>6. \A i \in 1..Len(m) : m2[i] = m[i]
  BY <1>2, <1>3
<1>7. \A i \in 1..e : m2[Len(m) + i] = n[i]
  BY <1>2, <1>3
<1>8. Appends(m2, m, e, spans)
  BY <1>5, <1>6, <1>7, Zenon DEF n, Appends
<1> QED
  BY <1>8 DEF m2

LEMMA MarkIs ==
  ASSUME NEW e \in Nat, NEW spans, NEW i \in 1..e
  PROVE  /\ Within(i, spans) => MarksOf(e, spans)[i] = "masked"
         /\ MarksOf(e, spans)[i] = "masked" => Within(i, spans)
BY DEF MarksOf

\* A place in the marks is an old one or a new one.
LEMMA OldOrNew ==
  ASSUME NEW p \in Nat, NEW e \in Nat, NEW i \in 1..(p + e)
  PROVE  i \in 1..p \/ \E k \in 1..e : i = p + k
<1>1. CASE i <= p
  BY <1>1
<1>2. CASE i > p
  <2>1. i - p \in 1..e /\ i = p + (i - p)
    BY <1>2
  <2> QED
    BY <2>1, Zenon
<1> QED
  BY <1>1, <1>2

\* What comes later changes nothing for what is out.
LEMMA OldCovered ==
  ASSUME NEW w \in Seq(Characters), NEW u \in Seq(Characters), StandsIn(w, u, 0), NEW sev,
         Len(u) <= MaxText, NEW m \in Seq(Marks), Settled(w, sev, Len(m))
  PROVE  /\ NoCut(KeptOf(u, sev), Len(m))
         /\ Covers(m, KeptOf(w, sev)) => Covers(m, KeptOf(u, sev))
<1>1. Len(m) \in Nat /\ Len(w) \in Nat
  OBVIOUS
<1>2. NoCut(KeptOf(u, sev), Len(m))
  BY <1>1, NoCutStays DEF Settled
<1>3. ASSUME Covers(m, KeptOf(w, sev)), NEW i \in 1..Len(m), Within(i, KeptOf(u, sev))
      PROVE  m[i] = "masked"
  <2>1. Len(m) < Len(w)
    BY <1>1, Sizes DEF Settled
  <2>2. Within(i, KeptOf(w, sev))
    BY <1>1, <1>2, <1>3, <2>1, SeenInBeginning
  <2> QED
    BY <1>3, <2>2 DEF Covers
<1> QED
  BY <1>2, <1>3 DEF Covers

\* The matches of t that end before e, which are masked in a release up to e.
Ended(t, e) == {s \in Spans(t) : s[2] <= e}

\* What is released in a match, at a place that no match goes over, is in one that ends.
LEMMA WithinEnded ==
  ASSUME NEW t \in Seq(Characters), NEW e \in 0..Len(t), NoCut(Spans(t), e),
         NEW k \in 1..e, Within(k, Spans(t))
  PROVE  Within(k, Ended(t, e))
<1>1. PICK s \in Spans(t) : s[1] <= k /\ k <= s[2]
  BY DEF Within
<1>2. PICK a \in 1..Len(t), b \in 1..Len(t) : s = <<a, b>> /\ s[1] = a /\ s[2] = b
  BY MatchIsPair
<1>3. ~(a <= e /\ e < b)
  BY <1>2 DEF NoCut
<1>4. s[2] <= e
  BY <1>1, <1>2, <1>3
<1> QED
  BY <1>1, <1>4 DEF Within, Ended

\* The marks of what is released now.
LEMMA NewCovered ==
  ASSUME NEW t \in Seq(Characters), NEW u \in Seq(Characters), NEW m \in Seq(Marks), NEW sev,
         StandsIn(t, u, Len(m)), Len(u) = Len(m) + Len(t), Noted(u, Len(m), sev),
         NoCut(KeptOf(u, sev), Len(m)), Covers(m, KeptOf(u, sev)),
         NEW e \in 0..Len(t), NoCut(Spans(t), e),
         NEW m2, Appends(m2, m, e, Ended(t, e))
  PROVE  Covers(m2, KeptOf(u, sev))
<1>1. Len(m) \in Nat /\ e \in Nat /\ Len(t) \in Nat /\ e <= Len(t)
  OBVIOUS
<1>2. /\ Len(m2) = Len(m) + e
      /\ \A i \in 1..Len(m) : m2[i] = m[i]
      /\ \A i \in 1..e : m2[Len(m) + i] = MarksOf(e, Ended(t, e))[i]
  BY Zenon DEF Appends
<1>3. ASSUME NEW i \in 1..Len(m2), Within(i, KeptOf(u, sev)) PROVE m2[i] = "masked"
  <2>1. CASE i \in 1..Len(m)
    BY <1>2, <1>3, <2>1 DEF Covers
  <2>2. CASE \E k \in 1..e : i = Len(m) + k
    <3>1. PICK k \in 1..e : i = Len(m) + k
      BY <2>2
    <3>2. k \in 1..Len(t)
      BY <1>1
    <3>3. Within(Len(m) + k, KeptOf(u, sev))
      BY <1>3, <3>1
    <3>4. Within(k, Spans(t))
      BY <1>1, <3>2, <3>3, SeenInRest
    <3>5. MarksOf(e, Ended(t, e))[k] = "masked"
      BY <1>1, <3>4, WithinEnded, MarkIs
    <3> QED
      BY <1>2, <3>1, <3>5
  <2>3. i \in 1..(Len(m) + e)
    BY <1>2
  <2> QED
    BY <1>1, <2>1, <2>2, <2>3, OldOrNew
<1> QED
  BY <1>3 DEF Covers

-----------------------------------------------------------------------------
(* The inductive invariant.                                                 *)

\* What is held is the rest of the answer behind what is out.
HeldIsRest ==
  /\ Len(answer) <= MaxText /\ Len(shown) <= Len(answer)
  /\ state = "open" =>
       /\ Len(answer) = Len(shown) + Len(heldBack)
       /\ StandsIn(heldBack, answer, Len(shown))

\* The point up to which the answer is out is settled.
Uncut == state = "open" /\ ~unscanned => Settled(answer, severed, Len(shown))

\* A name that went out last, before what it is assigned to, is noted.
Told == state = "open" => Noted(answer, Len(shown), severed)

\* A judged segment never stays held once it is due.
Segmented == state = "open" /\ setup.judged => Segment(heldBack)

GuardInv == GuardTypeOK /\ HeldIsRest /\ Uncut /\ Told /\ Segmented /\ GuardSafe

\* What it says of the next state of a stream that goes on or ends.
NextInv ==
  /\ Len(answer') <= MaxText /\ Len(shown') <= Len(answer')
  /\ state' = "open" =>
       /\ Len(answer') = Len(shown') + Len(heldBack')
       /\ StandsIn(heldBack', answer', Len(shown'))
  /\ state' = "open" /\ ~unscanned' => Settled(answer', severed', Len(shown'))
  /\ state' = "open" => Noted(answer', Len(shown'), severed')
  /\ state' = "open" /\ setup.judged => Segment(heldBack')
  /\ unscanned' \/ Covers(shown', KeptOf(answer', severed'))
  /\ state' \in {"ended", "retracted"} => Len(shown') = Len(answer')
  /\ Short(heldBack')

LEMMA PromisedIsKept == Promised(answer) = KeptOf(answer, severed)
BY DEF Promised, KeptOf

LEMMA Safe ==
  GuardSafe <=> /\ unscanned \/ Covers(shown, KeptOf(answer, severed))
                /\ state \in {"ended", "retracted"} => Len(shown) = Len(answer)
                /\ Short(heldBack)
BY PromisedIsKept, Zenon DEF GuardSafe, NothingLeaks, NothingStalls, Covers, Short

\* Primes: the configuration does not change.
LEMMA NextIsInv ==
  ASSUME setup' = setup, GuardTypeOK', NextInv
  PROVE  GuardInv'
<1>1. KeptOf(answer, severed)' = KeptOf(answer', severed')
  BY DEF KeptOf, Spans, Words, MatchLengths
<1>2. Growing(heldBack)' <=> Growing(heldBack')
  BY DEF Growing, Spans, Words, MatchLengths
<1>3. HeldIsRest'
  BY Zenon DEF NextInv, HeldIsRest, StandsIn
<1>4. Uncut'
  BY <1>1, Zenon DEF NextInv, Uncut, Settled, NoCut
<1>5. Told'
  BY Zenon DEF NextInv, Told, Noted
<1>6. Segmented'
  BY <1>2, Zenon DEF NextInv, Segmented, Segment, LastBoundary
<1>7. Promised(answer)' = KeptOf(answer, severed)'
  BY DEF Promised, KeptOf, Spans, Words, MatchLengths
<1>8. NothingLeaks'
  BY <1>1, <1>7, Zenon DEF NextInv, NothingLeaks, Covers
<1>9. NothingStalls'
  BY <1>2, Zenon DEF NextInv, NothingStalls, Short
<1> QED
  BY <1>3, <1>4, <1>5, <1>6, <1>8, <1>9 DEF GuardInv, GuardSafe

-----------------------------------------------------------------------------
(* The steps.                                                               *)

\* u is the answer, and t what is held of it, when a chunk has come or when none has.
Places(u, t) ==
  /\ u \in Seq(Characters) /\ t \in Seq(Characters) /\ Len(u) <= MaxText
  /\ Len(u) = Len(shown) + Len(t) /\ StandsIn(t, u, Len(shown))
  /\ Len(answer) <= Len(u) /\ StandsIn(answer, u, 0)

LEMMA ChunkIs ==
  ASSUME NEW c \in Strings(MaxChunk)
  PROVE  c \in Seq(Characters) /\ Len(c) <= MaxChunk
<1>1. PICK k \in 0..MaxChunk : c \in [1..k -> Characters]
  BY DEF Strings
<1>2. k \in Nat /\ k <= MaxChunk
  BY Sizes
<1> QED
  BY <1>1, <1>2

LEMMA FedPlaces ==
  ASSUME GuardInv, state = "open", NEW c \in Seq(Characters),
         Len(answer) + Len(c) <= MaxText
  PROVE  Places(answer \o c, heldBack \o c)
<1>1. answer \in Seq(Characters) /\ heldBack \in Seq(Characters) /\ shown \in Seq(Marks)
  BY DEF GuardInv, GuardTypeOK, Marks
<1>2. Len(answer) = Len(shown) + Len(heldBack) /\ StandsIn(heldBack, answer, Len(shown))
  BY DEF GuardInv, HeldIsRest
<1>3. Len(shown) \in Nat /\ Len(answer) \in Nat /\ Len(c) \in Nat
  BY <1>1
<1>4. /\ answer \o c \in Seq(Characters) /\ heldBack \o c \in Seq(Characters)
      /\ Len(answer \o c) = Len(shown) + Len(heldBack \o c)
      /\ Len(answer \o c) = Len(answer) + Len(c)
      /\ StandsIn(heldBack \o c, answer \o c, Len(shown))
      /\ StandsIn(answer, answer \o c, 0)
  BY <1>1, <1>2, <1>3, Joined
<1>5. Len(answer \o c) <= MaxText /\ Len(answer) <= Len(answer \o c)
  BY <1>3, <1>4
<1> QED
  BY <1>4, <1>5 DEF Places

LEMMA HeldPlaces ==
  ASSUME GuardInv, state = "open"
  PROVE  Places(answer, heldBack)
<1>1. answer \in Seq(Characters) /\ heldBack \in Seq(Characters)
  BY DEF GuardInv, GuardTypeOK
<1>2. /\ Len(answer) = Len(shown) + Len(heldBack) /\ StandsIn(heldBack, answer, Len(shown))
      /\ Len(answer) <= MaxText
  BY DEF GuardInv, HeldIsRest
<1>3. Len(answer) \in Nat
  BY <1>1
<1>4. StandsIn(answer, answer, 0)
  BY <1>3 DEF StandsIn
<1> QED
  BY <1>1, <1>2, <1>3, <1>4 DEF Places

\* What was out stays as it should be.
LEMMA OutStays ==
  ASSUME GuardInv, state = "open", NEW u, NEW t, Places(u, t)
  PROVE  /\ shown \in Seq(Marks) /\ Len(shown) \in Nat /\ Len(shown) <= Len(u)
         /\ Noted(u, Len(shown), severed)
         /\ ~unscanned => /\ NoCut(KeptOf(u, severed), Len(shown))
                          /\ Covers(shown, KeptOf(u, severed))
                          /\ Len(shown) = 0 \/ Len(shown) <= Len(u) - Lookback
<1>1. answer \in Seq(Characters) /\ shown \in Seq(Marks)
  BY DEF GuardInv, GuardTypeOK, Marks
<1>2. Len(shown) \in Nat /\ Len(answer) \in Nat
  BY <1>1
<1>3. /\ u \in Seq(Characters) /\ Len(u) <= MaxText /\ Len(answer) <= Len(u)
      /\ StandsIn(answer, u, 0)
  BY DEF Places
<1>4. Len(u) \in Nat
  BY <1>3
<1>5. Len(shown) <= Len(answer)
  BY DEF GuardInv, HeldIsRest
<1>6. ASSUME ~unscanned
      PROVE  /\ NoCut(KeptOf(u, severed), Len(shown)) /\ Covers(shown, KeptOf(u, severed))
             /\ Len(shown) = 0 \/ Len(shown) <= Len(u) - Lookback
  <2>1. Settled(answer, severed, Len(shown))
    BY <1>6 DEF GuardInv, Uncut
  <2>2. Covers(shown, KeptOf(answer, severed))
    BY <1>6, Safe DEF GuardInv
  <2>3. NoCut(KeptOf(u, severed), Len(shown)) /\ Covers(shown, KeptOf(u, severed))
    BY <1>1, <1>3, <2>1, <2>2, OldCovered
  <2>4. Len(shown) = 0 \/ Len(shown) <= Len(answer) - Lookback
    BY <2>1 DEF Settled
  <2>5. Len(shown) = 0 \/ Len(shown) <= Len(u) - Lookback
    BY <1>2, <1>3, <1>4, <2>4, Sizes
  <2> QED
    BY <2>3, <2>5
<1>7. Noted(u, Len(shown), severed)
  <2> SUFFICES ASSUME Len(shown) > 0, u[Len(shown)] = "=" PROVE Len(shown) \in severed
    BY DEF Noted
  <2>1. Len(shown) \in 1..Len(answer)
    BY <1>2, <1>5
  <2>2. answer[Len(shown)] = u[Len(shown)]
    BY <1>2, <1>3, <2>1 DEF StandsIn
  <2> QED
    BY <2>2 DEF GuardInv, Told, Noted
<1> QED
  BY <1>1, <1>2, <1>3, <1>4, <1>5, <1>6, <1>7

\* A feed that releases nothing.
LEMMA HoldStep ==
  ASSUME GuardInv, state = "open", NEW u, NEW t, Places(u, t),
         ReleasePoint(t) = 0, Len(t) <= MaxHold,
         answer' = u, heldBack' = t, UNCHANGED <<setup, shown, state, unscanned, severed>>
  PROVE  GuardTypeOK' /\ NextInv
<1>1. GuardTypeOK'
  BY DEF GuardInv, GuardTypeOK, Places
<1>2. /\ u \in Seq(Characters) /\ t \in Seq(Characters) /\ Len(u) <= MaxText
      /\ Len(u) = Len(shown) + Len(t) /\ StandsIn(t, u, Len(shown))
  BY DEF Places
<1>3. /\ Len(shown) <= Len(u)
      /\ Noted(u, Len(shown), severed)
      /\ ~unscanned => /\ NoCut(KeptOf(u, severed), Len(shown))
                       /\ Covers(shown, KeptOf(u, severed))
                       /\ Len(shown) = 0 \/ Len(shown) <= Len(u) - Lookback
  BY OutStays
<1>4. ~unscanned => Settled(u, severed, Len(shown))
  BY <1>3 DEF Settled
<1>5. Segment(t)
  BY <1>2, NotDue DEF Segment
<1>6. Short(t)
  <2>1. Len(t) \in Nat
    BY <1>2
  <2> QED
    BY <2>1, Ceiling DEF Short
<1>7. state' \notin {"ended", "retracted"}
  OBVIOUS
<1> QED
  BY <1>1, <1>2, <1>3, <1>4, <1>5, <1>6, <1>7, Zenon DEF NextInv

\* A check that ends the answer.
LEMMA BlockStep ==
  ASSUME GuardInv, state = "open", NEW u, NEW t, Places(u, t), Blocks(t),
         answer' = u, setup' = setup
  PROVE  GuardTypeOK' /\ NextInv
<1>1. /\ state' = "blocked" /\ heldBack' = <<>> /\ shown' = shown /\ unscanned' = unscanned
      /\ severed' = severed
  BY DEF Blocks
<1>2. u \in Seq(Characters) /\ Len(u) <= MaxText
  BY DEF Places
<1>3. GuardTypeOK'
  BY <1>1, <1>2 DEF GuardInv, GuardTypeOK
<1>4. /\ Len(shown) <= Len(u)
      /\ ~unscanned => Covers(shown, KeptOf(u, severed))
  BY OutStays
<1>5. Short(<<>>)
  <2>1. 0 <= Max({MaxHold, Lookback + MaxChunk})
    BY Ceiling, Sizes
  <2> QED
    BY <2>1 DEF Short
<1>6. state' # "open" /\ state' \notin {"ended", "retracted"}
  BY <1>1
<1> QED
  BY <1>1, <1>2, <1>3, <1>4, <1>5, <1>6, Zenon DEF NextInv

\* A release of e characters, of which those in spans are masked.
LEMMA ReleaseStep ==
  ASSUME GuardInv, state = "open", NEW u, NEW t, Places(u, t),
         answer' = u, setup' = setup,
         NEW e \in 0..Len(t), NEW spans, Release(t, e, spans),
         state' \in {"open", "ended", "retracted"}, unscanned' \in BOOLEAN,
         unscanned' \/ (~unscanned /\ NoCut(Spans(t), e) /\ (spans = Spans(t) \/ e = 0)),
         state' = "open" => e <= BeforeWindow(t) /\ (setup.judged => Segment(heldBack')),
         state' # "open" => e = Len(t),
         Short(heldBack')
  PROVE  GuardTypeOK' /\ NextInv
<1>1. /\ u \in Seq(Characters) /\ t \in Seq(Characters) /\ Len(u) <= MaxText
      /\ Len(u) = Len(shown) + Len(t) /\ StandsIn(t, u, Len(shown))
  BY DEF Places
<1>2. Len(t) \in Nat /\ Len(u) \in Nat /\ e \in Nat /\ e <= Len(t)
  BY <1>1
<1>3. /\ shown \in Seq(Marks) /\ Len(shown) \in Nat
      /\ Noted(u, Len(shown), severed)
      /\ ~unscanned => /\ NoCut(KeptOf(u, severed), Len(shown))
                       /\ Covers(shown, KeptOf(u, severed))
                       /\ Len(shown) = 0 \/ Len(shown) <= Len(u) - Lookback
  BY OutStays
<1> DEFINE ended == {s \in spans : s[2] <= e}
           name == {n \in {Len(shown) + e} : e > 0 /\ t[e] = "="}
<1>4. /\ heldBack' = SubSeq(t, e + 1, Len(t)) /\ shown' = shown \o MarksOf(e, ended)
      /\ severed' = severed \cup name
  BY DEF Release
<1> HIDE DEF ended
<1>5. Appends(shown', shown, e, ended)
  BY <1>2, <1>3, <1>4, MarksAppended
<1>6. shown' \in Seq(Marks) /\ Len(shown') = Len(shown) + e
  BY <1>5 DEF Appends
<1>7. heldBack' \in Seq(Characters) /\ Len(t) = e + Len(heldBack') /\ StandsIn(heldBack', t, e)
  BY <1>1, <1>4, RestStandsIn
<1>8. GuardTypeOK'
  <2>1. severed' \subseteq Nat
    <3>1. name \subseteq Nat
      BY <1>2, <1>3
    <3>2. severed \subseteq Nat
      BY DEF GuardInv, GuardTypeOK
    <3> QED
      BY <1>4, <3>1, <3>2
  <2> QED
    BY <1>1, <1>6, <1>7, <2>1 DEF GuardInv, GuardTypeOK, Marks
<1>9. Len(heldBack') \in Nat
  BY <1>7
<1>10. Len(u) = Len(shown') + Len(heldBack') /\ Len(shown') <= Len(u)
  BY <1>1, <1>2, <1>3, <1>6, <1>7, <1>9
<1>11. StandsIn(heldBack', u, Len(shown'))
  <2>1. ASSUME NEW i \in 1..Len(heldBack')
        PROVE  heldBack'[i] = u[Len(shown') + i]
    <3>1. heldBack'[i] = t[e + i]
      BY <1>7 DEF StandsIn
    <3>2. e + i \in 1..Len(t) /\ Len(shown) + (e + i) = Len(shown') + i
      BY <1>2, <1>3, <1>6, <1>7, <1>9
    <3>3. t[e + i] = u[Len(shown) + (e + i)]
      BY <1>1, <3>2 DEF StandsIn
    <3> QED
      BY <3>1, <3>2, <3>3
  <2>2. Len(shown') + Len(heldBack') <= Len(u)
    BY <1>2, <1>10
  <2> QED
    BY <2>1, <2>2 DEF StandsIn
<1>12. ASSUME ~unscanned'
       PROVE  /\ Covers(shown', KeptOf(u, severed'))
              /\ NoCut(KeptOf(u, severed'), Len(shown'))
  <2>1. ~unscanned /\ NoCut(Spans(t), e) /\ (spans = Spans(t) \/ e = 0)
    BY <1>12
  <2>2. NoCut(KeptOf(u, severed), Len(shown'))
    BY <1>1, <1>3, <1>6, <2>1, NoCutOfRest
  <2>3. Appends(shown', shown, e, Ended(t, e))
    <3>1. CASE spans = Spans(t)
      BY <1>5, <3>1 DEF ended, Ended
    <3>2. CASE e = 0
      <4>1. \A i \in 1..e : FALSE
        BY <3>2
      <4> QED
        BY <1>5, <4>1 DEF Appends
    <3> QED
      BY <2>1, <3>1, <3>2
  <2>4. Covers(shown', KeptOf(u, severed))
    BY <1>1, <1>3, <2>1, <2>3, NewCovered
  <2>5. KeptOf(u, severed') \subseteq KeptOf(u, severed)
    <3>1. severed \subseteq severed'
      BY <1>4
    <3> QED
      BY <3>1 DEF KeptOf
  <2> QED
    BY <2>2, <2>4, <2>5, NoCutOfFewer, CoversFewer
<1>13. ASSUME state' = "open", ~unscanned' PROVE Settled(u, severed', Len(shown'))
  <2>1. e <= BeforeWindow(t) /\ ~unscanned
    BY <1>13
  <2>2. BeforeWindow(t) = IF Len(t) <= Lookback THEN 0 ELSE Len(t) - Lookback
    BY <1>1, WindowPoint
  <2>3. Len(shown') = 0 \/ Len(shown') <= Len(u) - Lookback
    BY <1>1, <1>2, <1>3, <1>6, <2>1, <2>2, Sizes
  <2> QED
    BY <1>12, <1>13, <2>3 DEF Settled
<1>14. Noted(u, Len(shown'), severed')
  <2> SUFFICES ASSUME u[Len(shown')] = "=", Len(shown') > 0 PROVE Len(shown') \in severed'
    BY DEF Noted
  <2>1. CASE e = 0
    BY <1>3, <1>4, <1>6, <2>1 DEF Noted
  <2>2. CASE e > 0
    <3>1. t[e] = u[Len(shown) + e]
      BY <1>1, <1>2, <2>2 DEF StandsIn
    <3>2. Len(shown) + e \in name
      BY <1>6, <2>2, <3>1
    <3> QED
      BY <1>4, <1>6, <3>2
  <2> QED
    BY <1>2, <2>1, <2>2
<1>15. state' \in {"ended", "retracted"} => Len(shown') = Len(u)
  BY <1>1, <1>6
<1> QED
  BY <1>1, <1>8, <1>10, <1>11, <1>12, <1>13, <1>14, <1>15, Zenon DEF NextInv

\* A check that lets the text pass up to end.
LEMMA PassStep ==
  ASSUME GuardInv, state = "open", NEW u, NEW t, Places(u, t),
         answer' = u, setup' = setup,
         NEW end \in 0..Len(t), NEW next \in {"open", "ended", "retracted"},
         Passes(t, end, next),
         next # "open" => end = Len(t),
         next = "open" => end # 0 /\ end <= BeforeWindow(t),
         \A e \in 0..end : e \in {end, SafeRelease(end, Spans(t))} /\ next = "open" =>
           LET r == SubSeq(t, e + 1, Len(t))
           IN  Short(r) /\ (setup.judged => Segment(r))
  PROVE  GuardTypeOK' /\ NextInv
<1>1. t \in Seq(Characters) /\ unscanned \in BOOLEAN
  BY DEF Places, GuardInv, GuardTypeOK
<1>2. Len(t) \in Nat /\ end \in Nat /\ end <= Len(t)
  BY <1>1
<1>3. state' = next
  BY DEF Passes
<1> DEFINE e == SafeRelease(end, Spans(t))
<1>4. /\ e \in 0..end /\ NoCut(Spans(t), e)
      /\ e = end \/ \E b : <<e + 1, b>> \in Spans(t) /\ end < b
  BY <1>1, SafeReleaseIsSafe DEF NoCut
<1>5. next # "open" => e = end
  <2> SUFFICES ASSUME next # "open", NEW b, <<e + 1, b>> \in Spans(t), end < b PROVE FALSE
    BY <1>4
  <2>1. b \in 1..Len(t)
    BY <1>1, MatchLength
  <2> QED
    BY <1>2, <2>1
<1> HIDE DEF e
<1>6. ASSUME NEW q \in 0..end, q = end \/ q = e, heldBack' = SubSeq(t, q + 1, Len(t)),
             next # "open" => q = end
      PROVE  /\ Short(heldBack') /\ (next = "open" /\ setup.judged => Segment(heldBack'))
             /\ q \in 0..Len(t) /\ (next = "open" => q <= BeforeWindow(t))
  <2>1. q \in 0..Len(t) /\ q <= end /\ q \in Nat
    BY <1>2
  <2>2. BeforeWindow(t) \in Nat
    BY <1>1, <1>2, WindowPoint
  <2>3. next = "open" => q <= BeforeWindow(t)
    BY <1>2, <2>1, <2>2
  <2>4. CASE next = "open"
    BY <1>6, <2>1, <2>3, <2>4 DEF e
  <2>5. CASE next # "open"
    <3>1. q = Len(t)
      BY <1>6, <2>5
    <3>2. heldBack' \in Seq(Characters) /\ Len(heldBack') = Len(t) - q
      BY <1>1, <1>6, <2>1, RestStandsIn
    <3>3. Len(heldBack') = 0
      BY <1>2, <3>1, <3>2
    <3>4. 0 <= Max({MaxHold, Lookback + MaxChunk})
      <4>1. 0 \in Nat /\ 0 <= MaxHold
        BY Sizes
      <4> QED
        BY <4>1, Ceiling
    <3> QED
      BY <2>1, <2>5, <3>3, <3>4 DEF Short
  <2> QED
    BY <2>4, <2>5
<1>7. CASE Release(t, e, Spans(t)) /\ UNCHANGED unscanned
  <2>1. heldBack' = SubSeq(t, e + 1, Len(t))
    BY <1>7 DEF Release
  <2>2. /\ Short(heldBack') /\ (next = "open" /\ setup.judged => Segment(heldBack'))
        /\ e \in 0..Len(t) /\ (next = "open" => e <= BeforeWindow(t))
    BY <1>4, <1>5, <1>6, <2>1
  <2>3. state' # "open" => e = Len(t)
    BY <1>3, <1>5
  <2>4. unscanned' \/ (~unscanned /\ NoCut(Spans(t), e) /\ (Spans(t) = Spans(t) \/ e = 0))
    BY <1>1, <1>4, <1>7
  <2>5. unscanned' \in BOOLEAN /\ state' \in {"open", "ended", "retracted"}
    BY <1>1, <1>3, <1>7
  <2> QED
    BY <1>3, <1>7, <2>2, <2>3, <2>4, <2>5, ReleaseStep
<1>8. CASE Release(t, end, {}) /\ unscanned' = (unscanned \/ end > 0)
  <2>1. heldBack' = SubSeq(t, end + 1, Len(t))
    BY <1>8 DEF Release
  <2>2. /\ Short(heldBack') /\ (next = "open" /\ setup.judged => Segment(heldBack'))
        /\ end \in 0..Len(t) /\ (next = "open" => end <= BeforeWindow(t))
    BY <1>2, <1>6, <2>1
  <2>3. state' # "open" => end = Len(t)
    BY <1>3
  <2>4. unscanned' \/ (~unscanned /\ NoCut(Spans(t), end) /\ ({} = Spans(t) \/ end = 0))
    <3>1. CASE end > 0
      BY <1>8, <3>1
    <3>2. CASE end = 0
      <4>1. NoCut(Spans(t), 0)
        <5> SUFFICES ASSUME NEW a, NEW b, <<a, b>> \in Spans(t), a <= 0 PROVE FALSE
          BY DEF NoCut
        <5>1. a \in 1..Len(t)
          BY <1>1, MatchLength
        <5> QED
          BY <1>2, <5>1
      <4> QED
        BY <1>1, <1>8, <3>2, <4>1
    <3> QED
      BY <1>2, <3>1, <3>2
  <2>5. unscanned' \in BOOLEAN /\ state' \in {"open", "ended", "retracted"}
    BY <1>1, <1>3, <1>8
  <2> QED
    BY <1>3, <1>8, <2>2, <2>3, <2>4, <2>5, ReleaseStep
<1> QED
  BY <1>7, <1>8 DEF Passes, e

LEMMA FeedStep ==
  ASSUME GuardInv, NEW chunk \in Strings(MaxChunk), Feed(chunk)
  PROVE  GuardInv'
<1> DEFINE t == heldBack \o chunk
           u == answer \o chunk
<1>1. chunk \in Seq(Characters) /\ Len(chunk) <= MaxChunk
  BY ChunkIs
<1>2. state = "open" /\ answer' = u /\ setup' = setup /\ Len(answer) + Len(chunk) <= MaxText
  BY DEF Feed
<1>3. Places(u, t)
  BY <1>1, <1>2, FedPlaces
<1>4. heldBack \in Seq(Characters) /\ (setup.judged => Segment(heldBack))
  BY <1>2 DEF GuardInv, GuardTypeOK, Segmented
<1>5. t = heldBack \o chunk
  OBVIOUS
<1>6. \/ /\ ReleasePoint(t) = 0 /\ ~Forced(t)
         /\ heldBack' = t /\ UNCHANGED <<shown, state, unscanned, severed>>
      \/ /\ Forced(t)
         /\ Blocks(t) \/ Passes(t, BeforeWindow(t), "open")
      \/ /\ ReleasePoint(t) # 0 /\ ~Forced(t)
         /\ Blocks(t) \/ Passes(t, ReleasePoint(t), "open")
  BY DEF Feed
<1> HIDE DEF t, u
<1>7. t \in Seq(Characters)
  BY <1>3 DEF Places
<1>8. Len(t) \in Nat
  BY <1>7
<1>9. BeforeWindow(t) \in 0..Len(t)
      /\ BeforeWindow(t) = IF Len(t) <= Lookback THEN 0 ELSE Len(t) - Lookback
  BY <1>7, WindowPoint
<1>10. ASSUME Passes(t, BeforeWindow(t), "open"), BeforeWindow(t) # 0
       PROVE  GuardTypeOK' /\ NextInv
  <2>1. ASSUME NEW e \in 0..BeforeWindow(t),
               e \in {BeforeWindow(t), SafeRelease(BeforeWindow(t), Spans(t))}
        PROVE  /\ Short(SubSeq(t, e + 1, Len(t)))
               /\ setup.judged => Segment(SubSeq(t, e + 1, Len(t)))
    BY <1>7, <1>10, <2>1, WindowLeaves
  <2>2. BeforeWindow(t) <= BeforeWindow(t)
    BY <1>8, <1>9
  <2> QED
    BY <1>2, <1>3, <1>9, <1>10, <2>1, <2>2, PassStep
<1>11. CASE ReleasePoint(t) = 0 /\ ~Forced(t) /\ heldBack' = t
            /\ UNCHANGED <<shown, state, unscanned, severed>>
  <2>1. Len(t) <= MaxHold
    BY <1>8, <1>11, Sizes DEF Forced
  <2> QED
    BY <1>2, <1>3, <1>11, <2>1, HoldStep, NextIsInv
<1>12. CASE Blocks(t)
  BY <1>2, <1>3, <1>12, BlockStep, NextIsInv
<1>13. CASE Forced(t) /\ Passes(t, BeforeWindow(t), "open")
  <2>1. BeforeWindow(t) # 0
    BY <1>8, <1>9, <1>13, Sizes DEF Forced
  <2> QED
    BY <1>2, <1>10, <1>13, <2>1, NextIsInv
<1>14. CASE ReleasePoint(t) # 0 /\ Passes(t, ReleasePoint(t), "open")
  <2>1. CASE ReleasePoint(t) = BeforeWindow(t)
    BY <1>2, <1>10, <1>14, <2>1, NextIsInv
  <2>2. CASE /\ setup.judged
             /\ ReleasePoint(t) = LastBoundary(t)
             /\ SegmentChars <= LastBoundary(t) /\ LastBoundary(t) < BeforeWindow(t)
    <3> DEFINE end == LastBoundary(t)
    <3>1. end \in 0..Len(t)
      BY <1>7, LastBoundaryIsLast
    <3>2. end # 0 /\ end <= BeforeWindow(t) /\ Passes(t, end, "open")
      BY <1>8, <1>9, <1>14, <2>2, <3>1
    <3>3. ASSUME NEW e \in 0..end, e \in {end, SafeRelease(end, Spans(t))}
          PROVE  /\ Short(SubSeq(t, e + 1, Len(t)))
                 /\ setup.judged => Segment(SubSeq(t, e + 1, Len(t)))
      BY <1>1, <1>4, <1>5, <1>7, <2>2, <3>3, SentenceLeaves
    <3>4. GuardTypeOK' /\ NextInv
      BY <1>2, <1>3, <3>1, <3>2, <3>3, PassStep
    <3> QED
      BY <1>2, <3>4, NextIsInv
  <2> QED
    BY <1>7, <1>14, <2>1, <2>2, DuePoint
<1> QED
  BY <1>6, <1>11, <1>12, <1>13, <1>14

LEMMA FlushStep ==
  ASSUME GuardInv, Flush
  PROVE  GuardInv'
<1>1. state = "open" /\ answer' = answer /\ setup' = setup
  BY DEF Flush
<1>2. Places(answer, heldBack)
  BY <1>1, HeldPlaces
<1>3. CASE Blocks(heldBack)
  BY <1>1, <1>2, <1>3, BlockStep, NextIsInv
<1>4. ASSUME NEW next \in {"ended", "retracted"}, Passes(heldBack, Len(heldBack), next)
      PROVE  GuardInv'
  <2>1. Len(heldBack) \in 0..Len(heldBack)
    <3>1. Len(heldBack) \in Nat
      BY <1>2 DEF Places
    <3> QED
      BY <3>1
  <2>2. next # "open" /\ next \in {"open", "ended", "retracted"}
    BY <1>4
  <2>3. GuardTypeOK' /\ NextInv
    BY <1>1, <1>2, <1>4, <2>1, <2>2, PassStep
  <2> QED
    BY <1>1, <2>3, NextIsInv
<1> QED
  BY <1>3, <1>4 DEF Flush

LEMMA GuardInitInv == GuardInit => GuardInv
<1> SUFFICES ASSUME GuardInit PROVE GuardInv
  OBVIOUS
<1>1. /\ setup \in GuardSetups /\ answer = <<>> /\ heldBack = <<>> /\ shown = <<>>
      /\ state = "open" /\ unscanned = FALSE /\ severed = {}
  BY DEF GuardInit
<1>2. GuardTypeOK
  <2>1. <<>> \in Seq(Characters)
    OBVIOUS
  <2>2. <<>> \in Seq({"clear", "masked"})
    OBVIOUS
  <2>3. unscanned \in BOOLEAN /\ state \in {"open", "ended", "blocked", "retracted"}
    BY <1>1
  <2> QED
    BY <1>1, <2>1, <2>2, <2>3, Zenon DEF GuardTypeOK
<1>3. HeldIsRest
  BY <1>1, Sizes DEF HeldIsRest, StandsIn
<1>4. Uncut
  BY <1>1 DEF Uncut, Settled
<1>5. Told
  BY <1>1 DEF Told, Noted
<1>6. Segmented
  <2>1. 0 <= Lookback
    BY Sizes
  <2> QED
    BY <1>1, <2>1 DEF Segmented, Segment
<1>7. GuardSafe
  <2>1. 0 <= Max({MaxHold, Lookback + MaxChunk})
    <3>1. 0 \in Nat /\ 0 <= MaxHold
      BY Sizes
    <3> QED
      BY <3>1, Ceiling
  <2>2. Short(heldBack)
    BY <1>1, <2>1 DEF Short
  <2>3. Covers(shown, KeptOf(answer, severed))
    BY <1>1 DEF Covers
  <2> QED
    BY <1>1, <2>2, <2>3, Safe
<1> QED
  BY <1>2, <1>3, <1>4, <1>5, <1>6, <1>7 DEF GuardInv

LEMMA GuardStep == GuardInv /\ [GuardNext]_guardVars => GuardInv'
<1> SUFFICES ASSUME GuardInv, [GuardNext]_guardVars PROVE GuardInv'
  OBVIOUS
<1>1. ASSUME NEW chunk \in Strings(MaxChunk), Feed(chunk) PROVE GuardInv'
  BY <1>1, FeedStep
<1>2. CASE Flush
  BY <1>2, FlushStep
<1>3. CASE UNCHANGED guardVars
  BY <1>3 DEF guardVars, GuardInv, GuardTypeOK, HeldIsRest, Uncut, Told, Noted, Settled, NoCut,
    KeptOf, Segmented, Segment, Growing, GuardSafe, NothingLeaks, NothingStalls, Promised,
    Spans, Words, MatchLengths
<1> QED
  BY <1>1, <1>2, <1>3 DEF GuardNext

\* Whatever the sizes and however StreamingOutputGuard is fed: unless a check could not run,
\* nothing of a match goes out clear whose end and name _scan_and_split could see before it
\* had to let go of the front; and an answer that is not blocked goes out to its end.
THEOREM GuardSafeHolds == GuardSpec => []GuardSafe
<1>1. GuardInv => GuardSafe
  BY DEF GuardInv
<1> QED
  BY <1>1, GuardInitInv, GuardStep, PTL DEF GuardSpec
=============================================================================
