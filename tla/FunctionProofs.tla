--------------------------- MODULE FunctionProofs ---------------------------
(***************************************************************************)
(* The properties of intake, scoring and the document, for every bound on  *)
(* the inputs.                                                             *)
(***************************************************************************)
EXTENDS MCFunctions, WebhookProofs, WriterProofs

----------------------------------------------------------------------------
(* What the composite score means, for all scores and thresholds           *)

\* Arithmetic on plain integers, that the theorems below rest on.
LEMMA FineIsPositive == Fine \in Int /\ 1 <= Fine
  BY PrecisionAssumption, SMT

LEMMA SumIsBounded ==
  ASSUME NEW q \in Int, NEW a \in Int, NEW x \in Int, NEW m \in Int,
         0 <= q, 0 <= a, 0 <= x, q <= m, a <= m, x <= m
  PROVE  /\ 40 * q + 35 * a + 25 * x \in Int
         /\ 0 <= 40 * q + 35 * a + 25 * x /\ 40 * q + 35 * a + 25 * x <= 100 * m
  BY SMT

\* A mean of numbers that reach h is not rounded below h, when h is one of the
\* values of the rounding, f apart.
LEMMA MeanAbove ==
  ASSUME NEW q \in Int, NEW a \in Int, NEW x \in Int, NEW c \in Int, NEW h \in Int,
         NEW f \in Int, 1 <= f, c < h => c + f <= h,
         q >= h, a >= h, x >= h,
         40 * q + 35 * a + 25 * x <= 100 * c + 50 * f
  PROVE  c >= h
  BY SMT

LEMMA MeanBelow ==
  ASSUME NEW q \in Int, NEW a \in Int, NEW x \in Int, NEW c \in Int, NEW h \in Int,
         NEW f \in Int, 1 <= f, h < c => h + f <= c,
         q <= h, a <= h, x <= h,
         100 * c - 50 * f <= 40 * q + 35 * a + 25 * x
  PROVE  c <= h
  BY SMT

LEMMA NearestHundredth ==
  ASSUME NEW s \in Int, NEW v \in Int, NEW w \in Int, NEW f \in Int, 1 <= f
  PROVE  /\ s <= 100000 * f /\ v = 1000 * f => s <= 100 * v + 50 * f
         /\ 0 <= s /\ v = 0 => 100 * v - 50 * f <= s
         /\ w = v - f /\ ~(s <= 100 * w + 50 * f) => 100 * v - 50 * f <= s
  BY SMT

LEMMA SumMonotone ==
  ASSUME NEW q \in Int, NEW a \in Int, NEW x \in Int,
         NEW q2 \in Int, NEW a2 \in Int, NEW x2 \in Int,
         q <= q2, a <= a2, x <= x2, q # q2 \/ a # a2 \/ x # x2
  PROVE  40 * q + 35 * a + 25 * x < 40 * q2 + 35 * a2 + 25 * x2
  BY SMT

\* The same facts about the operators of Scoring.
LEMMA ScoreIsInt ==
  ASSUME NEW s \in Score
  PROVE  s \in Int /\ 0 <= s /\ s <= 1000 * Fine
<1>1. 1000 * Fine \in Int
  BY FineIsPositive
<1> QED
  BY <1>1, SMT DEF Score

LEMMA HundredthIs ==
  ASSUME NEW c \in Hundredths
  PROVE  \E k \in Int : c = Fine * k /\ Fine * k \in Int
<1>1. PICK k \in 0 .. 1000 : c = Fine * k
  BY Zenon DEF Hundredths
<1>2. k \in Int
  BY <1>1, SMT
<1>3. Fine * k \in Int
  BY <1>2, FineIsPositive, SMT
<1> QED
  BY <1>1, <1>2, <1>3, Zenon

LEMMA HundredthsHave == \A k \in 0 .. 1000 : Fine * k \in Hundredths
  BY DEF Hundredths

LEMMA HundredthIsInt == \A c \in Hundredths : c \in Int
<1> TAKE c \in Hundredths
<1>1. PICK k \in Int : c = Fine * k /\ Fine * k \in Int
  BY HundredthIs, Zenon
<1> QED
  BY <1>1

\* Two different numbers of two decimals are a hundredth apart.
LEMMA Apart ==
  ASSUME NEW c \in Hundredths, NEW h \in Hundredths, c < h
  PROVE  c + Fine <= h
<1>1. PICK k \in Int : c = Fine * k /\ Fine * k \in Int
  BY HundredthIs, Zenon
<1>2. PICK l \in Int : h = Fine * l /\ Fine * l \in Int
  BY HundredthIs, Zenon
<1>3. k < l
  <2>1. SUFFICES ASSUME l <= k PROVE FALSE
    BY <1>1, <1>2, SMT
  <2>2. PICK d \in Nat : k = l + d
    <3>1. k - l \in Nat /\ k = l + (k - l)
      BY <2>1, <1>1, <1>2, SMT
    <3> QED
      BY <3>1, Zenon
  <2>3. Fine * d \in Int /\ 0 <= Fine * d
    BY <2>2, FineIsPositive, SMT
  <2>4. Fine * k = Fine * l + Fine * d
    BY <2>2, <1>2, FineIsPositive, SMT
  <2> QED
    BY <2>3, <2>4, <1>1, <1>2, SMT
<1>4. PICK d \in Nat : l = k + 1 + d
  <2>1. l - k - 1 \in Nat /\ l = k + 1 + (l - k - 1)
    BY <1>3, <1>1, <1>2, SMT
  <2> QED
    BY <2>1, Zenon
<1>5. Fine * d \in Int /\ 0 <= Fine * d
  BY <1>4, FineIsPositive, SMT
<1>6. Fine * l = Fine * k + Fine + Fine * d
  BY <1>4, <1>1, FineIsPositive, SMT
<1> QED
  BY <1>1, <1>2, <1>5, <1>6, FineIsPositive, SMT

LEMMA EvaluationScores ==
  ASSUME NEW e \in Evaluation
  PROVE  e.quality \in Score /\ e.ambiguity \in Score /\ e.complexity \in Score
  BY DEF Evaluation

LEMMA WeightedSumIs ==
  ASSUME NEW e
  PROVE  WeightedSum(e) = 40 * e.quality + 35 * e.ambiguity + 25 * e.complexity
  BY Zenon DEF WeightedSum, WeightQuality, WeightAmbiguity, WeightComplexity

LEMMA WeightedSumIsBounded ==
  ASSUME NEW e \in Evaluation
  PROVE  /\ WeightedSum(e) \in Int
         /\ 0 <= WeightedSum(e) /\ WeightedSum(e) <= 100000 * Fine
<1> DEFINE q == e.quality
           a == e.ambiguity
           x == e.complexity
           m == 1000 * Fine
<1>1. q \in Score /\ a \in Score /\ x \in Score
  BY EvaluationScores
<1>2. WeightedSum(e) = 40 * q + 35 * a + 25 * x
  BY WeightedSumIs
<1>3. m \in Int /\ 100 * m = 100000 * Fine
  BY FineIsPositive
<1>4. \A s \in Score : s \in Int /\ 0 <= s /\ s <= m
  BY ScoreIsInt
<1> HIDE DEF q, a, x, m
<1>5. /\ q \in Int /\ 0 <= q /\ q <= m
      /\ a \in Int /\ 0 <= a /\ a <= m
      /\ x \in Int /\ 0 <= x /\ x <= m
  BY <1>1, <1>4
<1> DEFINE p == 40 * q + 35 * a + 25 * x
<1>6. p \in Int /\ 0 <= p /\ p <= 100 * m
  BY <1>3, <1>5, SumIsBounded
<1> HIDE DEF p
<1>7. WeightedSum(e) = p
  BY <1>2 DEF p
<1> QED
  BY <1>3, <1>6, <1>7

LEMMA CompositeIs ==
  ASSUME NEW e \in Evaluation, NEW c \in Composites(e)
  PROVE  /\ c \in Hundredths /\ c \in Int
         /\ 100 * c - 50 * Fine <= WeightedSum(e)
         /\ WeightedSum(e) <= 100 * c + 50 * Fine
<1>1. /\ c \in Hundredths
      /\ 100 * c - 50 * Fine <= WeightedSum(e) /\ WeightedSum(e) <= 100 * c + 50 * Fine
  BY Zenon DEF Composites
<1> QED
  BY <1>1, HundredthIsInt, Zenon

\* compute_composite always has a value: round never leaves the range of the
\* scores.
THEOREM CompositeExists == \A e \in Evaluation : Composites(e) # {}
<1> TAKE e \in Evaluation
<1> DEFINE s == WeightedSum(e)
           \* The hundredths from half a one below the sum on.
           Reaches(k) == s <= 100 * (Fine * k) + 50 * Fine
           Above == {k \in Nat : Reaches(k)}
<1>1. s \in Int /\ 0 <= s /\ s <= 100000 * Fine
  BY WeightedSumIsBounded
<1> HIDE DEF s
<1>2. \A k \in Int : Fine * k \in Int /\ Fine * (k - 1) = Fine * k - Fine
  BY FineIsPositive, SMT
<1>3. 1000 \in Above
  <2> DEFINE v == Fine * 1000
  <2>1. v \in Int /\ v = 1000 * Fine
    BY FineIsPositive, SMT
  <2>2. s <= 100 * v + 50 * Fine
    <3> HIDE DEF v
    <3> QED
      BY <2>1, <1>1, FineIsPositive, NearestHundredth
  <2>3. 1000 \in Nat
    BY SMT
  <2> QED
    BY <2>2, <2>3, Zenon
<1>4. \E k \in Nat : /\ k <= 1000 /\ Reaches(k)
                    /\ \A l \in Nat : Reaches(l) => k <= l
  <2> HIDE DEF Reaches
  <2>1. Above \in SUBSET Nat /\ Above # {}
    BY <1>3
  <2>2. PICK k \in Above : \A l \in Above : k <= l
    <3> HIDE DEF Above
    <3> QED
      BY <2>1, LeastNumber
  <2> QED
    BY <2>2, <1>3
<1>5. PICK k \in Nat : /\ k <= 1000 /\ Reaches(k)
                     /\ \A l \in Nat : Reaches(l) => k <= l
  BY <1>4, Zenon
<1> DEFINE c == Fine * k
           d == Fine * (k - 1)
<1>6. 100 * c - 50 * Fine <= s
  <2>1. c \in Int /\ d = c - Fine /\ d \in Int
    BY <1>2, <1>5, FineIsPositive, SMT
  <2>2. CASE k = 0
    <3>1. c = 0
      BY <2>2, FineIsPositive, SMT
    <3> HIDE DEF c, d
    <3> QED
      BY <3>1, <2>1, <1>1, FineIsPositive, NearestHundredth
  <2>3. CASE k # 0
    <3>1. k - 1 \in Nat /\ ~(k <= k - 1)
      BY <2>3, <1>5, SMT
    <3>2. ~(s <= 100 * d + 50 * Fine)
      BY <3>1, <1>5, Zenon
    <3> HIDE DEF c, d
    <3> QED
      BY <3>2, <2>1, <1>1, FineIsPositive, NearestHundredth
  <2> QED
    BY <2>2, <2>3
<1>7. c \in Hundredths
  <2>1. k \in 0 .. 1000
    BY <1>5, SMT
  <2> QED
    BY <2>1, HundredthsHave, Zenon
<1>8. c \in Composites(e)
  BY <1>5, <1>6, <1>7, Zenon DEF Composites, s
<1> QED
  BY <1>8, Zenon

\* The composite lies between the lowest and the highest score, rounded: the
\* weights sum to one.
LEMMA CompositeIsMean ==
  ASSUME NEW e \in Evaluation, NEW c \in Composites(e), NEW h \in Hundredths
  PROVE  /\ AtLeast(e, h) => c >= h
         /\ AtMost(e, h) => c <= h
<1> DEFINE q == e.quality
           a == e.ambiguity
           x == e.complexity
<1>1. q \in Int /\ a \in Int /\ x \in Int
  BY EvaluationScores, ScoreIsInt
<1>2. /\ c \in Int /\ h \in Int
      /\ 100 * c - 50 * Fine <= 40 * q + 35 * a + 25 * x
      /\ 40 * q + 35 * a + 25 * x <= 100 * c + 50 * Fine
  BY CompositeIs, WeightedSumIs, HundredthIsInt
<1>3. /\ AtLeast(e, h) => q >= h /\ a >= h /\ x >= h
      /\ AtMost(e, h) => q <= h /\ a <= h /\ x <= h
  BY DEF AtLeast, AtMost
<1>4. (c < h => c + Fine <= h) /\ (h < c => h + Fine <= c)
  BY CompositeIs, Apart
<1> HIDE DEF q, a, x
<1>5. AtLeast(e, h) => c >= h
  BY <1>1, <1>2, <1>3, <1>4, FineIsPositive, MeanAbove
<1>6. AtMost(e, h) => c <= h
  BY <1>1, <1>2, <1>3, <1>4, FineIsPositive, MeanBelow
<1> QED
  BY <1>5, <1>6

\* A number of two decimals between the threshold and all scores decides the
\* gate of build_phase1_result, whatever the decimals of the scores.
THEOREM UnanimityDecidesTheGate ==
  ASSUME NEW e \in Evaluation, NEW t \in Int, NEW h \in Hundredths,
         NEW result \in BuildPhase1Result(e, t)
  PROVE  /\ h >= t /\ AtLeast(e, h) => result.passed
         /\ h < t /\ AtMost(e, h) => ~result.passed
<1>1. PICK c \in Composites(e) :
         result = [composite |-> c, passed |-> EvaluateGate(c, t)]
  BY DEF BuildPhase1Result
<1>2. result.passed = (c >= t)
  BY <1>1 DEF EvaluateGate
<1>3. c \in Int /\ h \in Int
  BY CompositeIs, HundredthIsInt
<1>4. (AtLeast(e, h) => c >= h) /\ (AtMost(e, h) => c <= h)
  BY CompositeIsMean
<1>5. /\ h >= t /\ c >= h => c >= t
      /\ h < t /\ c <= h => ~(c >= t)
  BY <1>3
<1> QED
  BY <1>2, <1>4, <1>5, Zenon

\* Raising scores never lowers the composite, rounding included, so that a
\* better story passes wherever a worse one does.
THEOREM BetterNeverScoredLower ==
  ASSUME NEW e1 \in Evaluation, NEW e2 \in Evaluation,
         NoWorse(e1, e2), e1 # e2,
         NEW c1 \in Composites(e1), NEW c2 \in Composites(e2)
  PROVE  c1 <= c2
<1> DEFINE q1 == e1.quality
           a1 == e1.ambiguity
           x1 == e1.complexity
           q2 == e2.quality
           a2 == e2.ambiguity
           x2 == e2.complexity
<1>1. /\ q1 \in Int /\ a1 \in Int /\ x1 \in Int
      /\ q2 \in Int /\ a2 \in Int /\ x2 \in Int
  BY EvaluationScores, ScoreIsInt
<1>2. q1 <= q2 /\ a1 <= a2 /\ x1 <= x2 /\ (q1 # q2 \/ a1 # a2 \/ x1 # x2)
  BY DEF NoWorse, Evaluation
<1>3. /\ WeightedSum(e1) = 40 * q1 + 35 * a1 + 25 * x1
      /\ WeightedSum(e2) = 40 * q2 + 35 * a2 + 25 * x2
  BY WeightedSumIs
<1> HIDE DEF q1, a1, x1, q2, a2, x2
<1>4. WeightedSum(e1) < WeightedSum(e2)
  BY <1>1, <1>2, <1>3, SumMonotone
<1>5. /\ WeightedSum(e1) \in Int /\ WeightedSum(e2) \in Int
      /\ c1 \in Int /\ 100 * c1 - 50 * Fine <= WeightedSum(e1)
      /\ c2 \in Int /\ WeightedSum(e2) <= 100 * c2 + 50 * Fine
  BY WeightedSumIsBounded, CompositeIs
<1>6. c2 < c1 => c2 + Fine <= c1
  BY CompositeIs, Apart
<1> QED
  BY <1>4, <1>5, <1>6, FineIsPositive, SMT

----------------------------------------------------------------------------
(* The invariant of the three functions                                    *)

\* A story, suggestions and bodies of any length.
Proper(w) ==
    /\ w.story.id \in Text /\ w.story.title \in Text /\ w.story.description \in Text
    /\ w.skipped \in BOOLEAN
    /\ Suggestions(w.lists) \in Seq(Suggested)
    /\ \A h \in Written : w.bodies[h] \in Seq(LinesOf(h)) /\ w.bodies[h] # <<>>

\* Every input is one of its function, and an output is what it returns.
IInv ==
    /\ done \in BOOLEAN
    /\ task = "answer" =>
          /\ input \in Event
          /\ done => output = Intake(input)
    /\ task = "score" =>
          /\ input.scores \in Evaluation
          /\ input.threshold \in Int
          /\ done => output \in BuildPhase1Result(input.scores, input.threshold)
    /\ task = "write" =>
          /\ Proper(input)
          /\ done => output = Write(input)

LEMMA LengthsAreNaturals ==
  ASSUME NEW b \in BOOLEAN, NEW l \in PossibleLengths(b)
  PROVE  l[1] \in Nat /\ l[2] \in Nat
<1>1. MaxChars \in Nat /\ MaxBodyBytes \in Nat
  BY BoundsAssumption, MaxBodyAssumption
<1> QED
  BY <1>1 DEF PossibleLengths

LEMMA EventsAreEvents == Events \subseteq Event
<1>1. ASSUME NEW b \in BOOLEAN PROVE EventsOf(b) \subseteq Event
  <2> SUFFICES ASSUME NEW l \in PossibleLengths(b),
                      NEW e \in [ base64 : {b}, chars : {l[1]}, convertible : BOOLEAN,
                                  bytes : {l[2]}, header : Headers,
                                  signature : Signatures, content : Contents,
                                  issue : Issues ]
               PROVE  e \in Event
    BY DEF EventsOf
  <2>1. l[1] \in Nat /\ l[2] \in Nat
    BY LengthsAreNaturals
  <2> QED
    BY <2>1, <1>1 DEF Event
<1> QED
  BY <1>1 DEF Events

LEMMA EvaluationsAreEvaluations == Evaluations \subseteq Evaluation
  BY BoundsAssumption DEF Evaluations, Evaluation

LEMMA SomeLines ==
  /\ Suggested \subseteq Text /\ \A t \in Suggested : Single(t)
  /\ StoryLines \subseteq Lines
  /\ \A h \in Written : h \in Titles /\ LinesOf(h) \subseteq Lines
<1>1. /\ "s1" \in Titles /\ "s2" \in Titles /\ "s3" \in Titles /\ "s4" \in Titles
      /\ "other" \in Titles /\ "" \in Titles
  BY DEF Titles
<1>2. \A h \in Written : h \in Titles
  <2>1. /\ Sections[3] \in Titles /\ Sections[4] \in Titles
        /\ Sections[6] \in Titles /\ Sections[7] \in Titles
    <3>1. 3 \in 1 .. 8 /\ 4 \in 1 .. 8 /\ 6 \in 1 .. 8 /\ 7 \in 1 .. 8
      OBVIOUS
    <3> QED
      BY <3>1, SomeTitles, Zenon
  <2> QED
    BY <2>1, SectionNames DEF Written
<1>3. /\ Blank \in Lines /\ Words \in Lines /\ Line("blanks", "") \in Lines
      /\ Line("|", "") \in Lines
      /\ \A title \in Titles : /\ Line("##", title) \in Lines /\ Line("#", title) \in Lines
                               /\ Line("###", title) \in Lines
                               /\ Line("text", title) \in Lines
  BY <1>1, LineIs, SomeMarks, LineFacts
<1>4. StoryLines \subseteq Lines
  BY <1>1, <1>2, <1>3 DEF StoryLines, Written
<1>5. \A h \in Written : LinesOf(h) \subseteq Lines
  BY <1>1, <1>2, <1>3 DEF LinesOf
<1>6. ASSUME NEW line \in Lines PROVE <<line>> \in Text /\ Single(<<line>>)
  <2>1. <<line>> \in Seq(Lines) /\ Len(<<line>>) = 1 /\ <<line>> # <<>>
    OBVIOUS
  <2> QED
    BY <2>1 DEF Text, Single
<1>7. ASSUME NEW line \in Lines, NEW next \in Lines, next.mark # "-"
      PROVE  <<line, next>> \in Text /\ Single(<<line, next>>)
  <2>1. /\ <<line, next>> \in Seq(Lines) /\ Len(<<line, next>>) = 2
        /\ <<line, next>> # <<>> /\ <<line, next>>[2] = next
    OBVIOUS
  <2> QED
    BY <2>1, <1>7 DEF Text, Single
<1>8. Line("#", "other").mark # "-"
  BY <1>1, LineIs, SomeMarks
<1>9. \A t \in Suggested : t \in Text /\ Single(t)
  BY <1>1, <1>3, <1>6, <1>7, <1>8 DEF Suggested, Suggestion
<1> QED
  BY <1>2, <1>4, <1>5, <1>9

LEMMA TextsAre ==
  ASSUME NEW S, NEW n, NEW t \in Texts(S, n)
  PROVE  t \in Seq(S) /\ t # <<>>
  BY DEF Texts, BoundedSeq, SeqOf

LEMMA ListsAre ==
  ASSUME NEW r \in Lists
  PROVE  r \in Seq(Suggested)
  BY DEF Lists, BoundedSeq, SeqOf

LEMMA PlainIsProper ==
  /\ <<Words>> \in Text
  /\ PlainStory.id = <<Words>> /\ PlainStory.title = <<Words>>
  /\ PlainStory.description = <<Words>>
  /\ \A h \in Written : <<Words>> \in Seq(LinesOf(h)) /\ <<Words>> # <<>>
  /\ \A h \in Written : PlainBodies[h] = <<Words>>
<1>1. <<Words>> \in Text
  BY LineFacts DEF Text
<1>2. \A h \in Written : Words \in LinesOf(h)
  BY DEF LinesOf
<1> QED
  BY <1>1, <1>2 DEF PlainStory, PlainBodies

LEMMA WritingsAreProper ==
  ASSUME NEW w \in Writings
  PROVE  Proper(w)
<1>1. CASE w \in StoryWritings
  <2>1. /\ w.story \in Stories /\ w.skipped \in BOOLEAN /\ w.bodies = PlainBodies
        /\ w.lists = << <<Suggestion("s1")>>, <<>>, <<>> >>
    BY <1>1 DEF StoryWritings
  <2>2. w.story.id \in Text /\ w.story.title \in Text /\ w.story.description \in Text
    <3>1. /\ w.story.id = <<Words>> /\ w.story.title \in Texts(StoryLines, 2)
          /\ w.story.description \in Texts(StoryLines, MaxLines)
      BY <2>1 DEF Stories
    <3>2. \A n : \A t \in Texts(StoryLines, n) : t \in Seq(StoryLines) /\ t # <<>>
      BY TextsAre
    <3>3. \A t \in Seq(StoryLines) : t \in Seq(Lines)
      BY SomeLines
    <3> QED
      BY <3>1, <3>2, <3>3, PlainIsProper DEF Text
  <2>3. Suggestions(w.lists) \in Seq(Suggested)
    <3>1. Suggestion("s1") \in Suggested
      BY DEF Suggested
    <3>2. w.lists[1] \in Seq(Suggested) /\ w.lists[2] \in Seq(Suggested)
          /\ w.lists[3] \in Seq(Suggested)
      BY <2>1, <3>1
    <3> QED
      BY <3>2 DEF Suggestions
  <2> QED
    BY <2>1, <2>2, <2>3, PlainIsProper DEF Proper
<1>2. ASSUME NEW h \in Written, NEW body \in BodiesOf(h),
             w.story = PlainStory, w.lists = << <<>>, <<>>, <<>> >>, w.skipped = FALSE,
             w.bodies = [PlainBodies EXCEPT ![h] = body]
      PROVE  Proper(w)
  <2>1. \A g \in Written : w.bodies[g] = IF g = h THEN body ELSE <<Words>>
    BY <1>2, PlainIsProper DEF PlainBodies
  <2>2. body \in Seq(LinesOf(h)) /\ body # <<>>
    BY TextsAre DEF BodiesOf
  <2>3. Suggestions(w.lists) \in Seq(Suggested)
    <3>1. w.lists[1] = <<>> /\ w.lists[2] = <<>> /\ w.lists[3] = <<>>
      BY <1>2
    <3>2. Suggestions(w.lists) = <<>> \o <<>> \o <<>>
      BY <3>1 DEF Suggestions
    <3> QED
      BY <3>2
  <2>4. \A g \in Written : w.bodies[g] \in Seq(LinesOf(g)) /\ w.bodies[g] # <<>>
    BY <2>1, <2>2, PlainIsProper
  <2> QED
    BY <1>2, <2>3, <2>4, PlainIsProper DEF Proper
<1>3. CASE w \in ListWritings
  <2>1. /\ w.story = PlainStory /\ w.skipped \in BOOLEAN /\ w.bodies = PlainBodies
        /\ w.lists[1] \in Lists /\ w.lists[2] \in Lists /\ w.lists[3] \in Lists
    BY <1>3 DEF ListWritings
  <2>2. /\ w.lists[1] \in Seq(Suggested) /\ w.lists[2] \in Seq(Suggested)
        /\ w.lists[3] \in Seq(Suggested)
    BY <2>1, ListsAre
  <2>3. Suggestions(w.lists) \in Seq(Suggested)
    BY <2>2 DEF Suggestions
  <2> QED
    BY <2>1, <2>3, PlainIsProper DEF Proper
<1> QED
  <2>1. CASE w \in BodyWritings
    <3>1. PICK h \in Written :
             w \in [story : {PlainStory}, lists : {<< <<>>, <<>>, <<>> >>},
                    skipped : {FALSE},
                    bodies : { [PlainBodies EXCEPT ![h] = b] : b \in BodiesOf(h) }]
      BY <2>1 DEF BodyWritings
    <3>2. /\ w.story = PlainStory /\ w.lists = << <<>>, <<>>, <<>> >> /\ w.skipped = FALSE
          /\ w.bodies \in { [PlainBodies EXCEPT ![h] = b] : b \in BodiesOf(h) }
      BY <3>1
    <3>3. PICK body \in BodiesOf(h) : w.bodies = [PlainBodies EXCEPT ![h] = body]
      BY <3>2
    <3> QED
      BY <1>2, <3>2, <3>3
  <2> QED
    BY <1>1, <1>3, <2>1 DEF Writings

LEMMA Invariant == Spec => []IInv
<1>1. Init => IInv
  <2> SUFFICES ASSUME Init PROVE IInv
    OBVIOUS
  <2>1. task = "answer" => input \in Event
    BY EventsAreEvents DEF Init
  <2>2. task = "score" => input.scores \in Evaluation /\ input.threshold \in Int
    <3> SUFFICES ASSUME task = "score"
                 PROVE  input.scores \in Evaluation /\ input.threshold \in Int
      OBVIOUS
    <3>1. input \in Scorings
      BY DEF Init
    <3> QED
      BY <3>1, EvaluationsAreEvaluations, BoundsAssumption DEF Scorings
  <2>3. task = "write" => Proper(input)
    BY WritingsAreProper DEF Init
  <2> QED
    BY <2>1, <2>2, <2>3 DEF Init, IInv
<1>2. IInv /\ [Next]_vars => IInv'
  <2> SUFFICES ASSUME IInv, [Next]_vars PROVE IInv'
    OBVIOUS
  <2>1. CASE Evaluate
    BY <2>1 DEF Evaluate, IInv
  <2>2. CASE UNCHANGED vars
    BY <2>2 DEF vars, IInv
  <2> QED
    BY <2>1, <2>2 DEF Next
<1> QED
  BY <1>1, <1>2, PTL DEF Spec

----------------------------------------------------------------------------
\* lambda_handler lets only authentic payloads within the limit reach the
\* pipeline, for every limit and every set of events.
THEOREM OnlyAuthentic == Spec => []OnlyAuthenticPayloads
<1>1. IInv => OnlyAuthenticPayloads
  BY AcceptedIsAuthentic DEF IInv, OnlyAuthenticPayloads, Evaluated
<1> QED
  BY <1>1, Invariant, PTL

\* lambda_handler turns no correct delivery away, in text or in base64, for
\* every limit of at least two bytes.
THEOREM DeliveriesFit ==
  ASSUME MaxBodyBytes >= 2
  PROVE  Spec => []EveryDeliveryFits
<1>1. IInv => EveryDeliveryFits
  BY DeliverableIsAccepted DEF IInv, EveryDeliveryFits, Evaluated
<1> QED
  BY <1>1, Invariant, PTL

\* Without a valid signature no body makes the answer of lambda_handler differ.
THEOREM StrangersLearn == Spec => []StrangersLearnNothing
<1>1. IInv => StrangersLearnNothing
  <2> SUFFICES ASSUME IInv, Evaluated("answer"), input.convertible,
                      ExtractSignature(input) # "match",
                      NEW c \in Contents
               PROVE  Intake([input EXCEPT !.content = c]) = Intake(input)
    BY DEF IInv, StrangersLearnNothing, Evaluated
  <2> DEFINE e == [input EXCEPT !.content = c]
  <2>1. input \in Event
    BY DEF IInv, Evaluated
  <2>2. /\ ExtractBody(e) = ExtractBody(input)
        /\ ExtractSignature(e) = ExtractSignature(input)
    BY <2>1 DEF Event, ExtractBody, WithinCap, ExtractSignature
  <2>3. ValidateSignature(e) = ValidateSignature(input)
    BY <2>2 DEF ValidateSignature
  <2>4. ExtractSignature(input) \in Signatures
    BY <2>1 DEF Event, ExtractSignature, Signatures
  <2>5. ValidateSignature(input) # "ok"
    BY <2>4 DEF ValidateSignature, Signatures
  <2> QED
    BY <2>2, <2>3, <2>5 DEF Intake
<1> QED
  BY <1>1, Invariant, PTL

\* build_phase1_result follows the agents when a number of two decimals lies
\* between the threshold and all their scores, for all scores and thresholds and
\* any number of decimals.
THEOREM Unanimity == Spec => []UnanimityDecides
<1>1. IInv => UnanimityDecides
  BY UnanimityDecidesTheGate DEF IInv, UnanimityDecides, Evaluated
<1> QED
  BY <1>1, Invariant, PTL

\* build_phase1_result never fails a story that is better than one it passes.
THEOREM BetterPasses == Spec => []BetterNeverFails
<1>1. IInv => BetterNeverFails
  <2> SUFFICES ASSUME IInv, Evaluated("score"), output.passed,
                      NEW better \in Evaluations \ {input.scores},
                      NoWorse(input.scores, better),
                      NEW r \in BuildPhase1Result(better, input.threshold)
               PROVE  r.passed
    BY DEF BetterNeverFails
  <2>1. /\ input.scores \in Evaluation /\ input.threshold \in Int
        /\ output \in BuildPhase1Result(input.scores, input.threshold)
        /\ better \in Evaluation
    BY EvaluationsAreEvaluations DEF IInv, Evaluated
  <2>2. PICK c1 \in Composites(input.scores) :
           output = [composite |-> c1, passed |-> EvaluateGate(c1, input.threshold)]
    BY <2>1 DEF BuildPhase1Result
  <2>3. PICK c2 \in Composites(better) :
           r = [composite |-> c2, passed |-> EvaluateGate(c2, input.threshold)]
    BY DEF BuildPhase1Result
  <2>4. c1 <= c2
    BY <2>1, BetterNeverScoredLower
  <2>5. c1 \in Int /\ c2 \in Int
    BY <2>1, CompositeIs
  <2>6. c1 >= input.threshold
    BY <2>2 DEF EvaluateGate
  <2>7. c2 >= input.threshold
    BY <2>1, <2>4, <2>5, <2>6
  <2> QED
    BY <2>3, <2>7 DEF EvaluateGate
<1> QED
  BY <1>1, Invariant, PTL

----------------------------------------------------------------------------
(* What was said, in the order in which it was said                        *)

\* No two of these suggestions have the same first line.
Named(S) == \A x, y \in S : x[1].title = y[1].title => x = y

LEMMA SaidIs ==
  ASSUME NEW S, NEW all \in Seq(S), all = Suggestions(input.lists)
  PROVE  /\ DOMAIN Said = 1 .. Len(all) /\ Len(Said) = Len(all) /\ Len(all) \in Nat
         /\ \A k \in 1 .. Len(all) : Said[k] = all[k][1].title
         /\ ToSet(Said) = {Said[k] : k \in 1 .. Len(all)}
<1>1. Said = [k \in DOMAIN all |-> all[k][1].title]
  BY DEF Said
<1>2. DOMAIN all = 1 .. Len(all) /\ Len(all) \in Nat
  OBVIOUS
<1>3. Said = [k \in 1 .. Len(all) |-> all[k][1].title]
  BY <1>1, <1>2
<1>4. Len(Said) = Len(all)
  BY <1>2, <1>3
<1>5. DOMAIN Said = 1 .. Len(all)
  BY <1>3
<1>6. ToSet(Said) = {Said[k] : k \in 1 .. Len(all)}
  BY <1>5 DEF ToSet
<1> QED
  BY <1>2, <1>3, <1>4, <1>5, <1>6

\* FirstSaid is where a suggestion is first said.
LEMMA FirstSaidIs ==
  ASSUME NEW S, NEW all \in Seq(S), all = Suggestions(input.lists),
         NEW p \in 1 .. Len(all), NEW s, Said[p] = s
  PROVE  /\ FirstSaid(s) \in 1 .. Len(all) /\ FirstSaid(s) <= p
         /\ Said[FirstSaid(s)] = s
<1> DEFINE T == {k \in DOMAIN Said : Said[k] = s}
<1>1. DOMAIN Said = 1 .. Len(all) /\ Len(all) \in Nat
  BY SaidIs
<1>2. T \in SUBSET (1 .. Len(all)) /\ p \in T
  BY <1>1
<1>3. T # {}
  BY <1>2
<1>4. Min(T) \in T /\ \A k \in T : Min(T) <= k
  <2> HIDE DEF T
  <2> QED
    BY <1>1, <1>2, <1>3, MinOfPlaces
<1>5. FirstSaid(s) = Min(T)
  BY DEF FirstSaid
<1> QED
  BY <1>1, <1>2, <1>4, <1>5

\* These lines of a text have the titles of these suggestions, in their order.
Shows(text, lines, r, pos) ==
    /\ pos \in [1 .. Len(r) -> lines] /\ lines \in SUBSET Int
    /\ \A i \in 1 .. Len(r) : text[pos[i]].title = r[i][1].title
    /\ \A i, k \in 1 .. Len(r) : i < k => pos[i] < pos[k]
    /\ \A j \in lines : \E i \in 1 .. Len(r) : j = pos[i]

\* The suggestions that FirstSeen chooses, wherever they are shown, are what was
\* said first, as much as the limit allows.
LEMMA ShownInOrder ==
  ASSUME NEW S, Named(S), NEW all \in Seq(S), all = Suggestions(input.lists),
         NEW limit \in Nat, NEW r \in Seq(S), Chosen(r, limit, all, Len(all)),
         NEW text, NEW lines, NEW pos, Shows(text, lines, r, pos)
  PROVE  SaidInOrder(text, lines, limit)
<1> DEFINE n == Len(all)
           m == Len(r)
           title(i) == r[i][1].title
<1>1. /\ DOMAIN Said = 1 .. n /\ n \in Nat
      /\ \A k \in 1 .. n : Said[k] = all[k][1].title
      /\ ToSet(Said) = {Said[k] : k \in 1 .. n}
  BY SaidIs
<1>2. /\ m \in Nat /\ m <= limit
      /\ \A j \in 1 .. m : \E p \in 1 .. n :
            /\ all[p] = r[j]
            /\ \A q \in 1 .. p - 1 : \E i \in 1 .. j - 1 : r[i] = all[q]
      /\ \A i, j \in 1 .. m : r[i] = r[j] => i = j
      /\ m < limit => \A q \in 1 .. n : \E i \in 1 .. m : r[i] = all[q]
  BY DEF Chosen
<1>3. /\ \A i \in 1 .. m : r[i] \in S
      /\ \A i \in 1 .. n : all[i] \in S
  OBVIOUS
<1>4. /\ pos \in [1 .. m -> lines] /\ lines \in SUBSET Int
      /\ \A i \in 1 .. m : text[pos[i]].title = title(i)
      /\ \A i, k \in 1 .. m : i < k => pos[i] < pos[k]
      /\ \A j \in lines : \E i \in 1 .. m : j = pos[i]
  BY DEF Shows
<1>5. \A i, k \in 1 .. m : title(i) = title(k) => i = k
  BY <1>2, <1>3 DEF Named
<1>6. \A j \in 1 .. m : title(j) \in ToSet(Said)
  <2> SUFFICES ASSUME NEW j \in 1 .. m PROVE title(j) \in ToSet(Said)
    OBVIOUS
  <2>1. PICK p \in 1 .. n : all[p] = r[j]
    BY <1>2
  <2>2. Said[p] = title(j)
    BY <1>1, <2>1
  <2> QED
    BY <1>1, <2>2
<1>7. ASSUME NEW a \in 1 .. m, NEW s \in ToSet(Said),
             FirstSaid(s) < FirstSaid(title(a))
      PROVE  \E i \in 1 .. m : i < a /\ title(i) = s
  <2>1. PICK p \in 1 .. n :
           /\ all[p] = r[a]
           /\ \A q \in 1 .. p - 1 : \E i \in 1 .. a - 1 : r[i] = all[q]
    BY <1>2
  <2>2. Said[p] = title(a)
    BY <1>1, <2>1
  <2>3. FirstSaid(title(a)) \in 1 .. n /\ FirstSaid(title(a)) <= p
    BY <2>2, FirstSaidIs
  <2>4. PICK k \in 1 .. n : Said[k] = s
    BY <1>1
  <2> DEFINE q == FirstSaid(s)
             f == FirstSaid(title(a))
  <2>5. q \in 1 .. n /\ Said[q] = s
    BY <2>4, FirstSaidIs
  <2>6. q \in 1 .. p - 1
    <3>1. q < f /\ f \in 1 .. n /\ f <= p /\ q \in 1 .. n
      BY <1>7, <2>3, <2>5
    <3> HIDE DEF q, f
    <3> QED
      BY <1>1, <3>1
  <2> HIDE DEF q, f
  <2>7. PICK i \in 1 .. a - 1 : r[i] = all[q]
    BY <2>1, <2>6
  <2>8. i \in 1 .. m /\ i < a
    BY <1>2
  <2>9. title(i) = s
    BY <1>1, <2>5, <2>7
  <2> QED
    BY <2>8, <2>9
<1>8. IsFiniteSet(lines) /\ Cardinality(lines) = m
  <2>1. ASSUME NEW i \in 1 .. m, NEW k \in 1 .. m, pos[i] = pos[k] PROVE i = k
    <3>1. ~(i < k) /\ ~(k < i)
      <4>1. pos[i] \in Int /\ pos[k] \in Int
        BY <1>4
      <4> QED
        BY <1>4, <2>1, <4>1
    <3> QED
      BY <3>1
  <2> HIDE DEF m
  <2> QED
    BY <1>2, <1>4, <2>1, Counted
<1> DEFINE chosen == {title(i) : i \in 1 .. m}
           f == [i \in 1 .. m |-> title(i)]
<1>9. IsFiniteSet(chosen) /\ Cardinality(chosen) = m
  <2>1. f \in [1 .. m -> chosen] /\ \A i \in 1 .. m : f[i] = title(i)
    OBVIOUS
  <2>2. \A s \in chosen : \E i \in 1 .. m : s = f[i]
    BY <2>1
  <2>3. \A i, k \in 1 .. m : f[i] = f[k] => i = k
    BY <1>5, <2>1
  <2> HIDE DEF m, f, chosen
  <2> QED
    BY <1>2, <2>1, <2>2, <2>3, Counted
<1>10. chosen \in SUBSET ToSet(Said)
  BY <1>6
<1>11. IsFiniteSet(ToSet(Said))
  <2>1. IsFiniteSet(1 .. n)
    <3>1. 1 \in Int /\ n \in Int
      BY <1>1
    <3> HIDE DEF n
    <3> QED
      BY <3>1, FS_Interval
  <2> DEFINE g == [k \in 1 .. n |-> Said[k]]
  <2>2. g \in Surjection(1 .. n, ToSet(Said))
    <3>1. g \in [1 .. n -> ToSet(Said)]
      BY <1>1
    <3>2. \A s \in ToSet(Said) : \E k \in 1 .. n : g[k] = s
      BY <1>1
    <3> QED
      BY <3>1, <3>2 DEF Surjection
  <2> HIDE DEF g, n
  <2> QED
    BY <2>1, <2>2, FS_Surjection
<1>12. Cardinality(lines) = IF Cardinality(ToSet(Said)) < limit
                            THEN Cardinality(ToSet(Said)) ELSE limit
  <2>1. Cardinality(ToSet(Said)) \in Nat
    BY <1>11, FS_CardinalityType
  <2>2. CASE m < limit
    <3>1. ASSUME NEW s \in ToSet(Said) PROVE s \in chosen
      <4>1. PICK q \in 1 .. n : Said[q] = s
        BY <1>1
      <4>2. PICK i \in 1 .. m : r[i] = all[q]
        BY <1>2, <2>2
      <4>3. title(i) = s
        BY <1>1, <4>1, <4>2
      <4> QED
        BY <4>3
    <3>2. ToSet(Said) = chosen
      BY <1>10, <3>1
    <3> HIDE DEF chosen, m
    <3> QED
      BY <1>8, <1>9, <2>2, <3>2
  <2>3. CASE ~(m < limit)
    <3>1. m = limit
      BY <1>2, <2>3
    <3>2. Cardinality(chosen) <= Cardinality(ToSet(Said))
      <4> HIDE DEF chosen
      <4> QED
        BY <1>10, <1>11, FS_Subset
    <3> HIDE DEF chosen, m
    <3> QED
      BY <1>8, <1>9, <2>1, <3>1, <3>2
  <2> QED
    BY <2>2, <2>3
<1>13. \A j \in lines : text[j].title \in ToSet(Said)
  BY <1>4, <1>6
<1>14. ASSUME NEW j \in lines, NEW s \in ToSet(Said),
              FirstSaid(s) < FirstSaid(text[j].title)
       PROVE  \E i \in lines : i < j /\ text[i].title = s
  <2>1. PICK a \in 1 .. m : j = pos[a]
    BY <1>4
  <2>2. text[j].title = title(a)
    BY <1>4, <2>1
  <2>3. PICK i \in 1 .. m : i < a /\ title(i) = s
    BY <1>7, <1>14, <2>2
  <2> QED
    BY <1>4, <2>1, <2>3
<1>15. ASSUME NEW i \in lines, NEW j \in lines, text[i].title = text[j].title
       PROVE  i = j
  <2>1. PICK a \in 1 .. m : i = pos[a]
    BY <1>4
  <2>2. PICK c \in 1 .. m : j = pos[c]
    BY <1>4
  <2>3. title(a) = title(c)
    BY <1>4, <1>15, <2>1, <2>2
  <2> QED
    BY <1>5, <2>1, <2>2, <2>3
<1> QED
  BY <1>12, <1>13, <1>14, <1>15 DEF SaidInOrder

----------------------------------------------------------------------------
(* The document that was written                                           *)

\* A document has been written, with these texts in its sections.
WrittenAs(section, at, b) ==
    /\ Document(output.document, section, at, b)
    /\ Filled(b, input.story, input.lists, input.skipped, input.bodies)

\* The four sections whose text an agent writes.
ByAgents == {3, 4, 6, 7}

LEMMA AgentsWrite ==
  ASSUME NEW k \in ByAgents
  PROVE  k \in 1 .. 8 /\ Sections[k] \in Written
<1>1. k = 3 \/ k = 4 \/ k = 6 \/ k = 7
  BY DEF ByAgents
<1>2. k \in 1 .. 8
  BY <1>1
<1>3. /\ Sections[3] \in Written /\ Sections[4] \in Written
      /\ Sections[6] \in Written /\ Sections[7] \in Written
  BY SectionNames, Zenon DEF Written
<1> QED
  BY <1>1, <1>2, <1>3, Zenon

\* What an agent wrote, without a repeated heading, is all in its section.
LEMMA BodyKept ==
  ASSUME Proper(input), NEW k \in ByAgents,
         NEW h, h = Sections[k], NEW own, own = Own(input.bodies[h], h),
         NEW c, c = StripDuplicateHeading(input.bodies[h], h)
  PROVE  /\ own \in Seq(LinesOf(h)) /\ own \in Seq(Lines) /\ c \in Text
         /\ \E d \in Int : Keeps(own, c, d)
<1> DEFINE body == input.bodies[h]
           rest == LeftStrip(body)
           L == LinesOf(h)
<1>1. h \in Written /\ body \in Seq(L) /\ body # <<>> /\ L \subseteq Lines
  BY AgentsWrite, SomeLines DEF Proper
<1> HIDE DEF body, L
<1>2. body \in Text
  BY <1>1 DEF Text
<1>3. rest \in Seq(L)
  <2> DEFINE kept == {i \in DOMAIN body : body[i] # Blank}
  <2>1. Len(body) \in Nat /\ DOMAIN body = 1 .. Len(body)
    BY <1>1
  <2>2. CASE kept = {}
    BY <2>2 DEF LeftStrip
  <2>3. CASE kept # {}
    <3> DEFINE m == Min(kept)
    <3>1. m \in 1 .. Len(body)
      <4>1. kept \in SUBSET (1 .. Len(body))
        BY <2>1
      <4> HIDE DEF kept
      <4> QED
        BY <2>1, <2>3, <4>1, MinOfPlaces
    <3>2. rest = SubSeq(body, m, Len(body))
      BY <2>3 DEF LeftStrip
    <3> HIDE DEF m
    <3> QED
      BY <1>1, <2>1, <3>1, <3>2
  <2> QED
    BY <2>2, <2>3
<1>4. own = IF /\ rest # <<>> /\ rest[1].mark \in {"#", "##"}
               /\ rest[1].title = h
            THEN Tail(rest) ELSE body
  BY DEF Own, IsSectionHeading, body
<1>5. own \in Seq(L)
  <2> HIDE DEF rest
  <2> QED
    BY <1>1, <1>3, <1>4
<1>6. /\ own \in Seq(Lines) /\ StripDuplicateHeading(body, h) \in Text
      /\ \E d \in Int : Keeps(own, StripDuplicateHeading(body, h), d)
  <2>1. rest = LeftStrip(body)
    OBVIOUS
  <2> HIDE DEF rest
  <2> QED
    BY <1>2, <1>4, <2>1, StripDuplicateHeadingKeeps
<1>7. c = StripDuplicateHeading(body, h)
  BY DEF body
<1> QED
  BY <1>5, <1>6, <1>7 DEF L

LEMMA ADocument ==
  ASSUME Proper(input), output = Write(input)
  PROVE  \E section, at, b : WrittenAs(section, at, b)
<1>1. output.document = AssembleSpec(input.story, input.lists, input.skipped, input.bodies)
  BY DEF Write
<1>2. ASSUME NEW limit \in Nat PROVE Singles(FirstSeen(limit, Suggestions(input.lists)))
  <2> DEFINE r == FirstSeen(limit, Suggestions(input.lists))
  <2>1. r \in Seq(Suggested)
    BY FirstSeenChooses DEF Proper
  <2> HIDE DEF r
  <2>2. \A n \in 1 .. Len(r) : r[n] \in Suggested
    BY <2>1
  <2>3. r \in Seq(Text) /\ \A n \in 1 .. Len(r) : Single(r[n])
    BY <2>1, <2>2, SomeLines
  <2> QED
    BY <2>3 DEF Singles, r
<1>3. Len(Suggestions(input.lists)) \in Nat
  BY DEF Proper
<1>4. Singles(TopSuggestions(2, input.lists)) /\ Singles(MergedSuggestions(input.lists))
  BY <1>2, <1>3 DEF TopSuggestions, MergedSuggestions
<1>5. ASSUME NEW k \in {3, 4, 6, 7} PROVE input.bodies[Sections[k]] \in Text
  <2>1. Sections[k] \in Written
    BY AgentsWrite DEF ByAgents
  <2>2. /\ input.bodies[Sections[k]] \in Seq(LinesOf(Sections[k]))
        /\ input.bodies[Sections[k]] # <<>> /\ LinesOf(Sections[k]) \subseteq Lines
    BY <2>1, SomeLines DEF Proper
  <2> QED
    BY <2>2 DEF Text
<1>6. /\ input.story.id \in Text /\ input.story.title \in Text
      /\ input.story.description \in Text /\ input.skipped \in BOOLEAN
  BY DEF Proper
<1>7. \E section, at, b :
         /\ Document(AssembleSpec(input.story, input.lists, input.skipped, input.bodies),
                     section, at, b)
         /\ Filled(b, input.story, input.lists, input.skipped, input.bodies)
  BY <1>4, <1>5, <1>6, AssembleSpecIs
<1> QED
  BY <1>1, <1>7 DEF WrittenAs

LEMMA ListedIsPlain ==
  ASSUME NEW t \in Text, NEW p, NEW r, NEW n, Listed(t, p, r, n)
  PROVE  Plain(t)
  BY DEF Listed, Plain, Structural, Headings

\* The texts that no agent writes have no heading.
LEMMA OthersArePlain ==
  ASSUME Proper(input), NEW section, NEW at, NEW b, WrittenAs(section, at, b),
         NEW k \in 1 .. 8, input.skipped \/ k \notin ByAgents
  PROVE  Plain(b[k])
<1>1. b[k] \in Text
  BY DEF WrittenAs, Document
<1>2. k \in {1, 2, 8} \/ k \in 3 .. 7
  OBVIOUS
<1>3. CASE k \in {1, 2, 8}
  BY <1>3 DEF WrittenAs, Filled
<1>4. CASE k \in 3 .. 7
  <2>1. \E p, r, n : Listed(b[k], p, r, n)
    <3>1. CASE input.skipped
      BY <1>4, <3>1 DEF WrittenAs, Filled
    <3>2. CASE ~input.skipped
      <4>1. k = 5
        BY <1>4, <3>2 DEF ByAgents
      <4> QED
        BY <3>2, <4>1 DEF WrittenAs, Filled
    <3> QED
      BY <3>1, <3>2
  <2> QED
    BY <1>1, <2>1, ListedIsPlain
<1> QED
  BY <1>2, <1>3, <1>4

\* A visible line of a text that an agent wrote is one of its lines.
LEMMA LineOfBody ==
  ASSUME Proper(input), NEW section, NEW at, NEW b, WrittenAs(section, at, b),
         ~input.skipped, NEW k \in ByAgents, NEW h, h = Sections[k],
         NEW j \in 1 .. Len(b[k]), Visible(b[k][j])
  PROVE  \E i \in DOMAIN Own(input.bodies[h], h) :
            /\ Own(input.bodies[h], h)[i] = b[k][j]
            /\ b[k][j] \in LinesOf(h)
<1> DEFINE own == Own(input.bodies[h], h)
           c == StripDuplicateHeading(input.bodies[h], h)
<1>1. b[k] = c
  BY DEF WrittenAs, Filled, ByAgents
<1>2. own \in Seq(LinesOf(h)) /\ \E d \in Int : Keeps(own, c, d)
  BY BodyKept
<1> HIDE DEF own, c
<1>3. PICK d \in Int : Keeps(own, c, d)
  BY <1>2
<1>4. j - d \in 1 .. Len(own) /\ own[j - d] = b[k][j]
  BY <1>1, <1>3 DEF Keeps
<1>5. j - d \in DOMAIN own /\ own[j - d] \in LinesOf(h)
  BY <1>2, <1>4
<1> QED
  BY <1>4, <1>5 DEF own

LEMMA TextsAreSeparate ==
  ASSUME Proper(input), NEW section, NEW at, NEW b, WrittenAs(section, at, b)
  PROVE  Separate(b)
<1> SUFFICES ASSUME NEW m \in 1 .. 8, NEW k \in 1 .. 8, m # k, NEW i \in 1 .. Len(b[m]),
                    b[m][i] = Line("##", Sections[k])
             PROVE  FALSE
  BY DEF Separate
<1>1. Sections[k] \in Titles /\ Sections[m] \in Titles /\ Sections[k] # Sections[m]
  BY SomeTitles, SectionsDiffer
<1>2. b[m][i].mark = "##" /\ b[m][i].title = Sections[k]
  BY <1>1, LineIs, SomeMarks
<1>3. CASE input.skipped \/ m \notin ByAgents
  <2>1. Plain(b[m])
    BY <1>3, OthersArePlain
  <2> QED
    BY <1>2, <2>1 DEF Plain
<1>4. CASE ~input.skipped /\ m \in ByAgents
  <2>1. Visible(b[m][i])
    BY <1>2 DEF Visible
  <2>2. b[m][i] \in LinesOf(Sections[m])
    BY <1>4, <2>1, LineOfBody
  <2>3. /\ Line("##", Sections[m]).title = Sections[m]
        /\ Line("#", Sections[m]).mark = "#" /\ Line("###", Sections[m]).mark = "###"
        /\ Line("##", "other").title = "other" /\ Line("blanks", "").mark = "blanks"
        /\ Blank.mark = "empty" /\ Words.mark = "text"
    BY <1>1, LineIs, SomeMarks, SomeTitles DEF Blank, Words
  <2>4. Sections[k] # "other"
    <3>1. k = 1 \/ k = 2 \/ k = 3 \/ k = 4 \/ k = 5 \/ k = 6 \/ k = 7 \/ k = 8
      OBVIOUS
    <3> QED
      BY <3>1, SectionNames
  <2> QED
    BY <1>1, <1>2, <2>2, <2>3, <2>4 DEF LinesOf
<1> QED
  BY <1>3, <1>4

LEMMA HeadingsAt ==
  ASSUME Proper(input), NEW section, NEW at, NEW b, WrittenAs(section, at, b),
         NEW k \in 1 .. 8
  PROVE  HeadingAt(output.document, k) = at[k] + 1
<1> DEFINE text == output.document
           T == {j \in DOMAIN text : text[j] = Line("##", Sections[k])}
<1>1. /\ at[k] + 1 \in 1 .. Len(text) /\ text[at[k] + 1] = Line("##", Sections[k])
      /\ \A j \in 1 .. at[k] : text[j] # Line("##", Sections[k])
  <2>1. Document(text, section, at, b) /\ Separate(b)
    BY TextsAreSeparate DEF WrittenAs
  <2> HIDE DEF text
  <2>2. Starts(text, at, k)
    BY <2>1, FirstHeading
  <2> QED
    BY <2>2 DEF Starts
<1>2. text \in Seq(Lines) /\ Len(text) \in Nat /\ at[k] \in Nat
  BY DocumentFacts DEF WrittenAs, Placed
<1>3. DOMAIN text = 1 .. Len(text)
  BY <1>2
<1>4. T \in SUBSET (1 .. Len(text)) /\ at[k] + 1 \in T
  BY <1>1, <1>3
<1>5. \A j \in T : j \in 1 .. Len(text) /\ ~(j \in 1 .. at[k])
  BY <1>1, <1>4
<1>6. HeadingAt(text, k) = IF T = {} THEN 0 ELSE Min(T)
  BY DEF HeadingAt
<1> HIDE DEF T, text
<1>7. T # {}
  BY <1>4
<1>8. Min(T) \in T /\ Min(T) <= at[k] + 1
  BY <1>2, <1>4, <1>7, MinOfPlaces
<1>9. Min(T) \in 1 .. Len(text) /\ ~(Min(T) \in 1 .. at[k])
  BY <1>5, <1>8
<1>10. Min(T) = at[k] + 1
  BY <1>2, <1>8, <1>9
<1> QED
  BY <1>6, <1>7, <1>10 DEF text

LEMMA SectionIs ==
  ASSUME Proper(input), NEW section, NEW at, NEW b, WrittenAs(section, at, b),
         NEW k \in 1 .. 8,
         NEW u, u = SectionOf(output.document, k)
  PROVE  /\ u \in Seq(Lines)
         /\ Keeps(b[k], u, 1)
         /\ Visible(b[k][Len(b[k])]) => Has(u, b[k], 1)
<1> DEFINE text == output.document
<1>1. HeadingAt(text, k) = at[k] + 1
  BY HeadingsAt
<1>2. Placed(text, section, at, b, k) /\ Len(text) = at[8] + Len(section[8]) + 1
  BY DocumentFacts DEF WrittenAs
<1>3. at[k] \in Nat /\ Len(section[k]) \in Nat
  BY <1>2 DEF Placed
<1>4. (IF k = 8 THEN Len(text) ELSE HeadingAt(text, k + 1) - 1)
      = at[k] + Len(section[k]) + 1
  <2>1. CASE k = 8
    BY <1>2, <2>1
  <2>2. CASE k # 8
    <3>1. k \in 1 .. 7 /\ k + 1 \in 1 .. 8
      BY <2>2
    <3>2. Offsets(section, at)
      BY DEF WrittenAs, Document
    <3>3. at[k + 1] = at[k] + Len(section[k]) + 1
      BY <3>1, <3>2, OffsetsAre
    <3>4. HeadingAt(text, k + 1) = at[k + 1] + 1
      BY <3>1, HeadingsAt
    <3>5. HeadingAt(text, k + 1) - 1 = at[k] + Len(section[k]) + 1
      BY <1>3, <3>3, <3>4
    <3> QED
      BY <2>2, <3>5, Zenon
  <2> QED
    BY <2>1, <2>2
<1>5. HeadingAt(text, k) + 1 = at[k] + 2
  BY <1>1, <1>3
<1>6. u = SubSeq(text, at[k] + 2, at[k] + Len(section[k]) + 1)
  BY <1>4, <1>5 DEF SectionOf
<1> QED
  BY <1>6, SectionText DEF WrittenAs

\* assemble_spec writes the eight sections in their order and no other heading,
\* whatever the lines of the story, of the suggestions and of obedient agents.
THEOREM EightSectionsHold == Spec => []EightSections
<1>1. IInv => EightSections
  <2> SUFFICES ASSUME Proper(input), output = Write(input), AllObedient
               PROVE  LET at == [k \in 1 .. 8 |-> HeadingAt(output.document, k)] IN
                      /\ at[1] > 0
                      /\ \A k \in 1 .. 7 : at[k] < at[k + 1]
                      /\ \A j \in DOMAIN output.document :
                            IsSectionHeading(output.document[j]) =>
                               \E k \in 1 .. 8 : j = at[k]
    BY DEF IInv, EightSections, Evaluated
  <2> DEFINE text == output.document
             h == [k \in 1 .. 8 |-> HeadingAt(text, k)]
  <2>1. PICK section, at, b : WrittenAs(section, at, b)
    BY ADocument
  <2>2. \A k \in 1 .. 8 : h[k] = at[k] + 1
    BY <2>1, HeadingsAt
  <2>3. /\ \A k \in 1 .. 8 : at[k] \in Nat /\ Len(section[k]) \in Nat
        /\ \A k \in 1 .. 7 : at[k + 1] = at[k] + Len(section[k]) + 1
    BY <2>1, OffsetsAre DEF WrittenAs, Document
  <2>4. ASSUME NEW m \in 1 .. 8 PROVE Plain(b[m])
    <3>1. CASE input.skipped \/ m \notin ByAgents
      BY <2>1, <3>1, OthersArePlain
    <3>2. CASE ~input.skipped /\ m \in ByAgents
      <4> SUFFICES ASSUME NEW j \in 1 .. Len(b[m]), b[m][j].mark \in {"#", "##"}
                   PROVE  FALSE
        BY <2>1 DEF Plain, WrittenAs, Document
      <4> DEFINE s == Sections[m]
                 own == Own(input.bodies[s], s)
      <4>1. s \in Written
        BY <3>2, AgentsWrite
      <4>2. Visible(b[m][j])
        BY DEF Visible
      <4>3. PICK i \in DOMAIN own : own[i] = b[m][j]
        BY <2>1, <3>2, <4>2, LineOfBody
      <4>4. ~IsSectionHeading(own[i])
        BY <4>1 DEF AllObedient
      <4> QED
        BY <4>3, <4>4 DEF IsSectionHeading
    <3> QED
      BY <3>1, <3>2
  <2>5. text \in Seq(Lines) /\ DOMAIN text = 1 .. Len(text)
    BY <2>1 DEF WrittenAs, Document
  <2>6. ASSUME NEW j \in DOMAIN text, IsSectionHeading(text[j])
        PROVE  \E k \in 1 .. 8 : j = h[k]
    <3>1. j \in 1 .. Len(text) /\ text[j].mark \in {"#", "##"}
      BY <2>5, <2>6 DEF IsSectionHeading
    <3>2. Document(text, section, at, b)
      BY <2>1 DEF WrittenAs
    <3> HIDE DEF text, h
    <3>3. \E m \in 1 .. 8 : j = at[m] + 1
      BY <2>4, <3>1, <3>2, OnlyHeadings
    <3> QED
      BY <2>2, <3>3
  <2>7. ASSUME NEW k \in 1 .. 7 PROVE h[k] < h[k + 1]
    <3>1. k \in 1 .. 8 /\ k + 1 \in 1 .. 8
      OBVIOUS
    <3>2. h[k] = at[k] + 1 /\ h[k + 1] = at[k + 1] + 1
      BY <2>2, <3>1
    <3>3. at[k] \in Nat /\ Len(section[k]) \in Nat /\ at[k + 1] = at[k] + Len(section[k]) + 1
      BY <2>3, <3>1
    <3> HIDE DEF h
    <3> QED
      BY <3>2, <3>3
  <2>8. h[1] > 0
    <3>1. h[1] = at[1] + 1 /\ at[1] \in Nat
      BY <2>2, <2>3
    <3> HIDE DEF h
    <3> QED
      BY <3>1
  <2> QED
    BY <2>6, <2>7, <2>8
<1> QED
  BY <1>1, Invariant, PTL

----------------------------------------------------------------------------
LEMMA KeepsIsSameVisible ==
  ASSUME NEW t \in Seq(Lines), NEW u \in Seq(Lines), NEW d \in Int, Keeps(t, u, d)
  PROVE  SameVisible(t, u)
<1>1. /\ DOMAIN t = 1 .. Len(t) /\ DOMAIN u = 1 .. Len(u)
      /\ Len(t) \in Nat /\ Len(u) \in Nat
  OBVIOUS
<1>2. CASE \E j \in 1 .. Len(t) : Visible(t[j])
  <2>1. PICK j \in 1 .. Len(t) : Visible(t[j])
    BY <1>2
  <2>2. j + d \in 1 .. Len(u)
    BY <2>1 DEF Keeps
  <2>3. d \in 0 - Len(t) .. Len(u)
    BY <1>1, <2>2
  <2> QED
    BY <1>1, <2>3 DEF Keeps, SameVisible
<1>3. CASE ~ \E j \in 1 .. Len(t) : Visible(t[j])
  <2>1. \A j \in 1 .. Len(u) : ~Visible(u[j])
    BY <1>3 DEF Keeps
  <2>2. 0 \in 0 - Len(t) .. Len(u)
    BY <1>1
  <2> QED
    BY <1>1, <1>3, <2>1, <2>2 DEF SameVisible
<1> QED
  BY <1>2, <1>3

\* A text that has another one, escaped or after the start of a line.
LEMMA HasEscaped ==
  ASSUME NEW t \in Text, NEW u \in Seq(Lines), NEW d \in Nat,
         Has(u, EscapeMarkdownStructural(t), d)
  PROVE  Escaped(t, u, d) /\ d \in 0 .. Len(u) /\ d < Len(u)
<1> DEFINE e == EscapeMarkdownStructural(t)
<1>1. /\ e \in Text /\ Len(e) = Len(t)
      /\ \A j \in 1 .. Len(t) : e[j] \in {t[j], [t[j] EXCEPT !.mark = "escaped"]}
  BY EscapeMarkdownStructuralIs
<1> HIDE DEF e
<1>2. Has(u, e, d)
  BY DEF e
<1>3. /\ DOMAIN t = 1 .. Len(t) /\ DOMAIN u = 1 .. Len(u) /\ Len(u) \in Nat
      /\ Len(t) \in Nat /\ Len(t) >= 1
  BY TextFacts
<1>4. ASSUME NEW j \in DOMAIN t
      PROVE  /\ j + d \in DOMAIN u
             /\ u[j + d] \in {t[j], [t[j] EXCEPT !.mark = "escaped"]}
  <2>1. j \in 1 .. Len(e) /\ d + j = j + d
    BY <1>1, <1>3
  <2>2. d + j \in 1 .. Len(u) /\ u[d + j] = e[j]
    BY <1>2, <2>1 DEF Has
  <2> QED
    BY <1>1, <1>3, <2>1, <2>2
<1>5. 1 + d \in 1 .. Len(u)
  <2>1. 1 \in DOMAIN t
    BY <1>3
  <2> QED
    BY <1>3, <1>4, <2>1
<1> QED
  BY <1>3, <1>4, <1>5 DEF Escaped

LEMMA HasEscapedAfter ==
  ASSUME NEW t \in Text, NEW u \in Seq(Lines), NEW d \in Nat,
         Has(u, After("text", EscapeMarkdownStructural(t)), d)
  PROVE  Escaped(Tail(t), u, d + 1)
<1> DEFINE e == EscapeMarkdownStructural(t)
           a == After("text", e)
<1>1. /\ e \in Text /\ Len(e) = Len(t)
      /\ \A j \in 1 .. Len(t) : e[j] \in {t[j], [t[j] EXCEPT !.mark = "escaped"]}
  BY EscapeMarkdownStructuralIs
<1> HIDE DEF e
<1>2. Len(a) = Len(e) /\ \A j \in 2 .. Len(e) : a[j] = e[j]
  BY <1>1, AfterIs, SomeMarks
<1>3. Has(u, a, d)
  BY DEF a, e
<1> HIDE DEF a
<1>4. /\ t \in Seq(Lines) /\ DOMAIN u = 1 .. Len(u) /\ Len(t) \in Nat /\ Len(t) >= 1
      /\ t # <<>>
  BY TextFacts DEF Text
<1>5. /\ DOMAIN Tail(t) = 1 .. Len(t) - 1
      /\ \A j \in 1 .. Len(t) - 1 : Tail(t)[j] = t[j + 1]
  BY <1>4
<1>6. ASSUME NEW j \in DOMAIN Tail(t)
      PROVE  /\ j + (d + 1) \in DOMAIN u
             /\ u[j + (d + 1)] \in {Tail(t)[j], [Tail(t)[j] EXCEPT !.mark = "escaped"]}
  <2>1. /\ j + 1 \in 2 .. Len(e) /\ j + 1 \in 1 .. Len(a) /\ j + 1 \in 1 .. Len(t)
        /\ d + (j + 1) = j + (d + 1)
    BY <1>1, <1>2, <1>4, <1>5
  <2>2. d + (j + 1) \in 1 .. Len(u) /\ u[d + (j + 1)] = a[j + 1]
    BY <1>3, <2>1 DEF Has
  <2>3. a[j + 1] = e[j + 1] /\ Tail(t)[j] = t[j + 1]
    BY <1>2, <1>5, <2>1
  <2>4. e[j + 1] \in {t[j + 1], [t[j + 1] EXCEPT !.mark = "escaped"]}
    BY <1>1, <2>1
  <2> QED
    BY <1>4, <2>1, <2>2, <2>3, <2>4
<1> QED
  BY <1>6 DEF Escaped

\* assemble_spec loses no line of an agent, of the title or of the description.
THEOREM NothingIsLost == Spec => []NothingLost
<1>1. IInv => NothingLost
  <2> SUFFICES ASSUME Proper(input), output = Write(input)
               PROVE  /\ ~input.skipped => \A k \in {3, 4, 6, 7} :
                            SameVisible(Own(input.bodies[Sections[k]], Sections[k]),
                                        SectionOf(output.document, k))
                      /\ LET told == SectionOf(output.document, 1) IN
                         \E d, e \in 0 .. Len(told) :
                            /\ Escaped(Tail(input.story.title), told, d)
                            /\ d + Len(input.story.title) < e
                            /\ Escaped(input.story.description, told, e)
    BY DEF IInv, NothingLost, Evaluated
  <2>1. PICK section, at, b : WrittenAs(section, at, b)
    BY ADocument
  <2>2. \A k \in 1 .. 8 : b[k] \in Text
    BY <2>1 DEF WrittenAs, Document
  <2>3. ASSUME ~input.skipped, NEW k \in {3, 4, 6, 7}
        PROVE  SameVisible(Own(input.bodies[Sections[k]], Sections[k]),
                           SectionOf(output.document, k))
    <3> DEFINE h == Sections[k]
               own == Own(input.bodies[h], h)
               c == StripDuplicateHeading(input.bodies[h], h)
               u == SectionOf(output.document, k)
    <3>1. k \in ByAgents /\ k \in 1 .. 8
      BY DEF ByAgents
    <3>2. own \in Seq(Lines) /\ c \in Text /\ \E d \in Int : Keeps(own, c, d)
      BY <3>1, BodyKept
    <3>3. b[k] = c
      BY <2>1, <2>3 DEF WrittenAs, Filled
    <3>4. u \in Seq(Lines) /\ Keeps(b[k], u, 1)
      BY <2>1, <3>1, SectionIs
    <3> HIDE DEF own, c, u
    <3>5. PICK d \in Int : Keeps(own, c, d)
      BY <3>2
    <3>6. c \in Seq(Lines) /\ 1 \in Int /\ d + 1 \in Int
      BY <3>2, TextFacts
    <3>7. Keeps(own, u, d + 1)
      BY <3>2, <3>3, <3>4, <3>5, <3>6, KeepsOn
    <3>8. SameVisible(own, u)
      BY <3>2, <3>4, <3>6, <3>7, KeepsIsSameVisible
    <3> QED
      BY <3>8 DEF own, u
  <2> DEFINE told == SectionOf(output.document, 1)
             title == input.story.title
             lines == input.story.description
  <2>4. told \in Seq(Lines) /\ Has(told, b[1], 1)
    <3>1. Visible(b[1][Len(b[1])])
      BY <2>1 DEF WrittenAs, Filled
    <3> QED
      BY <2>1, <3>1, SectionIs
  <2>5. PICK d \in Nat, e \in Nat :
           /\ Has(b[1], After("text", EscapeMarkdownStructural(title)), d)
           /\ Has(b[1], EscapeMarkdownStructural(lines), e)
           /\ d + Len(title) + 1 < e
    BY <2>1 DEF WrittenAs, Filled
  <2>6. title \in Text /\ lines \in Text
    BY DEF Proper
  <2> HIDE DEF told, title, lines
  <2>7. 1 + d \in Nat /\ 1 + e \in Nat
    OBVIOUS
  <2>8. EscapeMarkdownStructural(lines) \in Seq(Lines)
    BY <2>6, EscapeMarkdownStructuralIs, TextFacts
  <2>9. After("text", EscapeMarkdownStructural(title)) \in Seq(Lines)
    BY <2>6, EscapeMarkdownStructuralIs, AfterIs, SomeMarks, TextFacts
  <2>10. b[1] \in Seq(Lines)
    BY <2>2, TextFacts
  <2>11. Has(told, EscapeMarkdownStructural(lines), 1 + e)
    BY <2>4, <2>5, <2>8, <2>10, HasOn
  <2>12. Has(told, After("text", EscapeMarkdownStructural(title)), 1 + d)
    BY <2>4, <2>5, <2>9, <2>10, HasOn
  <2>13. Escaped(lines, told, 1 + e) /\ 1 + e \in 0 .. Len(told)
    BY <2>4, <2>6, <2>7, <2>11, HasEscaped
  <2>14. Escaped(Tail(title), told, (1 + d) + 1)
    BY <2>4, <2>6, <2>7, <2>12, HasEscapedAfter
  <2>15. (1 + d) + 1 \in 0 .. Len(told) /\ ((1 + d) + 1) + Len(title) < 1 + e
    <3>1. Len(title) \in Nat /\ Len(title) >= 1 /\ Len(told) \in Nat
      BY <2>4, <2>6, TextFacts
    <3> QED
      BY <2>5, <2>13, <3>1
  <2>16. \E p, q \in 0 .. Len(told) :
            /\ Escaped(Tail(title), told, p) /\ p + Len(title) < q
            /\ Escaped(lines, told, q)
    BY <2>13, <2>14, <2>15
  <2> QED
    BY <2>3, <2>16 DEF told, title, lines
<1> QED
  BY <1>1, Invariant, PTL

----------------------------------------------------------------------------
LEMMA SuggestionsAreNamed == Named(Suggested)
<1>1. /\ "s1" \in Titles /\ "s2" \in Titles /\ "s3" \in Titles /\ "s4" \in Titles
      /\ "text" \in Marks /\ "##" \in Marks
  BY SomeMarks DEF Titles
<1>2. /\ Suggestion("s1")[1].title = "s1" /\ Suggestion("s2")[1].title = "s2"
      /\ Suggestion("s3")[1].title = "s3"
  BY <1>1, LineIs DEF Suggestion
<1>3. <<Line("##", "s4"), Line("#", "other")>>[1].title = "s4"
  BY <1>1, LineIs
<1> QED
  BY <1>2, <1>3 DEF Named, Suggested

\* The items of a section are the suggestions listed in its text.
LEMMA ItemsAre ==
  ASSUME NEW t, NEW u \in Seq(Lines), Keeps(t, u, 1), NEW r \in Seq(Suggested),
         NEW p, Listed(t, p, r, Len(r))
  PROVE  \E pos : Shows(u, Items(u), r, pos)
<1> DEFINE n == Len(r)
           lines == Items(u)
           pos == [i \in 1 .. n |-> p[i] + 1]
<1>1. n \in Nat
  OBVIOUS
<1>2. /\ t \in Seq(Lines) /\ p \in [1 .. n -> 1 .. Len(t)]
      /\ \A i \in 1 .. n : t[p[i]].mark = "-" /\ t[p[i]].title = r[i][1].title
      /\ \A i, k \in 1 .. n : i < k => p[i] < p[k]
      /\ \A j \in 1 .. Len(t) : t[j].mark = "-" => \E i \in 1 .. n : j = p[i]
  BY DEF Listed
<1>3. \A j : j \in lines <=> j \in 1 .. Len(u) /\ u[j].mark = "-"
  BY DEF Items
<1>4. lines \in SUBSET Int
  BY <1>3
<1> HIDE DEF n, lines
<1>5. ASSUME NEW i \in 1 .. n
      PROVE  pos[i] = p[i] + 1 /\ pos[i] \in lines /\ u[pos[i]] = t[p[i]]
  <2>1. p[i] \in 1 .. Len(t) /\ t[p[i]].mark = "-"
    BY <1>2
  <2>2. Visible(t[p[i]])
    BY <2>1 DEF Visible
  <2>3. p[i] + 1 \in 1 .. Len(u) /\ u[p[i] + 1] = t[p[i]]
    BY <2>1, <2>2 DEF Keeps
  <2> QED
    BY <1>3, <2>1, <2>3
<1>6. ASSUME NEW i \in 1 .. n, NEW k \in 1 .. n, i < k PROVE pos[i] < pos[k]
  <2>1. p[i] \in Int /\ p[k] \in Int /\ p[i] < p[k]
    BY <1>2, <1>6
  <2>2. pos[i] = p[i] + 1 /\ pos[k] = p[k] + 1
    BY <1>5
  <2> HIDE DEF pos
  <2> QED
    BY <2>1, <2>2
<1>7. ASSUME NEW j \in lines PROVE \E i \in 1 .. n : j = pos[i]
  <2>1. j \in 1 .. Len(u) /\ u[j].mark = "-"
    BY <1>3
  <2>2. Visible(u[j])
    BY <2>1 DEF Visible
  <2>3. j - 1 \in 1 .. Len(t) /\ t[j - 1] = u[j]
    BY <2>1, <2>2 DEF Keeps
  <2>4. PICK i \in 1 .. n : j - 1 = p[i]
    BY <1>2, <2>1, <2>3
  <2>5. pos[i] = j
    BY <1>5, <2>1, <2>4
  <2> QED
    BY <2>5
<1>8. pos \in [1 .. n -> lines]
  BY <1>5
<1> HIDE DEF pos
<1>9. \A i \in 1 .. n : u[pos[i]].title = r[i][1].title
  BY <1>2, <1>5
<1> QED
  BY <1>4, <1>6, <1>7, <1>8, <1>9 DEF Shows, n, lines

\* A section in which suggestions are listed says them in order.
LEMMA SectionInOrder ==
  ASSUME Proper(input), NEW section, NEW at, NEW b, WrittenAs(section, at, b),
         NEW k \in 1 .. 8, NEW limit \in Nat,
         NEW r, r = FirstSeen(limit, Suggestions(input.lists)),
         NEW p, Listed(b[k], p, r, Len(r))
  PROVE  SaidInOrder(SectionOf(output.document, k),
                     Items(SectionOf(output.document, k)), limit)
<1> DEFINE all == Suggestions(input.lists)
           u == SectionOf(output.document, k)
<1>1. all \in Seq(Suggested)
  BY DEF Proper
<1>2. u \in Seq(Lines) /\ Keeps(b[k], u, 1)
  BY SectionIs
<1>3. r \in Seq(Suggested) /\ Chosen(r, limit, all, Len(all))
  BY <1>1, FirstSeenChooses
<1>4. all = Suggestions(input.lists)
  OBVIOUS
<1> HIDE DEF all, u
<1>5. PICK pos : Shows(u, Items(u), r, pos)
  BY <1>2, <1>3, ItemsAre
<1>6. SaidInOrder(u, Items(u), limit)
  BY <1>1, <1>3, <1>4, <1>5, SuggestionsAreNamed, ShownInOrder
<1> QED
  BY <1>6 DEF u

\* The comment and the spec say the suggestions in the order in which the agents
\* first made them, without repetition and up to their limit.
THEOREM SuggestionsInOrder == Spec => []SuggestionsFirstSeenFirst
<1>1. IInv => SuggestionsFirstSeenFirst
  <2> DEFINE Section(k) == SectionOf(output.document, k)
             titles == [k \in DOMAIN output.comment |-> output.comment[k][1]]
  <2> SUFFICES ASSUME Proper(input), output = Write(input)
               PROVE  /\ SaidInOrder(titles, DOMAIN output.comment, 3)
                      /\ IF input.skipped
                         THEN \A k \in 3 .. 7 :
                                 SaidInOrder(Section(k), Items(Section(k)), 2)
                         ELSE SaidInOrder(Section(5), Items(Section(5)), Len(Said))
    BY DEF IInv, SuggestionsFirstSeenFirst, Evaluated
  <2> DEFINE all == Suggestions(input.lists)
  <2>1. PICK section, at, b : WrittenAs(section, at, b)
    BY ADocument
  <2>2. all \in Seq(Suggested) /\ Len(all) \in Nat /\ Len(Said) = Len(all)
    BY SaidIs DEF Proper
  <2>3. SaidInOrder(titles, DOMAIN output.comment, 3)
    <3> DEFINE r == FirstSeen(3, all)
               pos == [i \in 1 .. Len(r) |-> i]
    <3>1. output.comment = r
      BY DEF Write, CommentSuggestions, TopSuggestions
    <3>2. r \in Seq(Suggested) /\ Chosen(r, 3, all, Len(all)) /\ 3 \in Nat
      BY <2>2, FirstSeenChooses
    <3> HIDE DEF r
    <3>3. DOMAIN output.comment = 1 .. Len(r) /\ Len(r) \in Nat
      BY <3>1, <3>2
    <3>4. Shows(titles, 1 .. Len(r), r, pos)
      <4>1. \A i \in 1 .. Len(r) : titles[i] = r[i][1] /\ pos[i] = i
        BY <3>1, <3>3
      <4>2. pos \in [1 .. Len(r) -> 1 .. Len(r)]
        OBVIOUS
      <4> HIDE DEF titles, pos
      <4> QED
        BY <3>3, <4>1, <4>2 DEF Shows
    <3>5. all = Suggestions(input.lists)
      OBVIOUS
    <3> HIDE DEF titles, pos, all
    <3> QED
      BY <2>2, <3>2, <3>3, <3>4, <3>5, SuggestionsAreNamed, ShownInOrder
  <2>4. ASSUME input.skipped, NEW k \in 3 .. 7
        PROVE  SaidInOrder(Section(k), Items(Section(k)), 2)
    <3> DEFINE r == FirstSeen(2, all)
    <3>1. \E p : Listed(b[k], p, r, Len(r))
      BY <2>1, <2>4 DEF WrittenAs, Filled, TopSuggestions
    <3>2. k \in 1 .. 8 /\ 2 \in Nat /\ r = FirstSeen(2, all)
      OBVIOUS
    <3> HIDE DEF r
    <3> QED
      BY <2>1, <3>1, <3>2, SectionInOrder
  <2>5. ASSUME ~input.skipped
        PROVE  SaidInOrder(Section(5), Items(Section(5)), Len(Said))
    <3> DEFINE r == FirstSeen(Len(all), all)
    <3>1. \E p : Listed(b[5], p, r, Len(r))
      BY <2>1, <2>5 DEF WrittenAs, Filled, MergedSuggestions
    <3>2. 5 \in 1 .. 8 /\ r = FirstSeen(Len(all), all)
      OBVIOUS
    <3> HIDE DEF r
    <3>3. SaidInOrder(Section(5), Items(Section(5)), Len(all))
      BY <2>1, <2>2, <3>1, <3>2, SectionInOrder
    <3> QED
      BY <2>2, <3>3
  <2> QED
    BY <2>3, <2>4, <2>5
<1> QED
  BY <1>1, Invariant, PTL
=============================================================================
