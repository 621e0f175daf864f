------------------------------ MODULE Scoring ------------------------------
(***************************************************************************)
(* core/scoring.py: the composite score of a story and the quality gate.   *)
(* A score and the threshold are floats with any number of decimals; here  *)
(* they are integer numbers of a unit, and Fine units make a hundredth.    *)
(* The weighted sum is then an exact number of hundredths of that unit,    *)
(* and Python's round(x, 2) is "the nearest number of hundredths".  At an  *)
(* exact tie the float sum lies on one side or the other depending on its  *)
(* representation error, so a tie has two possible composites.             *)
(***************************************************************************)
EXTENDS Integers

CONSTANT Fine

ASSUME PrecisionAssumption == Fine \in Nat \ {0}

\* From 0 to 10, and the numbers among them that have two decimals.
Score == 0 .. 1000 * Fine

Hundredths == {Fine * k : k \in 0 .. 1000}

\* What the three agents of Phase 1 say of one story.
Evaluation == [quality : Score, ambiguity : Score, complexity : Score]

WeightQuality    == 40
WeightAmbiguity  == 35
WeightComplexity == 25

WeightedSum_Heavier(e) ==
    50 * e.quality + WeightAmbiguity * e.ambiguity + WeightComplexity * e.complexity

WeightedSum_SignFlipped(e) ==
    WeightQuality * e.quality + WeightAmbiguity * (1000 * Fine - e.ambiguity)
        + WeightComplexity * e.complexity

WeightedSum(e) ==
    WeightQuality * e.quality + WeightAmbiguity * e.ambiguity
        + WeightComplexity * e.complexity

\* compute_composite: the values round(sum, 2) may take.
Composites(e) ==
    { c \in Hundredths : /\ 100 * c - 50 * Fine <= WeightedSum(e)
                         /\ WeightedSum(e) <= 100 * c + 50 * Fine }

EvaluateGate_Dropped(composite, threshold) == TRUE

EvaluateGate(composite, threshold) == composite >= threshold

\* A Phase1Result without its texts: the composite and the stored verdict.
Phase1Result == [composite : Hundredths, passed : BOOLEAN]

BuildPhase1Result(e, threshold) ==
    { [composite |-> c, passed |-> EvaluateGate(c, threshold)] : c \in Composites(e) }

----------------------------------------------------------------------------
AtLeast(e, t) == e.quality >= t /\ e.ambiguity >= t /\ e.complexity >= t

AtMost(e, t) == e.quality <= t /\ e.ambiguity <= t /\ e.complexity <= t

\* e2 is no worse than e1 on every scale.
NoWorse(e1, e2) ==
    /\ e1.quality <= e2.quality
    /\ e1.ambiguity <= e2.ambiguity
    /\ e1.complexity <= e2.complexity
=============================================================================
