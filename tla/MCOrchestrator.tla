--------------------------- MODULE MCOrchestrator ---------------------------
(***************************************************************************)
(* Orchestrator on small instances.  Small* name the values the            *)
(* configurations give to its constants.                                   *)
(***************************************************************************)
EXTENDS Orchestrator, TLC

Signed(issue) ==
    [ base64 |-> FALSE, chars |-> 2, convertible |-> TRUE, bytes |-> 2,
      header |-> "x-hub-signature-256", signature |-> "match",
      content |-> "payload", issue |-> issue ]

\* A story, the same for an issue key that is no story id, and three requests
\* that are turned away: one not authentic, one not a payload, one too long
\* once its characters are encoded.
SmallEvents ==
    { Signed("ST-1"), Signed("epic"),
      [Signed("ST-1") EXCEPT !.signature = "mismatch"],
      [Signed("ST-1") EXCEPT !.content = "badSchema"],
      [Signed("ST-1") EXCEPT !.bytes = 5] }

\* One story, for the runs that are about the pipeline.
OneEvent == { Signed("ST-1") }

\* With the threshold 7000, for 7.0: three scores of 6.994, rounded to 6.99 and
\* below it, and three of 6.996, rounded to exactly 7.0.
SmallEvaluations ==
    { [quality |-> 6994, ambiguity |-> 6994, complexity |-> 6994],
      [quality |-> 6996, ambiguity |-> 6996, complexity |-> 6996] }

InvSymmetry == Permutations(Inv)
=============================================================================
