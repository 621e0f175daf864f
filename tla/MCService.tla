----------------------------- MODULE MCService -----------------------------
(***************************************************************************)
(* Service with two deliveries, one after the other, in one container.     *)
(***************************************************************************)
EXTENDS Service

Signed(issue) ==
    [ base64 |-> FALSE, chars |-> 2, convertible |-> TRUE, bytes |-> 2,
      header |-> "x-hub-signature-256", signature |-> "match",
      content |-> "payload", issue |-> issue ]

\* A story, and a request that is not authentic.
TwoEvents == { Signed("ST-1"), [Signed("ST-1") EXCEPT !.signature = "mismatch"] }

\* With the threshold 7000, for 7.0: three scores of 6.994, rounded to 6.99 and
\* below it, and three of 6.996, rounded to exactly 7.0.
TwoEvaluations ==
    { [quality |-> 6994, ambiguity |-> 6994, complexity |-> 6994],
      [quality |-> 6996, ambiguity |-> 6996, complexity |-> 6996] }
=============================================================================
