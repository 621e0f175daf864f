---------------------------- MODULE SpecDelivery ----------------------------
(***************************************************************************)
(* What the orchestrator promises the author of a story, with no word of   *)
(* how: for every webhook delivery the author ends up with one of two      *)
(* things, feedback or a spec.  A spec arrives in order (the object, then  *)
(* a comment linking to it, then the attachment) and may stop half-way;    *)
(* a delivery that was turned away leaves no trace; an answer, once given, *)
(* is final, and a success is only answered when everything has arrived.   *)
(* What arrives late, after an answer that reported a failure, arrives in  *)
(* the same order.                                                         *)
(***************************************************************************)
CONSTANTS Inv,     \* deliveries of a webhook, one invocation each
          None     \* no answer yet

Artefacts == {"feedback", "spec", "link", "attachment"}

Answers == {"gate_failed", "spec_generated", "bad_request", "unauthorized",
            "server_error", "raised", "timed_out"}

VARIABLES artefacts,   \* what has arrived, per delivery
          answer       \* the answer of the orchestrator, per delivery

vars == <<artefacts, answer>>

Init == /\ artefacts = [i \in Inv |-> {}]
        /\ answer = [i \in Inv |-> None]

\* What may arrive next.
Next_(has) ==
    IF has = {} THEN {"feedback", "spec"}
    ELSE IF has = {"spec"} THEN {"link"}
    ELSE IF has = {"spec", "link"} THEN {"attachment"}
    ELSE {}

\* The answers that describe what has arrived.
Truthful(has) ==
    {"server_error", "timed_out"}
    \cup (IF has = {} THEN {"bad_request", "unauthorized", "raised"} ELSE {})
    \cup (IF has = {"feedback"} THEN {"gate_failed"} ELSE {})
    \cup (IF has = {"spec", "link", "attachment"} THEN {"spec_generated"} ELSE {})

Give(i) ==
    /\ answer[i] \notin {"bad_request", "unauthorized", "raised"}
    /\ \E a \in Next_(artefacts[i]) :
          artefacts' = [artefacts EXCEPT ![i] = @ \cup {a}]

\* The last artefact and the answer may come in one step.
Answer(i) ==
    /\ answer[i] = None
    /\ UNCHANGED artefacts \/ Give(i)
    /\ \E v \in Truthful(artefacts'[i]) : answer' = [answer EXCEPT ![i] = v]

Next == \E i \in Inv : (Give(i) /\ UNCHANGED answer) \/ Answer(i)

Spec == Init /\ [][Next]_vars
=============================================================================
