--------------------------- MODULE PhasePipeline ---------------------------
(***************************************************************************)
(* run_phase1 and run_phase2: the gate check (Phase 2 only), the two       *)
(* validation loops, the concurrent calls of asyncio.gather with           *)
(* return_exceptions=True, and the loop that turns the first failure, in   *)
(* the order of _REQUIRED_AGENTS, into the error of the pipeline.  The     *)
(* calls end in any order; each ends with a value, with the agent layer's  *)
(* own error, with another exception, or with a CancelledError.            *)
(* The Anthropic client the agents share belongs to the caller: the        *)
(* "async with" of _run_pipeline closes it once the pipeline has returned  *)
(* or raised.                                                              *)
(***************************************************************************)
EXTENDS Naturals

CONSTANTS Phase,   \* 1 or 2
          N        \* length of _REQUIRED_AGENTS

ASSUME PhaseAssumption == Phase \in {1, 2} /\ N \in Nat

\* An agent is its position in _REQUIRED_AGENTS.
Agents == 1 .. N

\* No agent: the ``None`` of an error that nobody in particular caused.
Nobody == 0

Values == {"ok"}

\* "agentError" is AgentEvaluationError (Phase 1) or AgentGenerationError.
Failures == {"agentError", "timeout", "unexpected", "cancelled"}

Outcomes == Values \cup Failures

\* What a pipeline returns (a result, or None) or raises; only two errors name
\* an agent.
Verdicts ==
    [kind : {"none", "skipped", "result", "missing", "timeout", "unexpected",
             "cancelled"}, agent : {Nobody}]
    \cup [kind : {"notCallable", "agentError"}, agent : Agents]

VARIABLES
    pc,           \* "validate", "gather", "collect" or "over"
    registered,   \* the names that are keys of ``agents``
    callable,     \* those whose evaluate / generate is callable
    gateOpen,     \* Phase 2: passed_gate and not below the threshold
    call,         \* per agent: "idle", "running" or how its call ended
    verdict,      \* what the pipeline returned or raised
    client        \* the shared Anthropic client: "open" or "closed"

vars == <<pc, registered, callable, gateOpen, call, verdict, client>>

NoVerdict == [kind |-> "none", agent |-> Nobody]

Init ==
    /\ pc = "validate"
    /\ registered \in SUBSET Agents
    /\ callable \in SUBSET registered
    /\ gateOpen \in IF Phase = 2 THEN BOOLEAN ELSE {TRUE}
    /\ call = [a \in Agents |-> "idle"]
    /\ verdict = NoVerdict
    /\ client = "open"

Finish(v) ==
    /\ verdict' = v
    /\ pc' = "over"
    /\ UNCHANGED <<registered, callable, gateOpen, call, client>>

First(S) == CHOOSE a \in S : \A b \in S : a <= b

\* run_phase2 only: None, without dispatching any agent.
SkipGate ==
    /\ pc = "validate"
    /\ ~gateOpen
    /\ Finish([kind |-> "skipped", agent |-> Nobody])

MissingAgent ==
    /\ pc = "validate" /\ gateOpen
    /\ registered # Agents
    /\ Finish([kind |-> "missing", agent |-> Nobody])

NotCallable ==
    /\ pc = "validate" /\ gateOpen
    /\ registered = Agents
    /\ callable # Agents
    /\ Finish([kind |-> "notCallable", agent |-> First(Agents \ callable)])

Dispatch_OnlyCallable ==
    /\ pc = "validate" /\ gateOpen
    /\ call' = [a \in Agents |-> IF a \in callable THEN "running" ELSE "idle"]
    /\ pc' = "gather"
    /\ UNCHANGED <<registered, callable, gateOpen, verdict, client>>

Dispatch_UnknownGate ==
    /\ pc = "validate"
    /\ callable = Agents
    /\ call' = [a \in Agents |-> "running"]
    /\ pc' = "gather"
    /\ UNCHANGED <<registered, callable, gateOpen, verdict, client>>

\* gather schedules every coroutine.
Dispatch ==
    /\ pc = "validate" /\ gateOpen
    /\ callable = Agents
    /\ call' = [a \in Agents |-> "running"]
    /\ pc' = "gather"
    /\ UNCHANGED <<registered, callable, gateOpen, verdict, client>>

\* One call ends.  return_exceptions=True: the others go on.
Settle(a, outcome) ==
    /\ pc = "gather"
    /\ call[a] = "running"
    /\ call' = [call EXCEPT ![a] = outcome]
    /\ UNCHANGED <<pc, registered, callable, gateOpen, verdict, client>>

Gathered_FirstFailure ==
    /\ pc = "gather"
    /\ \/ \A a \in Agents : call[a] \in Outcomes
       \/ \E a \in Agents : call[a] \in Failures
    /\ pc' = "collect"
    /\ UNCHANGED <<registered, callable, gateOpen, call, verdict, client>>

Gathered_ValuesOnly ==
    /\ pc = "gather"
    /\ \A a \in Agents : call[a] \in Values
    /\ pc' = "collect"
    /\ UNCHANGED <<registered, callable, gateOpen, call, verdict, client>>

\* The await of gather is over when every call is.
Gathered ==
    /\ pc = "gather"
    /\ \A a \in Agents : call[a] \in Outcomes
    /\ pc' = "collect"
    /\ UNCHANGED <<registered, callable, gateOpen, call, verdict, client>>

Failed == { a \in Agents : call[a] \in Failures }

Wrap_NamesEveryone(a) == [kind |-> call[a], agent |-> a]

\* _raise_wrapped.  Only the agent layer's own error names its agent, and only
\* Phase 1 tells a timeout from other exceptions.
Wrap(a) ==
    IF call[a] = "agentError" THEN [kind |-> "agentError", agent |-> a]
    ELSE IF call[a] = "timeout" /\ Phase = 2
         THEN [kind |-> "unexpected", agent |-> Nobody]
    ELSE [kind |-> call[a], agent |-> Nobody]

Collect_LastFailure ==
    /\ pc = "collect"
    /\ IF Failed = {}
       THEN Finish([kind |-> "result", agent |-> Nobody])
       ELSE Finish(Wrap(CHOOSE a \in Failed : \A b \in Failed : b <= a))

Collect_IgnoreUnexpected ==
    /\ pc = "collect"
    /\ IF { a \in Failed : call[a] # "unexpected" } = {}
       THEN Finish([kind |-> "result", agent |-> Nobody])
       ELSE Finish(Wrap(First({ a \in Failed : call[a] # "unexpected" })))

\* The loop over the results: the first failure decides.
Collect ==
    /\ pc = "collect"
    /\ IF Failed = {}
       THEN Finish([kind |-> "result", agent |-> Nobody])
       ELSE Finish(Wrap(First(Failed)))

\* __aexit__ of the Anthropic client, on every path.
CloseClient ==
    /\ pc = "over"
    /\ client = "open"
    /\ client' = "closed"
    /\ UNCHANGED <<pc, registered, callable, gateOpen, call, verdict>>

Next ==
    \/ SkipGate \/ MissingAgent \/ NotCallable \/ Dispatch
    \/ \E a \in Agents, outcome \in Outcomes : Settle(a, outcome)
    \/ Gathered \/ Collect \/ CloseClient

Spec == Init /\ [][Next]_vars

\* The event loop runs every ready coroutine, and each Anthropic call ends
\* (the SDK has a request timeout of its own).
Fairness ==
    /\ WF_vars(SkipGate \/ MissingAgent \/ NotCallable \/ Dispatch)
    /\ \A a \in Agents : WF_vars(\E outcome \in Outcomes : Settle(a, outcome))
    /\ WF_vars(Gathered) /\ WF_vars(Collect) /\ WF_vars(CloseClient)

FairSpec == Spec /\ Fairness

----------------------------------------------------------------------------
TypeOK ==
    /\ pc \in {"validate", "gather", "collect", "over"}
    /\ registered \in SUBSET Agents
    /\ callable \in SUBSET registered
    /\ gateOpen \in BOOLEAN
    /\ call \in [Agents -> {"idle", "running"} \cup Outcomes]
    /\ verdict \in Verdicts
    /\ client \in {"open", "closed"}

\* No call of an agent is still running once the pipeline has returned or
\* raised: one agent's failure waits for the others, so that the caller never
\* closes the Anthropic client under a request.
NoCallOutlivesPhase ==
    pc = "over" => \A a \in Agents : call[a] # "running"

\* A pipeline that cannot finish costs no API call: either every agent is
\* called, with the gate open and every registration valid, or none is.
AllCalledOrNone ==
    (\E a \in Agents : call[a] # "idle") =>
        /\ gateOpen
        /\ callable = Agents
        /\ \A a \in Agents : call[a] # "idle"

\* Phase1Result and Phase2Result are built from N values and nothing else.
ResultIsComplete ==
    verdict.kind = "result" => \A a \in Agents : call[a] \in Values

\* "we need every result (or exception) to tag the right agent_name": an agent
\* named by the error failed itself, and no agent before it in
\* _REQUIRED_AGENTS did, whichever order the failures happened in.
BlameIsDeserved ==
    verdict.agent # Nobody =>
        IF verdict.kind = "notCallable"
        THEN /\ verdict.agent \notin callable
             /\ \A a \in Agents : a < verdict.agent => a \in callable
        ELSE /\ call[verdict.agent] = "agentError"
             /\ \A a \in Agents : a < verdict.agent => call[a] \in Values

\* phase1.py, phase2.py: "we pass any non-Exception BaseException through
\* unwrapped so shutdown / cancellation signals propagate".
CancellationPropagates ==
    pc = "over" /\ (\E a \in Agents : call[a] = "cancelled")
        => verdict.kind = "cancelled"

\* Every pipeline returns or raises, and its client is closed on every path.
ClientClosedAtLast == <>(client = "closed")
=============================================================================
