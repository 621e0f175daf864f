----------------------------- MODULE AgentPhase -----------------------------
(***************************************************************************)
(* The pipelines with the agents _run_pipeline gives them: PhasePipeline   *)
(* lets a call end in any way, here it ends in the ways AgentCall says,    *)
(* each agent with a reply of its own.                                     *)
(***************************************************************************)
EXTENDS PhasePipeline, AgentCall

VARIABLE reply   \* history: the reply each agent got, or "none"

agentVars == <<pc, registered, callable, gateOpen, call, verdict, client, reply>>

\* QualityAgent.evaluate and its like; ArchitectureAgent.generate and its like.
Outcome(r) == IF Phase = 1 THEN CallAndParse(r) ELSE CallAndGenerate(r)

AgentInit == Init /\ reply = [a \in Agents |-> "none"]

Receive_RetriesErrors(a, r) ==
    \/ /\ r # "apiError"
       /\ Settle(a, Outcome(r))
       /\ reply' = [reply EXCEPT ![a] = r]
    \/ /\ r = "apiError"   \* sends the request again, any number of times
       /\ pc = "gather" /\ call[a] = "running"
       /\ reply' = [reply EXCEPT ![a] = IF @ = "none" THEN r ELSE "none"]
       /\ UNCHANGED vars

\* The answer to the one request of agent a, and all call_and_parse does with it.
Receive(a, r) ==
    /\ Settle(a, Outcome(r))
    /\ reply' = [reply EXCEPT ![a] = r]

PipelineStep ==
    \/ SkipGate \/ MissingAgent \/ NotCallable \/ Dispatch
    \/ Gathered \/ Collect \/ CloseClient

AgentNext ==
    \/ \E a \in Agents, r \in Replies : Receive(a, r)
    \/ PipelineStep /\ UNCHANGED reply

AgentSpec == AgentInit /\ [][AgentNext]_agentVars

\* As in PhasePipeline: every request ends, the event loop runs on.
AgentFairSpec ==
    /\ AgentSpec
    /\ \A a \in Agents : WF_agentVars(\E r \in Replies : Receive(a, r))
    /\ WF_agentVars(PipelineStep /\ UNCHANGED reply)

----------------------------------------------------------------------------
AgentTypeOK == TypeOK /\ reply \in [Agents -> Replies \cup {"none"}]

\* A result of Phase 1 is made of in-range scores and nothing else, and one of
\* Phase 2 of texts: whatever the model answered, no half-parsed reply gets
\* past call_and_parse or call_and_generate.
ResultFromGoodReplies ==
    verdict.kind = "result" =>
        \A a \in Agents :
            IF Phase = 1 THEN reply[a] = "valid"
            ELSE reply[a] \notin NoResponse \cup NoText \cup {"notString"}

\* An error that names an agent names one whose own reply was at fault, and
\* only a failure outside the errors call_and_parse translates stays anonymous.
\* There are such failures, although its docstring promises "a single exception
\* type".
AnonymousErrorIsUnforeseen ==
    /\ verdict.kind = "agentError" => reply[verdict.agent] \notin {"valid", "cancelled"}
    /\ verdict.kind = "unexpected" =>
          Phase = 1 /\ \E a \in Agents :
              reply[a] \in (NotLoaded \ {"notJson"}) \cup {"scoreTooBig"}
    /\ verdict.kind # "timeout"

\* With these agents the pipelines behave as PhasePipeline allows, fairness
\* included.
ImplementsPipeline == FairSpec
=============================================================================
