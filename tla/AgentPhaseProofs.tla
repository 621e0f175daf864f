-------------------------- MODULE AgentPhaseProofs --------------------------
(***************************************************************************)
(* With the agents of the repository the pipelines implement               *)
(* PhasePipeline, for any number of agents, so that everything proved      *)
(* there holds here; and what a pipeline returns or raises is explained by *)
(* the replies its agents got.                                             *)
(***************************************************************************)
EXTENDS AgentPhase, PhasePipelineProofs

\* How call_and_parse and call_and_generate may end, and on which replies.
LEMMA OutcomeFacts ==
  ASSUME NEW r \in Replies
  PROVE  /\ Outcome(r) \in {"ok", "agentError", "unexpected", "cancelled"}
         /\ Outcome(r) = "ok" =>
               IF Phase = 1 THEN r = "valid"
               ELSE r \notin NoResponse \cup NoText \cup {"notString"}
         /\ Outcome(r) = "agentError" => r \notin {"valid", "cancelled"}
         /\ Outcome(r) = "unexpected" =>
               Phase = 1 /\ r \in (NotLoaded \ {"notJson"}) \cup {"scoreTooBig"}
<1> USE DEF Replies, NoResponse, NoText, NotLoaded, BadObject, Outcome,
            ExtractText, JsonLoads, BuildScore
<1>1. CASE Phase = 1
  BY <1>1 DEF CallAndParse
<1>2. CASE Phase # 1
  BY <1>2 DEF CallAndGenerate
<1> QED
  BY <1>1, <1>2

\* The steps of AgentPhase are steps of PhasePipeline.
LEMMA StepSimulation == [AgentNext]_agentVars => [Next]_vars
<1>1. ASSUME NEW a \in Agents, NEW r \in Replies, Receive(a, r)
      PROVE  Next
  <2>1. Outcome(r) \in Outcomes
    BY OutcomeFacts DEF Outcomes, Values, Failures
  <2>2. Settle(a, Outcome(r))
    BY <1>1 DEF Receive
  <2> QED
    BY <2>1, <2>2 DEF Next
<1>2. PipelineStep => Next
  BY DEF PipelineStep, Next
<1>3. UNCHANGED agentVars => UNCHANGED vars
  BY DEF agentVars, vars
<1> QED
  BY <1>1, <1>2, <1>3 DEF AgentNext

\* Every behaviour of the pipelines with the repository's agents is one that
\* PhasePipeline allows: what it says of any set of agents holds for these.
THEOREM AgentsImplementPipeline == AgentSpec => Spec
<1>1. AgentInit => Init
  BY DEF AgentInit
<1> QED
  BY <1>1, StepSimulation, PTL DEF AgentSpec, Spec

----------------------------------------------------------------------------
\* Each call has ended the way its reply says, and an error has an agent whose
\* call ended that way.
Explained ==
    /\ \A a \in Agents : call[a] \in Outcomes =>
          reply[a] \in Replies /\ call[a] = Outcome(reply[a])
    /\ verdict.kind = "agentError" =>
          verdict.agent \in Agents /\ call[verdict.agent] = "agentError"
    /\ verdict.kind \in {"unexpected", "timeout"} =>
          \E a \in Agents : call[a] \in {"unexpected", "timeout"}
    /\ verdict.kind = "timeout" => \E a \in Agents : call[a] = "timeout"

ReplyTypeOK == reply \in [Agents -> Replies \cup {"none"}]

LEMMA NextExplained ==
  IInv /\ ReplyTypeOK /\ Explained /\ [AgentNext]_agentVars => Explained'
<1> SUFFICES ASSUME IInv, ReplyTypeOK, Explained, [AgentNext]_agentVars
             PROVE  Explained'
  OBVIOUS
<1>1. ASSUME NEW a \in Agents, NEW r \in Replies, Receive(a, r)
      PROVE  Explained'
  <2>1. verdict' = NoVerdict
    BY <1>1 DEF Receive, Settle, IInv, CallsInv
  <2>2. /\ call' = [call EXCEPT ![a] = Outcome(r)]
        /\ reply' = [reply EXCEPT ![a] = r]
    BY <1>1 DEF Receive, Settle
  <2>3. \A b \in Agents : call'[b] \in Outcomes =>
            reply'[b] \in Replies /\ call'[b] = Outcome(reply'[b])
    BY <2>2 DEF Explained, ReplyTypeOK, IInv, TypeOK
  <2>4. \A b \in Agents : call'[b] \in Outcomes =>
            reply'[b] \in Replies /\ call'[b] = Outcome(reply[b])'
    BY <2>3 DEF Outcome, CallAndParse, CallAndGenerate, ExtractText, JsonLoads, BuildScore
  <2> QED
    BY <2>1, <2>4 DEF Explained, NoVerdict
<1>2. CASE (SkipGate \/ MissingAgent \/ NotCallable \/ Gathered \/ CloseClient) /\ UNCHANGED reply
  <2>1. UNCHANGED <<call, reply>>
    BY <1>2 DEF SkipGate, MissingAgent, NotCallable, Gathered, CloseClient, Finish
  <2>2. \/ UNCHANGED verdict
        \/ verdict'.kind \in {"skipped", "missing", "notCallable"}
    BY <1>2 DEF SkipGate, MissingAgent, NotCallable, Gathered, CloseClient, Finish
  <2> QED
    BY <2>1, <2>2 DEF Explained, Outcome, CallAndParse, CallAndGenerate, ExtractText,
                      JsonLoads, BuildScore
<1>3. CASE Dispatch /\ UNCHANGED reply
  <2>1. verdict' = NoVerdict /\ \A b \in Agents : call'[b] \notin Outcomes
    BY <1>3 DEF Dispatch, IInv, CallsInv, Outcomes, Values, Failures
  <2> QED
    BY <2>1 DEF Explained, NoVerdict
<1>4. CASE Collect /\ UNCHANGED reply
  <2>1. UNCHANGED <<call, reply>>
    BY <1>4 DEF Collect, Finish
  <2>2. CASE Failed = {}
    <3>1. verdict'.kind = "result"
      BY <1>4, <2>2 DEF Collect, Finish
    <3> QED
      BY <2>1, <3>1 DEF Explained, Outcome, CallAndParse, CallAndGenerate, ExtractText,
                        JsonLoads, BuildScore
  <2>3. CASE Failed # {}
    <3> DEFINE f == First(Failed)
    <3>1. f \in Agents /\ call[f] \in Failures
      BY <2>3, FirstIsFirst DEF Failed
    <3>2. verdict' = Wrap(f)
      BY <1>4, <2>3 DEF Collect, Finish
    <3> HIDE DEF f
    <3>3. /\ verdict'.kind = "agentError" => verdict'.agent = f /\ call[f] = "agentError"
          /\ verdict'.kind \in {"unexpected", "timeout"} => call[f] \in {"unexpected", "timeout"}
          /\ verdict'.kind = "timeout" => call[f] = "timeout"
      BY <3>1, <3>2 DEF Wrap, Failures
    <3> QED
      BY <2>1, <3>1, <3>3 DEF Explained, Outcome, CallAndParse, CallAndGenerate, ExtractText,
                              JsonLoads, BuildScore
  <2> QED
    BY <2>2, <2>3
<1>5. CASE UNCHANGED agentVars
  BY <1>5 DEF agentVars, Explained, Outcome, CallAndParse, CallAndGenerate, ExtractText,
              JsonLoads, BuildScore
<1> QED
  BY <1>1, <1>2, <1>3, <1>4, <1>5 DEF AgentNext, PipelineStep

LEMMA NextReplyTypeOK == ReplyTypeOK /\ [AgentNext]_agentVars => ReplyTypeOK'
  BY DEF ReplyTypeOK, AgentNext, agentVars, Receive

\* The replies explain the calls and the verdict in every reachable state.
THEOREM RepliesExplain == AgentSpec => [](IInv /\ ReplyTypeOK /\ Explained)
<1>1. AgentInit => ReplyTypeOK /\ Explained
  BY DEF AgentInit, Init, ReplyTypeOK, Explained, NoVerdict, Outcomes, Values, Failures
<1>2. AgentSpec => []IInv
  BY AgentsImplementPipeline, Invariance
<1>3. IInv /\ ReplyTypeOK /\ Explained /\ [AgentNext]_agentVars => ReplyTypeOK' /\ Explained'
  BY NextReplyTypeOK, NextExplained
<1> QED
  BY <1>1, <1>2, <1>3, PTL DEF AgentSpec

\* A result is only ever made of good replies: no half-parsed answer of the
\* model gets past call_and_parse or call_and_generate.
THEOREM ResultsAreGood == AgentSpec => []ResultFromGoodReplies
<1>1. IInv /\ ReplyTypeOK /\ Explained => ResultFromGoodReplies
  <2> SUFFICES ASSUME IInv, Explained, verdict.kind = "result", NEW a \in Agents
               PROVE  IF Phase = 1 THEN reply[a] = "valid"
                      ELSE reply[a] \notin NoResponse \cup NoText \cup {"notString"}
    BY DEF ResultFromGoodReplies
  <2>1. call[a] = "ok"
    BY DEF IInv, VerdictInv, ResultIsComplete, Values
  <2>2. reply[a] \in Replies /\ Outcome(reply[a]) = "ok"
    BY <2>1 DEF Explained, Outcomes, Values
  <2> QED
    BY <2>2, OutcomeFacts
<1> QED
  BY <1>1, RepliesExplain, PTL

\* Errors blame the agent whose reply was at fault, and stay anonymous only for
\* what the agent layer did not foresee; a timeout is never reported as one.
THEOREM BlameIsExplained == AgentSpec => []AnonymousErrorIsUnforeseen
<1>1. IInv /\ ReplyTypeOK /\ Explained => AnonymousErrorIsUnforeseen
  <2> SUFFICES ASSUME Explained PROVE AnonymousErrorIsUnforeseen
    OBVIOUS
  <2>1. \A a \in Agents : call[a] # "timeout"
    BY OutcomeFacts DEF Explained, Outcomes, Failures
  <2>2. verdict.kind = "agentError" => reply[verdict.agent] \notin {"valid", "cancelled"}
    <3> SUFFICES ASSUME verdict.kind = "agentError"
                 PROVE  reply[verdict.agent] \notin {"valid", "cancelled"}
      OBVIOUS
    <3>1. verdict.agent \in Agents /\ call[verdict.agent] = "agentError"
      BY DEF Explained
    <3>2. reply[verdict.agent] \in Replies /\ Outcome(reply[verdict.agent]) = "agentError"
      BY <3>1 DEF Explained, Outcomes, Failures
    <3> QED
      BY <3>2, OutcomeFacts
  <2>3. verdict.kind = "unexpected" =>
          Phase = 1 /\ \E a \in Agents :
              reply[a] \in (NotLoaded \ {"notJson"}) \cup {"scoreTooBig"}
    <3> SUFFICES ASSUME verdict.kind = "unexpected"
                 PROVE  Phase = 1 /\ \E a \in Agents :
                            reply[a] \in (NotLoaded \ {"notJson"}) \cup {"scoreTooBig"}
      OBVIOUS
    <3>1. PICK a \in Agents : call[a] = "unexpected"
      BY <2>1 DEF Explained
    <3>2. reply[a] \in Replies /\ Outcome(reply[a]) = "unexpected"
      BY <3>1 DEF Explained, Outcomes, Failures
    <3> QED
      BY <3>2, OutcomeFacts
  <2>4. verdict.kind # "timeout"
    BY <2>1 DEF Explained
  <2> QED
    BY <2>2, <2>3, <2>4 DEF AnonymousErrorIsUnforeseen
<1> QED
  BY <1>1, RepliesExplain, PTL
=============================================================================
