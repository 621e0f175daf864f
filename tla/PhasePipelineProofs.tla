------------------------ MODULE PhasePipelineProofs ------------------------
(***************************************************************************)
(* The safety properties of PhasePipeline, for any number of agents and    *)
(* for both phases.  They all follow from one inductive invariant, which   *)
(* says what has been called at each point of the pipeline and how the     *)
(* verdict relates to the calls.                                           *)
(***************************************************************************)
EXTENDS PhasePipeline, FiniteSetTheorems, WellFoundedInduction, TLAPS

\* The loops over _REQUIRED_AGENTS stop at a well-defined agent.
LEMMA FirstIsFirst ==
  ASSUME NEW S \in SUBSET Agents, S # {}
  PROVE  First(S) \in S /\ \A b \in S : First(S) <= b
<1>1. S \subseteq Nat
  BY PhaseAssumption DEF Agents
<1>2. \E x \in S : \A y \in S : ~(<<y, x>> \in OpToRel(<, Nat))
  BY <1>1, NatLessThanWellFounded, WFMin
<1>3. \A x, y \in Nat : ~(<<y, x>> \in OpToRel(<, Nat)) => x <= y
  BY DEF OpToRel
<1>4. \E x \in S : \A y \in S : x <= y
  BY <1>1, <1>2, <1>3
<1> QED
  BY <1>4 DEF First

\* What has been called, and what the verdict says, at each point.
NothingCalled == \A a \in Agents : call[a] = "idle"

EveryoneCalled == gateOpen /\ callable = Agents /\ \A a \in Agents : call[a] # "idle"

Settled == \A a \in Agents : call[a] \in Outcomes

CallsInv ==
    /\ pc = "validate" => NothingCalled
    /\ pc \in {"gather", "collect"} => EveryoneCalled
    /\ pc = "collect" => Settled
    /\ pc = "over" => NothingCalled \/ (EveryoneCalled /\ Settled)
    /\ pc # "over" => verdict = NoVerdict

VerdictInv == ResultIsComplete /\ BlameIsDeserved

IInv == TypeOK /\ CallsInv /\ VerdictInv

----------------------------------------------------------------------------
LEMMA InitIInv == Init => IInv
<1> SUFFICES ASSUME Init PROVE IInv
  OBVIOUS
<1>1. TypeOK
  BY DEF Init, TypeOK, NoVerdict, Verdicts, Nobody
<1>2. CallsInv
  BY DEF Init, CallsInv, NothingCalled
<1>3. VerdictInv
  BY DEF Init, VerdictInv, ResultIsComplete, BlameIsDeserved, NoVerdict
<1> QED
  BY <1>1, <1>2, <1>3 DEF IInv

\* Type correctness is inductive by itself.
LEMMA NextTypeOK == TypeOK /\ [Next]_vars => TypeOK'
<1> SUFFICES ASSUME TypeOK, [Next]_vars PROVE TypeOK'
  OBVIOUS
<1> USE DEF TypeOK
<1>1. CASE SkipGate
  BY <1>1 DEF SkipGate, Finish, Verdicts, Nobody
<1>2. CASE MissingAgent
  BY <1>2 DEF MissingAgent, Finish, Verdicts, Nobody
<1>3. CASE NotCallable
  <2>1. First(Agents \ callable) \in Agents
    BY <1>3, FirstIsFirst DEF NotCallable
  <2> QED
    BY <1>3, <2>1 DEF NotCallable, Finish, Verdicts, Nobody
<1>4. CASE Dispatch
  BY <1>4 DEF Dispatch
<1>5. ASSUME NEW a \in Agents, NEW outcome \in Outcomes, Settle(a, outcome)
      PROVE  TypeOK'
  BY <1>5 DEF Settle
<1>6. CASE Gathered
  BY <1>6 DEF Gathered
<1>7. CASE Collect
  <2>1. CASE Failed = {}
    BY <1>7, <2>1 DEF Collect, Finish, Verdicts, Nobody
  <2>2. CASE Failed # {}
    <3>1. First(Failed) \in Agents /\ call[First(Failed)] \in Failures
      BY <2>2, FirstIsFirst DEF Failed
    <3>2. Wrap(First(Failed)) \in Verdicts
      BY <3>1 DEF Wrap, Verdicts, Failures, Nobody
    <3> QED
      BY <1>7, <2>2, <3>2 DEF Collect, Finish
  <2> QED
    BY <2>1, <2>2
<1>8. CASE CloseClient
  BY <1>8 DEF CloseClient
<1>9. CASE UNCHANGED vars
  BY <1>9 DEF vars
<1> QED
  BY <1>1, <1>2, <1>3, <1>4, <1>5, <1>6, <1>7, <1>8, <1>9 DEF Next

LEMMA NextCallsInv == TypeOK /\ CallsInv /\ [Next]_vars => CallsInv'
<1> SUFFICES ASSUME TypeOK, CallsInv, [Next]_vars PROVE CallsInv'
  OBVIOUS
<1> USE DEF CallsInv, NothingCalled, EveryoneCalled, Settled
<1>1. CASE SkipGate \/ MissingAgent \/ NotCallable
  BY <1>1 DEF SkipGate, MissingAgent, NotCallable, Finish
<1>2. CASE Dispatch
  BY <1>2 DEF Dispatch
<1>3. ASSUME NEW a \in Agents, NEW outcome \in Outcomes, Settle(a, outcome)
      PROVE  CallsInv'
  BY <1>3 DEF Settle, TypeOK, Outcomes, Values, Failures
<1>4. CASE Gathered
  BY <1>4 DEF Gathered
<1>5. CASE Collect
  BY <1>5 DEF Collect, Finish
<1>6. CASE CloseClient
  BY <1>6 DEF CloseClient
<1>7. CASE UNCHANGED vars
  BY <1>7 DEF vars
<1> QED
  BY <1>1, <1>2, <1>3, <1>4, <1>5, <1>6, <1>7 DEF Next

\* The loop of Collect: below the first failure there are only values.
LEMMA BeforeFirstFailure ==
  ASSUME TypeOK, Settled, Failed # {}
  PROVE  \A a \in Agents : a < First(Failed) => call[a] \in Values
<1> SUFFICES ASSUME NEW a \in Agents, a < First(Failed), call[a] \notin Values
             PROVE  FALSE
  OBVIOUS
<1>1. a \in Failed
  BY DEF Settled, Outcomes, Failed
<1>2. First(Failed) \in Agents /\ First(Failed) <= a
  BY <1>1, FirstIsFirst DEF Failed
<1> QED
  BY <1>2, PhaseAssumption DEF Agents

LEMMA NextVerdictInv == IInv /\ [Next]_vars => VerdictInv'
<1> SUFFICES ASSUME IInv, [Next]_vars PROVE VerdictInv'
  OBVIOUS
<1> USE DEF IInv, VerdictInv, ResultIsComplete, BlameIsDeserved
<1>1. CASE SkipGate \/ MissingAgent
  BY <1>1 DEF SkipGate, MissingAgent, Finish
<1>2. CASE NotCallable
  <2> DEFINE f == First(Agents \ callable)
  <2>0. Agents \ callable \in SUBSET Agents /\ Agents \ callable # {}
    BY <1>2 DEF NotCallable, TypeOK
  <2>1. f \in Agents \ callable /\ \A b \in Agents \ callable : f <= b
    BY <2>0, FirstIsFirst
  <2>2. \A a \in Agents : a < f => a \in callable
    BY <2>1, PhaseAssumption DEF Agents
  <2>3. verdict' = [kind |-> "notCallable", agent |-> f] /\ callable' = callable
    BY <1>2 DEF NotCallable, Finish
  <2> HIDE DEF f
  <2> QED
    BY <2>1, <2>2, <2>3
<1>3. CASE Dispatch
  BY <1>3 DEF Dispatch, CallsInv, NoVerdict
<1>4. ASSUME NEW a \in Agents, NEW outcome \in Outcomes, Settle(a, outcome)
      PROVE  VerdictInv'
  BY <1>4 DEF Settle, CallsInv, NoVerdict
<1>5. CASE Gathered
  BY <1>5 DEF Gathered
<1>6. CASE Collect
  <2>1. Settled /\ call' = call /\ callable' = callable
    BY <1>6 DEF Collect, Finish, CallsInv
  <2>2. CASE Failed = {}
    <3>1. \A a \in Agents : call[a] \in Values
      BY <2>1, <2>2 DEF Settled, Outcomes, Failed
    <3> QED
      BY <1>6, <2>1, <2>2, <3>1 DEF Collect, Finish
  <2>3. CASE Failed # {}
    <3> DEFINE f == First(Failed)
    <3>1. f \in Agents /\ call[f] \in Failures
      BY <2>3, FirstIsFirst DEF Failed
    <3>2. \A a \in Agents : a < f => call[a] \in Values
      BY <2>1, <2>3, BeforeFirstFailure
    <3>3. verdict' = Wrap(f)
      BY <1>6, <2>3 DEF Collect, Finish
    <3> HIDE DEF f
    <3>4. /\ verdict'.kind \notin {"result", "notCallable"}
          /\ verdict'.agent # Nobody => verdict'.agent = f /\ call[f] = "agentError"
      BY <3>1, <3>3 DEF Wrap, Failures
    <3> QED
      BY <2>1, <3>1, <3>2, <3>4
  <2> QED
    BY <2>2, <2>3
<1>7. CASE CloseClient
  BY <1>7 DEF CloseClient
<1>8. CASE UNCHANGED vars
  BY <1>8 DEF vars
<1> QED
  BY <1>1, <1>2, <1>3, <1>4, <1>5, <1>6, <1>7, <1>8 DEF Next

----------------------------------------------------------------------------
\* The inductive invariant holds in every reachable state.
THEOREM Invariance == Spec => []IInv
<1>1. IInv /\ [Next]_vars => IInv'
  BY NextTypeOK, NextCallsInv, NextVerdictInv DEF IInv
<1> QED
  BY InitIInv, <1>1, PTL DEF Spec

\* Type correctness.
THEOREM TypeCorrect == Spec => []TypeOK
<1>1. IInv => TypeOK
  BY DEF IInv
<1> QED
  BY Invariance, <1>1, PTL

\* run_phase1 and run_phase2 never return or raise with a call still running,
\* so the caller never closes the client under one.
THEOREM NoCallOutlives == Spec => []NoCallOutlivesPhase
<1>1. IInv => NoCallOutlivesPhase
  BY DEF IInv, CallsInv, NothingCalled, Settled, NoCallOutlivesPhase, Outcomes,
         Values, Failures
<1> QED
  BY Invariance, <1>1, PTL

\* A missing or misconfigured agent, or a closed gate, costs no API call.
THEOREM CalledAllOrNone == Spec => []AllCalledOrNone
<1>1. IInv => AllCalledOrNone
  BY DEF IInv, TypeOK, CallsInv, NothingCalled, EveryoneCalled, AllCalledOrNone
<1> QED
  BY Invariance, <1>1, PTL

\* A result is never built from a failure.
THEOREM ResultsAreComplete == Spec => []ResultIsComplete
<1>1. IInv => ResultIsComplete
  BY DEF IInv, VerdictInv
<1> QED
  BY Invariance, <1>1, PTL

\* The agent an error names is the first in the order of _REQUIRED_AGENTS to
\* have failed.
THEOREM VerdictIsRight == Spec => []BlameIsDeserved
<1>1. IInv => BlameIsDeserved
  BY DEF IInv, VerdictInv
<1> QED
  BY Invariance, <1>1, PTL

----------------------------------------------------------------------------
(* No pipeline goes on for ever: what liveness needs of the steps          *)

Running == {a \in Agents : call[a] = "running"}

\* How many more steps a pipeline and its caller can take.
StepsLeft ==
    CASE pc = "validate" -> N + 4
      [] pc = "gather" -> Cardinality(Running) + 3
      [] pc = "collect" -> 2
      [] pc = "over" -> IF client = "open" THEN 1 ELSE 0

\* Whatever happens, a call that ends however it does included, brings the
\* pipeline nearer to its end: nothing is called twice and nobody is waited for
\* again.
StepsRunOut == [][StepsLeft' < StepsLeft]_vars

LEMMA AgentsAreFinite ==
  ASSUME NEW S \in SUBSET Agents
  PROVE  IsFiniteSet(S) /\ Cardinality(S) \in Nat /\ Cardinality(S) <= N /\ N \in Nat
<1>1. N \in Nat /\ 1 \in Int /\ N \in Int
  BY PhaseAssumption
<1>2. IsFiniteSet(1 .. N) /\ Cardinality(1 .. N) = IF 1 > N THEN 0 ELSE N - 1 + 1
  BY <1>1, FS_Interval
<1>3. IsFiniteSet(S) /\ Cardinality(S) <= Cardinality(1 .. N)
  BY <1>2, FS_Subset DEF Agents
<1>4. Cardinality(1 .. N) = N
  BY <1>1, <1>2
<1> QED
  BY <1>1, <1>3, <1>4, FS_CardinalityType

LEMMA RunningIsFinite ==
  /\ IsFiniteSet(Running) /\ Cardinality(Running) \in Nat
  /\ Cardinality(Running) <= N /\ N \in Nat
<1>1. Running \in SUBSET Agents
  BY DEF Running
<1> QED
  BY <1>1, AgentsAreFinite

LEMMA StepsLeftIs ==
  /\ pc = "validate" => StepsLeft = N + 4
  /\ pc = "gather" => StepsLeft = Cardinality(Running) + 3
  /\ pc = "collect" => StepsLeft = 2
  /\ pc = "over" => StepsLeft = IF client = "open" THEN 1 ELSE 0
  BY DEF StepsLeft

\* For any number of agents a pipeline and its caller take at most N + 4 steps,
\* in whichever order and however the calls end.
THEOREM EveryStepBringsNearer ==
  /\ Spec => [](StepsLeft \in 0 .. N + 4)
  /\ Spec => StepsRunOut
<1>1. TypeOK => StepsLeft \in 0 .. N + 4
  <2> SUFFICES ASSUME TypeOK PROVE StepsLeft \in 0 .. N + 4
    OBVIOUS
  <2>1. pc \in {"validate", "gather", "collect", "over"}
    BY DEF TypeOK
  <2> QED
    BY <2>1, StepsLeftIs, RunningIsFinite
<1>2. TypeOK /\ TypeOK' /\ [Next]_vars => [StepsLeft' < StepsLeft]_vars
  <2> SUFFICES ASSUME TypeOK, TypeOK', Next PROVE StepsLeft' < StepsLeft
    OBVIOUS
  <2>1. /\ pc' = "gather" => StepsLeft' = Cardinality(Running') + 3
        /\ pc' = "collect" => StepsLeft' = 2
        /\ pc' = "over" => StepsLeft' = IF client' = "open" THEN 1 ELSE 0
    BY DEF StepsLeft
  <2>2. Cardinality(Running') \in Nat /\ Cardinality(Running') <= N
    <3>1. Running' \in SUBSET Agents
      BY DEF Running
    <3> QED
      BY <3>1, AgentsAreFinite
  <2>3. CASE SkipGate \/ MissingAgent \/ NotCallable
    <3>1. pc = "validate" /\ pc' = "over"
      BY <2>3 DEF SkipGate, MissingAgent, NotCallable, Finish
    <3> QED
      BY <2>1, <3>1, StepsLeftIs, RunningIsFinite
  <2>4. CASE Dispatch
    <3>1. pc = "validate" /\ pc' = "gather"
      BY <2>4 DEF Dispatch
    <3> QED
      BY <2>1, <2>2, <3>1, StepsLeftIs, RunningIsFinite
  <2>5. ASSUME NEW a \in Agents, NEW outcome \in Outcomes, Settle(a, outcome)
        PROVE  StepsLeft' < StepsLeft
    <3>1. pc = "gather" /\ pc' = "gather" /\ a \in Running
      BY <2>5 DEF Settle, Running
    <3>2. Running' = Running \ {a}
      BY <2>5 DEF Settle, Running, TypeOK, Outcomes, Values, Failures
    <3>3. Cardinality(Running') = Cardinality(Running) - 1
      BY <3>1, <3>2, RunningIsFinite, FS_RemoveElement
    <3> QED
      BY <2>1, <3>1, <3>3, StepsLeftIs, RunningIsFinite
  <2>6. CASE Gathered
    <3>1. pc = "gather" /\ pc' = "collect"
      BY <2>6 DEF Gathered
    <3> QED
      BY <2>1, <3>1, StepsLeftIs, RunningIsFinite
  <2>7. CASE Collect
    <3>1. pc = "collect" /\ pc' = "over"
      BY <2>7 DEF Collect, Finish
    <3> QED
      BY <2>1, <3>1, StepsLeftIs
  <2>8. CASE CloseClient
    <3>1. pc = "over" /\ pc' = "over" /\ client = "open" /\ client' = "closed"
      BY <2>8 DEF CloseClient
    <3> QED
      BY <2>1, <3>1, StepsLeftIs
  <2> QED
    BY <2>3, <2>4, <2>5, <2>6, <2>7, <2>8 DEF Next
<1> QED
  BY TypeCorrect, <1>1, <1>2, PTL DEF Spec, StepsRunOut
=============================================================================
