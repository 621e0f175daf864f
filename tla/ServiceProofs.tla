--------------------------- MODULE ServiceProofs ---------------------------
(***************************************************************************)
(* The composition of the handler with its two agent pipelines, for any    *)
(* number of deliveries, any events, any scores and any fate of the calls. *)
(* First it implements Orchestrator, step by step; so whatever is proved   *)
(* of Orchestrator holds of it.  Then the properties of the resources,     *)
(* from an inductive invariant that says where each pipeline is at each    *)
(* stage of the delivery being served.  Last, how many steps a delivery    *)
(* can take at most.                                                       *)
(***************************************************************************)
EXTENDS Service, OrchestratorProofs, WellFoundedInduction

----------------------------------------------------------------------------
(* The refinement                                                          *)

LEMMA InitImplements == ServiceInit => Init
  BY DEF ServiceInit

\* Each step of the container is a step of Orchestrator, or changes nothing of
\* what Orchestrator speaks of.
LEMMA NextImplements == [ServiceNext]_serviceVars => [Next]_vars
<1> SUFFICES ASSUME [ServiceNext]_serviceVars PROVE [Next]_vars
  OBVIOUS
<1>1. CASE Boot \/ Retire
  BY <1>1 DEF Boot, Retire
<1>2. CASE Elsewhere
  BY <1>2 DEF Elsewhere, Next
<1>3. ASSUME NEW i \in Inv, TurnAway(i) PROVE Arrive(i)
  BY <1>3 DEF TurnAway, Arrive
<1>4. ASSUME NEW i \in Inv, Begin(i) PROVE Arrive(i)
  BY <1>4 DEF Begin, Arrive
<1>5. ASSUME NEW i \in Inv, Phase1Step(i) \/ Phase2Step(i) PROVE UNCHANGED vars
  BY <1>5 DEF Phase1Step, Phase2Step
<1>6. ASSUME NEW i \in Inv, Scored(i) \/ Generated(i) \/ PhaseRaises(i) \/ Deliver(i)
      PROVE  Step(i)
  BY <1>6 DEF Scored, Generated, PhaseRaises, Deliver, Step
<1>7. ASSUME NEW i \in Inv, Die(i) PROVE Kill(i)
  BY <1>7 DEF Die
<1>8. CASE UNCHANGED serviceVars
  BY <1>8 DEF serviceVars, vars
<1> QED
  BY <1>1, <1>2, <1>3, <1>4, <1>5, <1>6, <1>7, <1>8 DEF ServiceNext, Progress, Next

\* _run_pipeline with the pipelines inside is one way of doing what
\* Orchestrator says, where each phase is one step.
THEOREM Implements == ServiceSpec => ImplementsOrchestrator
  BY InitImplements, NextImplements, PTL DEF ServiceSpec, Spec, ImplementsOrchestrator

\* So a container keeps the promises of SpecDelivery: where Jira does not
\* redirect, what a delivery is answered is what has arrived for it, whatever
\* the seven agents, the clients and the end of the container do.
THEOREM ContainersDeliver == ASSUME NoRedirects PROVE ServiceSpec => Delivers
  BY Implements, DeliversAsPromised, PTL DEF ImplementsOrchestrator

----------------------------------------------------------------------------
(* The inductive invariant                                                 *)

\* Where one pipeline is: its stage, its calls and what it has said.
PipelineInv(stage, call, verdict, agents, none) ==
    /\ stage = "validate" => \A a \in agents : call[a] = "idle"
    /\ stage \in {"gather", "collect"} => \A a \in agents : call[a] # "idle"
    /\ stage \in {"collect", "over"} => \A a \in agents : call[a] # "running"
    /\ stage # "over" => verdict = none
    /\ verdict.kind = "result" => \A a \in agents : call[a] = "ok"

\* Where the pipelines are at each stage of the delivery.
ServedInv ==
    serving # None =>
        /\ serving \in Inv
        /\ anthropic = "open"
        /\ pc[serving] \notin {"idle", "done"}
        /\ pc[serving] \in {"phase1", "feedback"} => stage2 = "validate"
        /\ pc[serving] # "phase1" => stage1 = "over" /\ verdict1.kind = "result"
        /\ pc[serving] \in PastWriter => stage2 = "over" /\ verdict2.kind = "result"

PipelinesInv ==
    /\ PipelineInv(stage1, calls1, verdict1, Agents1, P1!NoVerdict)
    /\ PipelineInv(stage2, calls2, verdict2, Agents2, P2!NoVerdict)

SInv == ServiceTypeOK /\ PipelinesInv /\ ServedInv /\ NothingLeaks

LEMMA InitSInv == ServiceInit => SInv
<1> SUFFICES ASSUME ServiceInit PROVE SInv
  OBVIOUS
<1> USE DEF ServiceInit, NoCalls, Agents1, Agents2, P1!NoVerdict, P2!NoVerdict,
            P1!Nobody, P2!Nobody
<1>1. ServiceTypeOK
  BY InitTypeOK DEF ServiceTypeOK, P1!Verdicts, P2!Verdicts
<1>2. PipelinesInv
  BY DEF PipelinesInv, PipelineInv
<1>3. ServedInv /\ NothingLeaks
  BY DEF ServedInv, NothingLeaks, Running
<1> QED
  BY <1>1, <1>2, <1>3 DEF SInv

----------------------------------------------------------------------------
(* The steps of the pipelines                                              *)

\* The first of some agents is one of them.
LEMMA FirstAgent ==
  ASSUME NEW S \in SUBSET Nat, S # {}
  PROVE  P1!First(S) \in S /\ P2!First(S) \in S
<1>1. \E x \in S : \A y \in S : ~(<<y, x>> \in OpToRel(<, Nat))
  BY NatLessThanWellFounded, WFMin
<1>2. \A x, y \in Nat : ~(<<y, x>> \in OpToRel(<, Nat)) => x <= y
  BY DEF OpToRel
<1>3. \E x \in S : \A y \in S : x <= y
  BY <1>1, <1>2
<1> QED
  BY <1>3 DEF P1!First, P2!First

Pipeline1OK ==
    /\ stage1 \in {"validate", "gather", "collect", "over"}
    /\ calls1 \in [Agents1 -> {"idle", "running"} \cup P1!Outcomes]
    /\ verdict1 \in P1!Verdicts
    /\ PipelineInv(stage1, calls1, verdict1, Agents1, P1!NoVerdict)

Pipeline2OK ==
    /\ stage2 \in {"validate", "gather", "collect", "over"}
    /\ calls2 \in [Agents2 -> {"idle", "running"} \cup P2!Outcomes]
    /\ verdict2 \in P2!Verdicts
    /\ PipelineInv(stage2, calls2, verdict2, Agents2, P2!NoVerdict)

LEMMA Pipeline1Step ==
  ASSUME Pipeline1OK,
         \/ P1!Dispatch \/ P1!Gathered \/ P1!Collect
         \/ \E a \in Agents1, outcome \in Ends : P1!Settle(a, outcome)
  PROVE  Pipeline1OK'
<1> USE DEF Pipeline1OK, PipelineInv, P1!NoVerdict
<1>0. Agents1 = P1!Agents /\ Agents1 \subseteq Nat
  BY DEF Agents1, P1!Agents
<1>1. CASE P1!Dispatch
  BY <1>0, <1>1 DEF P1!Dispatch
<1>2. ASSUME NEW a \in Agents1, NEW outcome \in Ends, P1!Settle(a, outcome)
      PROVE  Pipeline1OK'
  BY <1>2, ServiceAssumption DEF P1!Settle, P1!Outcomes, P1!Values, P1!Failures
<1>3. CASE P1!Gathered
  BY <1>0, <1>3 DEF P1!Gathered, P1!Outcomes, P1!Values, P1!Failures
<1>4. CASE P1!Collect
  <2>1. \A a \in Agents1 : calls1[a] \in P1!Outcomes
    BY <1>4 DEF P1!Collect
  <2>2. stage1' = "over" /\ calls1' = calls1
    BY <1>4 DEF P1!Collect, P1!Finish
  <2>3. CASE P1!Failed = {}
    <3>1. \A a \in Agents1 : calls1[a] = "ok"
      BY <1>0, <2>1, <2>3 DEF P1!Failed, P1!Outcomes, P1!Values
    <3>2. verdict1' = [kind |-> "result", agent |-> P1!Nobody]
      BY <1>4, <2>3 DEF P1!Collect, P1!Finish
    <3> QED
      BY <2>2, <3>1, <3>2 DEF P1!Verdicts
  <2>4. CASE P1!Failed # {}
    <3> DEFINE f == P1!First(P1!Failed)
    <3>1. f \in Agents1 /\ calls1[f] \in P1!Failures
      BY <1>0, <2>4, FirstAgent DEF P1!Failed
    <3>2. verdict1' = P1!Wrap(f)
      BY <1>4, <2>4 DEF P1!Collect, P1!Finish
    <3> HIDE DEF f
    <3>3. verdict1' \in P1!Verdicts /\ verdict1'.kind # "result"
      BY <1>0, <3>1, <3>2 DEF P1!Wrap, P1!Verdicts, P1!Failures, P1!Nobody
    <3> QED
      BY <2>1, <2>2, <3>3 DEF P1!Outcomes, P1!Values, P1!Failures
  <2> QED
    BY <2>3, <2>4
<1> QED
  BY <1>1, <1>2, <1>3, <1>4

LEMMA Pipeline2Step ==
  ASSUME Pipeline2OK,
         \/ P2!Dispatch \/ P2!Gathered \/ P2!Collect
         \/ \E a \in Agents2, outcome \in Ends : P2!Settle(a, outcome)
  PROVE  Pipeline2OK'
<1> USE DEF Pipeline2OK, PipelineInv, P2!NoVerdict
<1>0. Agents2 = P2!Agents /\ Agents2 \subseteq Nat
  BY DEF Agents2, P2!Agents
<1>1. CASE P2!Dispatch
  BY <1>0, <1>1 DEF P2!Dispatch
<1>2. ASSUME NEW a \in Agents2, NEW outcome \in Ends, P2!Settle(a, outcome)
      PROVE  Pipeline2OK'
  BY <1>2, ServiceAssumption DEF P2!Settle, P2!Outcomes, P2!Values, P2!Failures
<1>3. CASE P2!Gathered
  BY <1>0, <1>3 DEF P2!Gathered, P2!Outcomes, P2!Values, P2!Failures
<1>4. CASE P2!Collect
  <2>1. \A a \in Agents2 : calls2[a] \in P2!Outcomes
    BY <1>4 DEF P2!Collect
  <2>2. stage2' = "over" /\ calls2' = calls2
    BY <1>4 DEF P2!Collect, P2!Finish
  <2>3. CASE P2!Failed = {}
    <3>1. \A a \in Agents2 : calls2[a] = "ok"
      BY <1>0, <2>1, <2>3 DEF P2!Failed, P2!Outcomes, P2!Values
    <3>2. verdict2' = [kind |-> "result", agent |-> P2!Nobody]
      BY <1>4, <2>3 DEF P2!Collect, P2!Finish
    <3> QED
      BY <2>2, <3>1, <3>2 DEF P2!Verdicts
  <2>4. CASE P2!Failed # {}
    <3> DEFINE f == P2!First(P2!Failed)
    <3>1. f \in Agents2 /\ calls2[f] \in P2!Failures
      BY <1>0, <2>4, FirstAgent DEF P2!Failed
    <3>2. verdict2' = P2!Wrap(f)
      BY <1>4, <2>4 DEF P2!Collect, P2!Finish
    <3> HIDE DEF f
    <3>3. verdict2' \in P2!Verdicts /\ verdict2'.kind # "result"
      BY <1>0, <3>1, <3>2 DEF P2!Wrap, P2!Verdicts, P2!Failures, P2!Nobody
    <3> QED
      BY <2>1, <2>2, <3>3 DEF P2!Outcomes, P2!Values, P2!Failures
  <2> QED
    BY <2>3, <2>4
<1> QED
  BY <1>1, <1>2, <1>3, <1>4

----------------------------------------------------------------------------
(* The steps of the container                                              *)

\* SInv in the parts that the steps change one at a time.
ResourcesOK ==
    /\ container \in {"cold", "ready", "refusing", "crashed"}
    /\ serving \in Inv \cup {None}
    /\ anthropic \in {"open", "closed"} /\ http \in {"open", "closed"}

LEMMA Parts ==
  SInv <=> TypeOK /\ ResourcesOK /\ Pipeline1OK /\ Pipeline2OK /\ ServedInv /\ NothingLeaks
  BY DEF SInv, ServiceTypeOK, PipelinesInv, ResourcesOK, Pipeline1OK, Pipeline2OK

LEMMA PartsPrimed ==
  TypeOK' /\ ResourcesOK' /\ Pipeline1OK' /\ Pipeline2OK' /\ ServedInv' /\ NothingLeaks'
     => SInv'
  BY DEF SInv, ServiceTypeOK, PipelinesInv, ResourcesOK, Pipeline1OK, Pipeline2OK

\* A pipeline that has spoken is over.
LEMMA Spoken ==
  ASSUME SInv
  PROVE  /\ verdict1.kind # "none" => stage1 = "over"
         /\ verdict2.kind # "none" => stage2 = "over"
  BY DEF SInv, PipelinesInv, PipelineInv, P1!NoVerdict, P2!NoVerdict

\* No call is running while the delivery is at any stage but the phases' own.
LEMMA NobodyRuns ==
  ASSUME SInv, stage1 \in {"validate", "over"}, stage2 \in {"validate", "over"}
  PROVE  ~Running
  BY DEF SInv, PipelinesInv, PipelineInv, Running

LEMMA FreshIsOK ==
  ASSUME FreshPipelines
  PROVE  /\ Pipeline1OK' /\ Pipeline2OK' /\ ~Running'
         /\ stage1' = "validate" /\ stage2' = "validate"
<1> USE DEF FreshPipelines, NoCalls, Agents1, Agents2
<1>1. Pipeline1OK'
  BY DEF Pipeline1OK, PipelineInv, P1!NoVerdict, P1!Verdicts
<1>2. Pipeline2OK'
  BY DEF Pipeline2OK, PipelineInv, P2!NoVerdict, P2!Verdicts
<1> QED
  BY <1>1, <1>2 DEF Running

\* Nothing of the pipelines changes, and _run_pipeline is left.
LEMMA LeaveStep ==
  ASSUME SInv, TypeOK', NEW i \in Inv, Leave(i), ~Running
  PROVE  SInv'
<1>1. /\ serving' = None /\ anthropic' = "closed" /\ http' = "closed"
      /\ UNCHANGED <<container, stage1, calls1, verdict1, stage2, calls2, verdict2>>
  BY DEF Leave, phase1Vars, phase2Vars
<1>2. ResourcesOK' /\ ServedInv' /\ NothingLeaks'
  BY <1>1, Parts DEF ResourcesOK, ServedInv, NothingLeaks, Running
<1>3. Pipeline1OK' /\ Pipeline2OK'
  BY <1>1, Parts DEF Pipeline1OK, Pipeline2OK
<1> QED
  BY <1>2, <1>3, PartsPrimed

\* A step of Orchestrator that leaves the container's own variables alone.
LEMMA OwnStep ==
  ASSUME SInv, TypeOK', UNCHANGED ownVars, ServedInv'
  PROVE  SInv'
<1>1. UNCHANGED <<container, serving, anthropic, http, stage1, calls1, verdict1,
                  stage2, calls2, verdict2>>
  BY DEF ownVars
<1>2. ResourcesOK' /\ NothingLeaks'
  BY <1>1, Parts DEF ResourcesOK, NothingLeaks, Running
<1>3. Pipeline1OK' /\ Pipeline2OK'
  BY <1>1, Parts DEF Pipeline1OK, Pipeline2OK
<1> QED
  BY <1>2, <1>3, PartsPrimed

LEMMA BetweenDeliveries ==
  ASSUME SInv, TypeOK', Boot \/ Retire \/ Elsewhere \/ \E i \in Inv : TurnAway(i)
  PROVE  SInv'
<1>1. CASE Boot \/ Retire
  <2>1. /\ container' \in {"cold", "ready", "refusing", "crashed"}
        /\ UNCHANGED <<pc, serving, anthropic, http, stage1, calls1, verdict1,
                       stage2, calls2, verdict2>>
    BY <1>1 DEF Boot, Retire, vars, clients, phase1Vars, phase2Vars
  <2>2. ResourcesOK' /\ NothingLeaks' /\ ServedInv'
    BY <2>1, Parts DEF ResourcesOK, NothingLeaks, Running, ServedInv
  <2>3. Pipeline1OK' /\ Pipeline2OK'
    BY <2>1, Parts DEF Pipeline1OK, Pipeline2OK
  <2> QED
    BY <2>2, <2>3, PartsPrimed
<1>2. CASE Elsewhere
  <2>1. pc' = pc /\ UNCHANGED ownVars
    BY <1>2 DEF Elsewhere, NextDay, Land
  <2>2. ServedInv'
    BY <2>1, Parts DEF ServedInv, ownVars
  <2> QED
    BY <2>1, <2>2, OwnStep
<1>3. ASSUME NEW i \in Inv, TurnAway(i) PROVE SInv'
  <2>1. serving = None /\ UNCHANGED ownVars
    BY <1>3 DEF TurnAway
  <2>2. ServedInv'
    BY <2>1 DEF ServedInv, ownVars
  <2> QED
    BY <2>1, <2>2, OwnStep
<1> QED
  BY <1>1, <1>2, <1>3

LEMMA BeginStep == ASSUME SInv, TypeOK', NEW i \in Inv, Begin(i) PROVE SInv'
<1>1. /\ container = "ready" /\ container' = container
      /\ serving' = i /\ anthropic' = "open" /\ http' = http
      /\ FreshPipelines
  BY DEF Begin
<1>2. pc'[i] = "phase1"
  BY Parts DEF Begin, Accept, Goto, TypeOK
<1>3. ResourcesOK' /\ NothingLeaks'
  BY <1>1, Parts, ServiceAssumption DEF ResourcesOK, NothingLeaks
<1>4. ServedInv'
  BY <1>1, <1>2, FreshIsOK DEF ServedInv, PastWriter, PastGate
<1> QED
  BY <1>1, <1>3, <1>4, FreshIsOK, PartsPrimed

LEMMA DieStep == ASSUME SInv, TypeOK', NEW i \in Inv, Die(i) PROVE SInv'
<1>1. /\ container' = "cold" /\ serving' = None
      /\ anthropic' = "closed" /\ http' = "closed" /\ FreshPipelines
  BY DEF Die
<1>2. ResourcesOK' /\ NothingLeaks' /\ ServedInv'
  BY <1>1, FreshIsOK DEF ResourcesOK, NothingLeaks, ServedInv
<1> QED
  BY <1>1, <1>2, FreshIsOK, PartsPrimed

\* While a phase runs, the delivery stays where it is.
LEMMA PhaseStep ==
  ASSUME SInv, TypeOK', NEW i \in Inv, Phase1Step(i) \/ Phase2Step(i)
  PROVE  SInv'
<1>1. /\ serving = i /\ i # None /\ UNCHANGED <<pc, container, serving, anthropic, http>>
  BY ServiceAssumption DEF Phase1Step, Phase2Step, vars, clients
<1>2. ResourcesOK' /\ NothingLeaks'
  BY <1>1, Parts DEF ResourcesOK, NothingLeaks
<1>3. CASE Phase1Step(i)
  <2>1. pc[i] = "phase1" /\ UNCHANGED <<stage2, calls2, verdict2>>
    BY <1>3 DEF Phase1Step, phase2Vars
  <2>2. Pipeline1OK'
    BY <1>3, Parts, Pipeline1Step DEF Phase1Step
  <2>3. Pipeline2OK'
    BY <2>1, Parts DEF Pipeline2OK
  <2>4. ServedInv'
    BY <1>1, <2>1, Parts DEF ServedInv, PastWriter, PastGate
  <2> QED
    BY <1>2, <2>2, <2>3, <2>4, PartsPrimed
<1>4. CASE Phase2Step(i)
  <2>1. pc[i] = "phase2" /\ UNCHANGED <<stage1, calls1, verdict1>>
    BY <1>4 DEF Phase2Step, phase1Vars
  <2>2. Pipeline2OK'
    BY <1>4, Parts, Pipeline2Step DEF Phase2Step
  <2>3. Pipeline1OK'
    BY <2>1, Parts DEF Pipeline1OK
  <2>4. ServedInv'
    BY <1>1, <2>1, Parts DEF ServedInv, PastWriter, PastGate
  <2> QED
    BY <1>2, <2>2, <2>3, <2>4, PartsPrimed
<1> QED
  BY <1>3, <1>4

LEMMA ScoredStep == ASSUME SInv, TypeOK', NEW i \in Inv, Scored(i) PROVE SInv'
<1>1. /\ serving = i /\ i # None /\ verdict1.kind = "result" /\ stage1 = "over"
      /\ http' = "open"
      /\ UNCHANGED <<container, serving, anthropic, stage1, calls1, verdict1,
                     stage2, calls2, verdict2>>
  BY Spoken, ServiceAssumption DEF Scored, phase1Vars, phase2Vars
<1>2. pc[i] = "phase1" /\ pc'[i] \in {"phase2", "feedback"}
  BY Parts DEF Scored, Evaluate, Goto, TypeOK
<1>3. ResourcesOK' /\ NothingLeaks'
  BY <1>1, Parts DEF ResourcesOK, NothingLeaks
<1>4. Pipeline1OK' /\ Pipeline2OK'
  BY <1>1, Parts DEF Pipeline1OK, Pipeline2OK
<1>5. ServedInv'
  BY <1>1, <1>2, Parts DEF ServedInv, PastWriter, PastGate
<1> QED
  BY <1>3, <1>4, <1>5, PartsPrimed

LEMMA GeneratedStep == ASSUME SInv, TypeOK', NEW i \in Inv, Generated(i) PROVE SInv'
<1>1. /\ serving = i /\ i # None /\ verdict2.kind = "result" /\ stage2 = "over"
      /\ UNCHANGED ownVars
  BY Spoken, ServiceAssumption DEF Generated
<1>2. pc[i] = "phase2" /\ pc'[i] = "upload"
  BY Parts DEF Generated, Generate, Goto, TypeOK
<1>3. ServedInv'
  BY <1>1, <1>2, Parts DEF ServedInv, ownVars
<1> QED
  BY <1>1, <1>3, OwnStep

LEMMA PhaseRaisesStep ==
  ASSUME SInv, TypeOK', NEW i \in Inv, PhaseRaises(i)
  PROVE  SInv'
<1>1. /\ serving = i /\ i # None /\ Leave(i) /\ Raised(i) # "none"
      /\ Raised(i) # "result" /\ pc[i] \in {"phase1", "phase2"}
  BY ServiceAssumption DEF PhaseRaises, PhaseFails, PhaseCancelled
<1>2. stage1 = "over" /\ stage2 \in {"validate", "over"}
  BY <1>1, Spoken, Parts DEF Raised, ServedInv
<1> QED
  BY <1>1, <1>2, NobodyRuns, LeaveStep

\* Where the calls to S3 and Jira lead.
LEMMA DeliverMoves ==
  ASSUME TypeOK, NEW i \in Inv, Upload(i) \/ Feedback(i) \/ Link(i) \/ Attach(i)
  PROVE  /\ pc[i] \in PastWriter \cup {"feedback"}
         /\ pc'[i] \in PastWriter \cup {"done"}
<1> USE DEF TypeOK, PastWriter, PastGate, Goto, Return
<1>1. CASE RejectStoryId(i) \/ BuildKey(i) \/ PutStored(i) \/ PutFatal(i) \/ Presign(i)
           \/ PresignFails(i)
  BY <1>1 DEF RejectStoryId, BuildKey, PutStored, PutFatal, Presign, PresignFails
<1>2. CASE PutTransient(i)
  BY <1>2 DEF PutTransient, RetryOrGiveUp
<1>3. CASE Feedback(i) \/ Link(i) \/ Attach(i)
  BY <1>3 DEF Feedback, Link, Attach
<1> QED
  BY <1>1, <1>2, <1>3 DEF Upload

LEMMA AtDelivery ==
  ASSUME SInv, NEW i \in Inv, serving = i, pc[i] \in PastWriter \cup {"feedback"}
  PROVE  /\ stage1 = "over" /\ verdict1.kind = "result"
         /\ IF pc[i] = "feedback" THEN stage2 = "validate"
            ELSE stage2 = "over" /\ verdict2.kind = "result"
  BY ServiceAssumption, Parts DEF ServedInv, PastWriter, PastGate

LEMMA DeliverStep == ASSUME SInv, TypeOK', NEW i \in Inv, Deliver(i) PROVE SInv'
<1>1. /\ serving = i /\ pc[i] \in PastWriter \cup {"feedback"}
      /\ pc'[i] \in PastWriter \cup {"done"}
  BY DeliverMoves, Parts DEF Deliver
<1>2. CASE pc'[i] = "done"
  <2>1. Leave(i)
    BY <1>2 DEF Deliver
  <2> QED
    BY <1>1, <2>1, AtDelivery, NobodyRuns, LeaveStep
<1>3. CASE pc'[i] # "done"
  <2>1. UNCHANGED ownVars
    BY <1>3 DEF Deliver
  <2>2. pc[i] # "feedback"
    BY <1>3, Parts DEF Deliver, Upload, Feedback, Link, Attach, RejectStoryId, BuildKey,
       PutStored, PutTransient, PutFatal, Presign, PresignFails, Return, TypeOK
  <2>3. ServedInv'
    BY <1>1, <1>3, <2>1, <2>2, Parts, AtDelivery DEF ServedInv, ownVars, PastWriter, PastGate
  <2> QED
    BY <2>1, <2>3, OwnStep
<1> QED
  BY <1>2, <1>3

LEMMA NextSInv == SInv /\ [ServiceNext]_serviceVars => SInv'
<1> SUFFICES ASSUME SInv, [ServiceNext]_serviceVars PROVE SInv'
  OBVIOUS
<1>1. TypeOK'
  BY Parts, NextImplements, NextTypeOK
<1>2. CASE UNCHANGED serviceVars
  <2>1. UNCHANGED ownVars /\ pc' = pc
    BY <1>2 DEF serviceVars, ownVars
  <2>2. ServedInv'
    BY <2>1, Parts DEF ServedInv, ownVars
  <2> QED
    BY <1>1, <2>1, <2>2, OwnStep
<1> QED
  BY <1>1, <1>2, BetweenDeliveries, BeginStep, DieStep, PhaseStep, ScoredStep,
     GeneratedStep, PhaseRaisesStep, DeliverStep DEF ServiceNext, Progress

----------------------------------------------------------------------------
(* The theorems                                                            *)

\* The inductive invariant holds in every reachable state.
THEOREM ServiceInvariance == ServiceSpec => []SInv
  BY InitSInv, NextSInv, PTL DEF ServiceSpec

\* Type correctness of the whole composition.
THEOREM ServiceTypes == ServiceSpec => []ServiceTypeOK
<1>1. SInv => ServiceTypeOK
  BY DEF SInv
<1> QED
  BY <1>1, ServiceInvariance, PTL

\* A container between two deliveries holds nothing of the one before,
\* whichever way that one ended (handler.py, the "async with" statements).
THEOREM NothingIsLeaked == ServiceSpec => []NothingLeaks
<1>1. SInv => NothingLeaks
  BY DEF SInv
<1> QED
  BY <1>1, ServiceInvariance, PTL

\* The Anthropic client outlives every call made through it.
THEOREM ClientOutlivesCalls == ServiceSpec => []NoCallOnClosedClient
<1>1. SInv => NoCallOnClosedClient
  BY DEF SInv, NothingLeaks, ServedInv, NoCallOnClosedClient
<1> QED
  BY <1>1, ServiceInvariance, PTL

LEMMA NewRequest ==
  ASSUME NEW i \in Inv, NEW fate, Send(i, fate), NEW r \in Requests' \ Requests
  PROVE  r.op = OpAt[pc[i]]
<1> DEFINE new == [op |-> OpAt[pc[i]], by |-> i, key |-> key[i], n |-> calls[i]]
<1>1. Requests' \subseteq Requests \cup {new}
  BY DEF Send, Requests
<1> QED
  BY <1>1

\* What the delivery being served asks for at one of its calls.
LEMMA RequestHasWord ==
  ASSUME SInv, NEW i \in Inv, serving = i, NEW fate, pc[i] \in DOMAIN OpAt, Send(i, fate),
         NEW r \in Requests' \ Requests
  PROVE  /\ \A a \in Agents1 : calls1[a] = "ok"
         /\ \A a \in Agents2 : calls2[a] = IF r.op = "feedback" THEN "idle" ELSE "ok"
<1>1. r.op = OpAt[pc[i]] /\ pc[i] \in {"feedback", "put", "link", "attach"}
  BY NewRequest, OpAtIs
<1>2. pc[i] = "feedback" <=> r.op = "feedback"
  BY <1>1, OpAtIs
<1>3. /\ verdict1.kind = "result"
      /\ IF pc[i] = "feedback" THEN stage2 = "validate" ELSE verdict2.kind = "result"
  BY <1>1, AtDelivery DEF PastWriter, PastGate
<1> QED
  BY <1>2, <1>3 DEF SInv, PipelinesInv, PipelineInv

\* Every request is made on the word of all the agents it takes.
THEOREM AllAgentsSpoke == ServiceSpec => WordOfAllAgents
<1> DEFINE Word == \A r \in Requests' \ Requests :
                      /\ \A a \in Agents1 : calls1[a] = "ok"
                      /\ \A a \in Agents2 :
                            calls2[a] = IF r.op = "feedback" THEN "idle" ELSE "ok"
<1>1. SInv /\ [ServiceNext]_serviceVars => [Word]_serviceVars
  <2> SUFFICES ASSUME SInv, ServiceNext PROVE Word
    OBVIOUS
  <2>1. ASSUME Requests' \subseteq Requests PROVE Word
    BY <2>1
  <2>2. ASSUME NEW i \in Inv, serving = i, NEW fate, pc[i] \in DOMAIN OpAt, Send(i, fate)
        PROVE  Word
    BY <2>2, RequestHasWord
  <2> HIDE DEF Word
  <2>3. CASE Boot \/ Retire \/ \E i \in Inv : Phase1Step(i) \/ Phase2Step(i)
    BY <2>1, <2>3 DEF Boot, Retire, Phase1Step, Phase2Step, vars, Requests
  <2>4. CASE Elsewhere
    BY <2>1, <2>4 DEF Elsewhere, NextDay, Land, Requests
  <2>5. ASSUME NEW i \in Inv, TurnAway(i) \/ Begin(i) PROVE Word
    BY <2>1, <2>5 DEF TurnAway, Begin, Refuse, Reject, Accept, NoRequest, Requests
  <2>6. ASSUME NEW i \in Inv, Scored(i) \/ Generated(i) \/ PhaseRaises(i) PROVE Word
    BY <2>1, <2>6 DEF Scored, Generated, PhaseRaises, Evaluate, Generate, PhaseFails,
       PhaseCancelled, NoRequest, Requests
  <2>7. ASSUME NEW i \in Inv, Deliver(i) PROVE Word
    <3>1. CASE RejectStoryId(i) \/ BuildKey(i) \/ Presign(i) \/ PresignFails(i)
      BY <2>1, <3>1 DEF RejectStoryId, BuildKey, Presign, PresignFails, NoRequest, Requests
    <3>2. CASE PutStored(i) \/ PutTransient(i) \/ PutFatal(i)
      <4>1. pc[i] \in DOMAIN OpAt /\ \E fate : Send(i, fate)
        BY <3>2, OpAtIs DEF PutStored, PutTransient, PutFatal
      <4> QED
        BY <2>2, <2>7, <4>1 DEF Deliver
    <3>3. CASE Feedback(i) \/ Link(i) \/ Attach(i)
      <4>1. pc[i] \in DOMAIN OpAt /\ \E fate : Send(i, fate)
        BY <3>3, OpAtIs DEF Feedback, Link, Attach, JiraReturns, JiraRaises
      <4> QED
        BY <2>2, <2>7, <4>1 DEF Deliver
    <3> QED
      BY <2>7, <3>1, <3>2, <3>3 DEF Deliver, Upload
  <2>8. ASSUME NEW i \in Inv, Die(i) PROVE Word
    <3>1. CASE NoRequest
      BY <2>1, <3>1 DEF NoRequest, Requests
    <3>2. CASE pc[i] \in DOMAIN OpAt /\ Send(i, "lost")
      BY <2>2, <2>8, <3>2 DEF Die
    <3> QED
      BY <2>8, <3>1, <3>2 DEF Die, Kill
  <2> QED
    BY <2>3, <2>4, <2>5, <2>6, <2>7, <2>8 DEF ServiceNext, Progress
<1> QED
  BY <1>1, ServiceInvariance, PTL DEF ServiceSpec, WordOfAllAgents
----------------------------------------------------------------------------
(* No delivery keeps its container for ever                                *)

One(c) == IF c = "running" THEN 1 ELSE 0

\* How many steps each pipeline can still take.
Phase1Left ==
    CASE stage1 = "validate" -> 6
      [] stage1 = "gather" -> 2 + One(calls1[1]) + One(calls1[2]) + One(calls1[3])
      [] stage1 = "collect" -> 1
      [] stage1 = "over" -> 0

Phase2Left ==
    CASE stage2 = "validate" -> 7
      [] stage2 = "gather" ->
            2 + One(calls2[1]) + One(calls2[2]) + One(calls2[3]) + One(calls2[4])
      [] stage2 = "collect" -> 1
      [] stage2 = "over" -> 0

DeliveryLeft(i) == StepsLeft(i) + Phase1Left + Phase2Left

\* While a delivery is served, what changes anything of it or of its pipelines
\* brings it nearer to its answer, or ends it.
DeliveriesRunOut ==
    [][\A i \in Inv :
          serving = i =>
              \/ serving' = None
              \/ UNCHANGED <<LocalOf(i), phase1Vars, phase2Vars>>
              \/ DeliveryLeft(i)' < DeliveryLeft(i)]_serviceVars

LEMMA PhasesLeft ==
  ASSUME SInv
  PROVE  Phase1Left \in 0 .. 6 /\ Phase2Left \in 0 .. 7
<1>1. /\ stage1 \in {"validate", "gather", "collect", "over"}
      /\ stage2 \in {"validate", "gather", "collect", "over"}
  BY DEF SInv, ServiceTypeOK
<1>2. Phase1Left \in 0 .. 6
  BY <1>1 DEF Phase1Left, One
<1>3. Phase2Left \in 0 .. 7
  BY <1>1 DEF Phase2Left, One
<1> QED
  BY <1>2, <1>3

\* The pipelines are as Parts says after a step too, and what is left a number.
LEMMA PartsOfNext ==
  SInv' => TypeOK' /\ Pipeline1OK' /\ Pipeline2OK'
  BY DEF SInv, ServiceTypeOK, PipelinesInv, Pipeline1OK, Pipeline2OK

AllLeft ==
    /\ \A i \in Inv : StepsLeft(i) \in 0 .. MaxAttempts + 7
    /\ Phase1Left \in 0 .. 6
    /\ Phase2Left \in 0 .. 7

LEMMA AllAreLeft == SInv => AllLeft
<1>1. SInv => TypeOK
  BY DEF SInv, ServiceTypeOK
<1> QED
  BY <1>1, StepsLeftIsFinite, PhasesLeft DEF AllLeft

LEMMA AllAreLeftNext == SInv' => AllLeft'
  BY AllAreLeft, PTL

LEMMA StepsLeftOnceBegun ==
  ASSUME TypeOK, NEW i \in Inv, pc[i] # "idle"
  PROVE  StepsLeft(i) \in 0 .. MaxAttempts + 6
<1>1. pc[i] \in {"phase1", "phase2", "upload", "put", "presign", "link",
                 "attach", "feedback", "done"}
  BY DEF TypeOK, Stages
<1> QED
  BY <1>1, StepsLeftIs

LEMMA Phase1ComesNearer ==
  ASSUME Pipeline1OK, Pipeline1OK',
         \/ P1!Dispatch \/ P1!Gathered \/ P1!Collect
         \/ \E a \in Agents1, outcome \in Ends : P1!Settle(a, outcome)
  PROVE  Phase1Left' < Phase1Left
<1> USE DEF Pipeline1OK, Phase1Left
<1>1. CASE P1!Dispatch
  BY <1>1 DEF P1!Dispatch, One
<1>2. ASSUME NEW a \in Agents1, NEW outcome \in Ends, P1!Settle(a, outcome)
      PROVE  Phase1Left' < Phase1Left
  <2>1. outcome # "running"
    BY ServiceAssumption
  <2>2. a \in {1, 2, 3} /\ 1 \in Agents1 /\ 2 \in Agents1 /\ 3 \in Agents1
    BY DEF Agents1
  <2>3. /\ One(calls1[a]) = 1 /\ One(calls1'[a]) = 0
        /\ \A b \in {1, 2, 3} : b # a => calls1'[b] = calls1[b]
    BY <1>2, <2>1, <2>2 DEF P1!Settle, One
  <2>4. stage1 = "gather" /\ stage1' = "gather"
    BY <1>2 DEF P1!Settle
  <2>5. \A b \in {1, 2, 3} : One(calls1[b]) \in {0, 1} /\ One(calls1'[b]) \in {0, 1}
    BY DEF One
  <2> QED
    BY <2>2, <2>3, <2>4, <2>5
<1>3. CASE P1!Gathered
  BY <1>3 DEF P1!Gathered, One
<1>4. CASE P1!Collect
  BY <1>4 DEF P1!Collect, P1!Finish
<1> QED
  BY <1>1, <1>2, <1>3, <1>4

LEMMA Phase2ComesNearer ==
  ASSUME Pipeline2OK, Pipeline2OK',
         \/ P2!Dispatch \/ P2!Gathered \/ P2!Collect
         \/ \E a \in Agents2, outcome \in Ends : P2!Settle(a, outcome)
  PROVE  Phase2Left' < Phase2Left
<1> USE DEF Pipeline2OK, Phase2Left
<1>1. CASE P2!Dispatch
  BY <1>1 DEF P2!Dispatch, One
<1>2. ASSUME NEW a \in Agents2, NEW outcome \in Ends, P2!Settle(a, outcome)
      PROVE  Phase2Left' < Phase2Left
  <2>1. outcome # "running"
    BY ServiceAssumption
  <2>2. a \in {1, 2, 3, 4} /\ \A b \in {1, 2, 3, 4} : b \in Agents2
    BY DEF Agents2
  <2>3. /\ One(calls2[a]) = 1 /\ One(calls2'[a]) = 0
        /\ \A b \in {1, 2, 3, 4} : b # a => calls2'[b] = calls2[b]
    BY <1>2, <2>1, <2>2 DEF P2!Settle, One
  <2>4. stage2 = "gather" /\ stage2' = "gather"
    BY <1>2 DEF P2!Settle
  <2>5. \A b \in {1, 2, 3, 4} : One(calls2[b]) \in {0, 1} /\ One(calls2'[b]) \in {0, 1}
    BY DEF One
  <2> QED
    BY <2>2, <2>3, <2>4, <2>5
<1>3. CASE P2!Gathered
  BY <1>3 DEF P2!Gathered, One
<1>4. CASE P2!Collect
  BY <1>4 DEF P2!Collect, P2!Finish
<1> QED
  BY <1>1, <1>2, <1>3, <1>4

LEMMA ServedComesNearer ==
  ASSUME SInv, SInv', ServiceNext, NEW i \in Inv, serving = i
  PROVE  \/ serving' = None
         \/ UNCHANGED <<LocalOf(i), phase1Vars, phase2Vars>>
         \/ DeliveryLeft(i)' < DeliveryLeft(i)
<1>1. /\ StepsLeft(i) \in Int /\ StepsLeft(i)' \in Int
      /\ Phase1Left \in Int /\ Phase1Left' \in Int
      /\ Phase2Left \in Int /\ Phase2Left' \in Int
  BY AllAreLeft, AllAreLeftNext, OrchestratorAssumption DEF AllLeft
<1>2. i # None
  BY ServiceAssumption
<1>3. CASE Boot \/ Retire \/ Elsewhere
  BY <1>3 DEF Boot, Retire, Elsewhere, NextDay, Land, vars, ownVars, LocalOf,
     phase1Vars, phase2Vars
<1>4. CASE \E j \in Inv : TurnAway(j) \/ Begin(j)
  BY <1>2, <1>4 DEF TurnAway, Begin
<1>5. CASE \E j \in Inv : PhaseRaises(j) \/ Die(j)
  BY <1>5 DEF PhaseRaises, Leave, Die
<1>6. CASE Phase1Step(i)
  <2>1. UNCHANGED vars /\ UNCHANGED phase2Vars
    BY <1>6 DEF Phase1Step
  <2>2. StepsLeft(i)' = StepsLeft(i) /\ Phase2Left' = Phase2Left
    BY <2>1 DEF vars, phase2Vars, StepsLeft, PutsLeft, Phase2Left
  <2>3. Phase1Left' < Phase1Left
    BY <1>6, Parts, PartsOfNext, Phase1ComesNearer DEF Phase1Step
  <2> QED
    BY <1>1, <2>2, <2>3 DEF DeliveryLeft
<1>7. CASE Phase2Step(i)
  <2>1. UNCHANGED vars /\ UNCHANGED phase1Vars
    BY <1>7 DEF Phase2Step
  <2>2. StepsLeft(i)' = StepsLeft(i) /\ Phase1Left' = Phase1Left
    BY <2>1 DEF vars, phase1Vars, StepsLeft, PutsLeft, Phase1Left
  <2>3. Phase2Left' < Phase2Left
    BY <1>7, Parts, PartsOfNext, Phase2ComesNearer DEF Phase2Step
  <2> QED
    BY <1>1, <2>2, <2>3 DEF DeliveryLeft
<1>8. CASE Scored(i) \/ Generated(i) \/ Deliver(i)
  <2>1. CASE UNCHANGED phase1Vars /\ UNCHANGED phase2Vars
    <3>1. Step(i)
      BY <1>8 DEF Scored, Generated, Deliver, Step
    <3>2. StepsLeft(i)' < StepsLeft(i)
      BY <3>1, StepBringsNearer DEF SInv, ServiceTypeOK
    <3>3. Phase1Left' = Phase1Left /\ Phase2Left' = Phase2Left
      BY <2>1 DEF phase1Vars, phase2Vars, Phase1Left, Phase2Left
    <3> QED
      BY <1>1, <3>2, <3>3 DEF DeliveryLeft
  <2> QED
    BY <1>8, <2>1 DEF Scored, Generated, Deliver, Leave, ownVars, phase1Vars, phase2Vars
<1>9. ASSUME NEW j \in Inv, Progress(j) PROVE j = i
  BY <1>9 DEF Progress, Phase1Step, Phase2Step, Scored, Generated, PhaseRaises, Deliver
<1> QED
  BY <1>3, <1>4, <1>5, <1>6, <1>7, <1>8, <1>9 DEF ServiceNext, Progress

\* For any retry limit, a delivery with both its pipelines takes at most
\* MaxAttempts + 19 steps after it has begun: no stage of _run_pipeline or of a
\* phase is entered twice, no agent is called twice, and the puts are counted.
THEOREM EveryDeliveryRunsOut ==
  /\ ServiceSpec =>
        [](serving \in Inv => DeliveryLeft(serving) \in 0 .. MaxAttempts + 19)
  /\ ServiceSpec => DeliveriesRunOut
<1>1. SInv => (serving \in Inv => DeliveryLeft(serving) \in 0 .. MaxAttempts + 19)
  <2> SUFFICES ASSUME SInv, NEW i \in Inv, serving = i
               PROVE  DeliveryLeft(i) \in 0 .. MaxAttempts + 19
    OBVIOUS
  <2>1. TypeOK /\ pc[i] # "idle"
    BY ServiceAssumption DEF SInv, ServiceTypeOK, ServedInv
  <2>2. StepsLeft(i) \in 0 .. MaxAttempts + 6
    BY <2>1, StepsLeftOnceBegun
  <2>3. MaxAttempts \in Nat
    BY OrchestratorAssumption
  <2> QED
    BY <2>2, <2>3, PhasesLeft DEF DeliveryLeft
<1>2. SInv /\ SInv' /\ [ServiceNext]_serviceVars =>
        [\A i \in Inv :
            serving = i =>
                \/ serving' = None
                \/ UNCHANGED <<LocalOf(i), phase1Vars, phase2Vars>>
                \/ DeliveryLeft(i)' < DeliveryLeft(i)]_serviceVars
  BY ServedComesNearer
<1> QED
  BY ServiceInvariance, <1>1, <1>2, PTL DEF ServiceSpec, DeliveriesRunOut
=============================================================================
