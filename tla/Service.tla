------------------------------- MODULE Service -------------------------------
(***************************************************************************)
(* One Lambda container and the deliveries it serves one after another:    *)
(* Orchestrator with the two agent pipelines of PhasePipeline in the place *)
(* of its two one-step phases, and with the resources of _run_pipeline,    *)
(* the Anthropic client the seven agents share and the httpx client of the *)
(* Jira service, which "async with" opens and closes for each delivery.    *)
(* The container is warm between deliveries; a timeout ends it, and its    *)
(* initialisation (ColdStart) leaves it ready, refusing or crashed.        *)
(***************************************************************************)
EXTENDS Orchestrator

CONSTANT Ends   \* the ways an agent's call may end

ASSUME ServiceAssumption ==
    /\ Ends \subseteq {"ok", "agentError", "timeout", "unexpected", "cancelled"}
    /\ None \notin Inv

\* _REQUIRED_AGENTS of the two phases.  The dictionaries _run_pipeline makes
\* have them all, each with its method: the validation loops find nothing.
Agents1 == 1 .. 3
Agents2 == 1 .. 4

VARIABLES
    container,                   \* "cold", "ready", "refusing" or "crashed"
    serving,                     \* the delivery it is at, or None
    anthropic, http,             \* its clients, each "open" or "closed"
    stage1, calls1, verdict1,    \* run_phase1 of that delivery
    stage2, calls2, verdict2     \* run_phase2

clients      == <<anthropic, http>>
phase1Vars   == <<stage1, calls1, verdict1>>
phase2Vars   == <<stage2, calls2, verdict2>>
ownVars      == <<container, serving, anthropic, http, stage1, calls1, verdict1,
                  stage2, calls2, verdict2>>
serviceVars  == <<pc, event, phase1, document, key, attempt, calls, response,
                  applied, inflight, today,
                  container, serving, anthropic, http, stage1, calls1, verdict1,
                  stage2, calls2, verdict2>>

\* run_phase1 has no gate: open for whoever is served.
P1 == INSTANCE PhasePipeline WITH
          Phase <- 1, N <- 3, pc <- stage1, registered <- 1 .. 3,
          callable <- 1 .. 3, gateOpen <- serving # None, call <- calls1,
          verdict <- verdict1, client <- anthropic

P2 == INSTANCE PhasePipeline WITH
          Phase <- 2, N <- 4, pc <- stage2, registered <- 1 .. 4,
          callable <- 1 .. 4, gateOpen <- serving # None /\ GateOpen(serving),
          call <- calls2, verdict <- verdict2, client <- anthropic

NoCalls(agents) == [a \in agents |-> "idle"]

ServiceInit ==
    /\ Init
    /\ container = "cold"
    /\ serving = None
    /\ anthropic = "closed" /\ http = "closed"
    /\ stage1 = "validate" /\ calls1 = NoCalls(Agents1) /\ verdict1 = P1!NoVerdict
    /\ stage2 = "validate" /\ calls2 = NoCalls(Agents2) /\ verdict2 = P2!NoVerdict

FreshPipelines ==
    /\ stage1' = "validate" /\ calls1' = NoCalls(Agents1) /\ verdict1' = P1!NoVerdict
    /\ stage2' = "validate" /\ calls2' = NoCalls(Agents2) /\ verdict2' = P2!NoVerdict

----------------------------------------------------------------------------
(* The container                                                           *)

\* The module initialisation; ColdStart says with which result.  A container is
\* "crashed" when the import of handler.py raised.
Boot ==
    /\ container = "cold"
    /\ container' \in {"ready", "refusing", "crashed"}
    /\ UNCHANGED <<vars, serving, clients, phase1Vars, phase2Vars>>

\* Lambda retires a container only between deliveries.
Retire ==
    /\ container # "cold" /\ serving = None
    /\ container' = "cold"
    /\ UNCHANGED <<vars, serving, clients, phase1Vars, phase2Vars>>

TurnAway(i) ==
    /\ serving = None
    /\ \/ container = "refusing" /\ Refuse(i, "server_error")
       \/ container = "crashed" /\ Refuse(i, "raised")
       \/ container = "ready" /\ \E e \in Events : Reject(i, e)
    /\ UNCHANGED ownVars

\* The delivery begins: the Anthropic client, the agents, run_phase1.
Begin(i) ==
    /\ container = "ready" /\ serving = None
    /\ \E e \in Events : Accept(i, e)
    /\ serving' = i
    /\ anthropic' = "open"
    /\ FreshPipelines
    /\ UNCHANGED <<container, http>>

Leave_OnReturnOnly(i) ==
    /\ serving' = None
    /\ IF response'[i] \in {"gate_failed", "spec_generated"}
       THEN anthropic' = "closed" /\ http' = "closed"
       ELSE UNCHANGED clients
    /\ UNCHANGED <<container, phase1Vars, phase2Vars>>

\* _run_pipeline returns or raises: both clients are closed on the way out.
Leave(i) ==
    /\ serving' = None
    /\ anthropic' = "closed" /\ http' = "closed"
    /\ UNCHANGED <<container, phase1Vars, phase2Vars>>

\* A timeout takes the whole container, with what is running in it.
Die(i) ==
    /\ serving = i
    /\ Kill(i)
    /\ container' = "cold" /\ serving' = None
    /\ anthropic' = "closed" /\ http' = "closed"
    /\ FreshPipelines

----------------------------------------------------------------------------
(* The two phases of the delivery                                          *)

Phase1Step(i) ==
    /\ serving = i /\ pc[i] = "phase1"
    /\ UNCHANGED <<vars, container, serving, clients, phase2Vars>>
    /\ \/ P1!Dispatch \/ P1!Gathered \/ P1!Collect
       \/ \E a \in Agents1, outcome \in Ends : P1!Settle(a, outcome)

\* run_phase1 returned: the httpx client is opened next.
Scored(i) ==
    /\ serving = i
    /\ verdict1.kind = "result"
    /\ Evaluate(i)
    /\ http' = "open"
    /\ UNCHANGED <<container, serving, anthropic, phase1Vars, phase2Vars>>

\* The gate check of run_phase2 has nothing to skip here: a delivery would
\* stop at a closed gate, which Termination excludes.
Phase2Step(i) ==
    /\ serving = i /\ pc[i] = "phase2"
    /\ UNCHANGED <<vars, container, serving, clients, phase1Vars>>
    /\ \/ P2!Dispatch \/ P2!Gathered \/ P2!Collect
       \/ \E a \in Agents2, outcome \in Ends : P2!Settle(a, outcome)

Generated_WithoutPhase2(i) ==
    /\ serving = i
    /\ pc[i] = "phase2"
    /\ verdict2.kind = "result"
    /\ document' = [document EXCEPT ![i] = [kind |-> "gateFailBlock", sections |-> None]]
    /\ Goto(i, "upload")
    /\ NoRequest
    /\ UNCHANGED <<event, phase1, key, attempt, ownVars>>

Generated(i) ==
    /\ serving = i
    /\ verdict2.kind = "result"
    /\ Generate(i)
    /\ UNCHANGED ownVars

\* How the phase that raised did so, if one did.
Raised(i) ==
    IF pc[i] = "phase1" THEN verdict1.kind ELSE verdict2.kind

PhaseRaises(i) ==
    /\ serving = i
    /\ \/ Raised(i) \in {"agentError", "timeout", "unexpected"} /\ PhaseFails(i)
       \/ Raised(i) = "cancelled" /\ PhaseCancelled(i)
    /\ Leave(i)

----------------------------------------------------------------------------
\* The rest of _run_pipeline, until it returns or raises.
Deliver(i) ==
    /\ serving = i
    /\ Upload(i) \/ Feedback(i) \/ Link(i) \/ Attach(i)
    /\ IF pc'[i] = "done" THEN Leave(i) ELSE UNCHANGED ownVars

Progress(i) ==
    Phase1Step(i) \/ Scored(i) \/ Phase2Step(i) \/ Generated(i) \/ PhaseRaises(i)
    \/ Deliver(i)

Elsewhere == (NextDay \/ \E r \in inflight : Land(r)) /\ UNCHANGED ownVars

ServiceNext ==
    \/ Boot \/ Retire \/ Elsewhere
    \/ \E i \in Inv : TurnAway(i) \/ Begin(i) \/ Progress(i) \/ Die(i)

ServiceSpec == ServiceInit /\ [][ServiceNext]_serviceVars

\* The delivery being served goes on: the event loop runs what is ready, and
\* each awaited call ends.
FairServiceSpec == ServiceSpec /\ \A i \in Inv : WF_serviceVars(Progress(i))

----------------------------------------------------------------------------
(* Properties                                                              *)

ServiceTypeOK ==
    /\ TypeOK
    /\ container \in {"cold", "ready", "refusing", "crashed"}
    /\ serving \in Inv \cup {None}
    /\ anthropic \in {"open", "closed"} /\ http \in {"open", "closed"}
    /\ stage1 \in {"validate", "gather", "collect", "over"}
    /\ stage2 \in {"validate", "gather", "collect", "over"}
    /\ calls1 \in [Agents1 -> {"idle", "running"} \cup P1!Outcomes]
    /\ calls2 \in [Agents2 -> {"idle", "running"} \cup P2!Outcomes]
    /\ verdict1 \in P1!Verdicts
    /\ verdict2 \in P2!Verdicts

Running == \/ \E a \in Agents1 : calls1[a] = "running"
           \/ \E a \in Agents2 : calls2[a] = "running"

\* No agent ever waits for a reply through a client that is closed, in
\* whichever order the agents of a phase end and whichever of them fails.
NoCallOnClosedClient == Running => anthropic = "open"

\* handler.py: the client "is closed on every path, including exceptions - warm
\* invocations otherwise leak file descriptors".  A container that serves
\* nobody holds no client and has no call running, whatever its deliveries
\* ended with.
NothingLeaks ==
    serving = None => anthropic = "closed" /\ http = "closed" /\ ~Running

\* Nothing is told an author on the word of half the agents: every request to
\* Jira or S3 is made with the answers of all three agents of Phase 1, feedback
\* without asking any of Phase 2, and the rest with those of all seven.
WordOfAllAgents ==
    [][\A r \in Requests' \ Requests :
          /\ \A a \in Agents1 : calls1[a] = "ok"
          /\ \A a \in Agents2 :
                calls2[a] = IF r.op = "feedback" THEN "idle" ELSE "ok"]_serviceVars

\* Serving one delivery after another with the two pipelines inside is one way
\* of serving several as Orchestrator says, with one step for each phase.
ImplementsOrchestrator == Spec
=============================================================================
