# A TLA+ model of SpecForge

SpecForge is an AWS Lambda behind an API Gateway. Jira calls it through a
webhook when a story changes; it asks three agents (Claude) how good the story
is, and either posts feedback to the story or asks four more agents for a
specification, stores that in S3, and posts a link to it and the file itself to
the story. This directory models that program (`src/lambdas/orchestrator`) and
the script that creates its parameters (`src/scripts/bootstrap_ssm.py`), checks the models with TLC and proves the main safety properties with TLAPS.

    tlc -config MCOrchestrator.cfg MCOrchestrator     # a run
    tlapm OrchestratorProofs.tla                      # a proof

`PROJECT.json` lists components, runs, the source lines every definition
stands for, findings, hazards and theorems.

## 1. Inventory

| Component | State | Operations | Talks to |
|---|---|---|---|
| Webhook intake (`handler.py`, `core/webhook.py`) | none | `_extract_body`, `_extract_signature`, `validate_signature`, `parse_webhook_body` | called by `lambda_handler` |
| Scoring and gate (`core/scoring.py`) | none | `compute_composite`, `evaluate_gate`, `build_phase1_result` | called by `run_phase1` |
| Domain models (`core/models.py`) | none (mutable Pydantic models that nothing changes) | validation | everyone |
| Phase pipelines (`pipeline/phase1.py`, `phase2.py`) | the pending calls | `run_phase1`, `run_phase2`, `_raise_wrapped` | agents, through `asyncio.gather` |
| Agents (`agents/phase1`, `agents/phase2`) | none | `evaluate`, `generate` over one Anthropic call | Anthropic |
| Spec writer (`pipeline/writer.py`) | none | `assemble_spec` | called by the handler |
| S3 service (`services/s3_service.py`) | the bucket | `upload_spec` with retries, `generate_presigned_url` | S3, in an executor thread |
| Jira service (`services/jira_service.py`) | the site | `post_comment`, `attach_file` | Jira, through httpx |
| Orchestrator (`handler.py`) | module globals of a warm container | `lambda_handler`, `_run_pipeline`, module init | all of the above |
| Settings and cold start (`core/config.py`) | `_SETTINGS`, `_INIT_ERROR` | `load_settings_from_ssm`, fallback to the environment | SSM |
| Parameter store and bootstrap (`services/ssm_service.py`, `scripts/bootstrap_ssm.py`) | SSM parameters | `bootstrap_agent_ids`, `put_parameter`, `get_parameter` | SSM |
| Agent registry (`agents/registry.py`) | a dictionary | register, get | nobody |
| Infrastructure (`infra/`) | none | CDK synthesis | sets the 300 s Lambda timeout |

What is hard here, and what makes each part correct:

- **Deliveries run concurrently** in separate Lambda containers and share the
  bucket and the Jira site. Every write can be refused, or *lost*: the caller
  sees an error and the request is carried out anyway, perhaps much later and
  perhaps after its retry. Lambda may stop an invocation between any two calls
  or during one. Correct: no comment links to an object that does not exist;
  nothing is posted twice; retries write one object; the gate decides what a
  story gets; nothing happens without a valid signature; a success is only
  answered when everything has arrived; every invocation is answered.
- **Agents of a phase run concurrently** and fail in any order and in several
  ways. Correct: no call outlives its phase (the caller closes the client they
  share), the error names an agent that is to blame, an invalid set of agents
  costs no API call, the client is closed on every path.
- **The gate is a comparison of rounded floats.** Correct: agents that agree
  decide it, unless only the rounding puts them on the other side, and a better
  story is never scored lower.
- **The body is bounded twice**, before and after decoding. Correct: no
  legitimate delivery is refused by the first bound, and the text of an
  unauthenticated request has no influence on the answer.
- **A container initialises once** and keeps the result; its settings come from
  seven separate reads while others write the parameters. Correct: settings come
  from one source and are complete; a wrong parameter is never papered over with
  the environment; a container that refuses has a reason to.
- **A bootstrap tests and then writes**, in two calls, and the operator or
  another bootstrap may write in between. Correct: the operator's value stays;
  the reported statuses are true; a call with an ill-formed name writes nothing.
- **A container is warm**: it serves deliveries one after the other, each with an
  Anthropic client that seven agents share and an httpx client for Jira. Correct:
  a container that serves nobody holds no client and runs no call, whatever its
  deliveries ended with; no agent waits on a closed client; what is told to Jira
  or stored in S3 rests on the answers of all agents of the phases before it.
- **The document is made of texts that others wrote** (the story, seven agents).
  Correct: it has its eight sections in their order whatever the story says;
  removing a heading that an agent repeats removes nothing else; every selection
  of suggestions has them in the order they were first made, each once.
- **A reply of the model can be wrong in many ways**, on each step of a chain of
  conversions. Correct: no half-parsed reply becomes part of a result; the error
  names the agent whose reply was at fault.

## 2. Modules

| Module | Models | Role |
|---|---|---|
| `Scoring` | `core/scoring.py` | operators |
| `Webhook` | body, signature and payload checks | operators |
| `PhasePipeline` | `run_phase1`, `run_phase2` and the client's life | state machine, parameters `Phase`, `N` |
| `AgentCall` | what becomes of one Anthropic request | operators |
| `AgentPhase` | the pipelines with their agents' replies | `PhasePipeline` with calls that end as `AgentCall` says |
| `ParameterStore` | `ssm_service.py`, `bootstrap_ssm.py`, the operator | state machine |
| `ColdStart` | module initialisation of `handler.py`, `core/config.py` | state machine over `ParameterStore` |
| `Orchestrator` | `lambda_handler`, `_run_pipeline`, S3 and Jira services, Lambda's timeout, the network | state machine over `Scoring` and `Webhook` |
| `Service` | a container, its two clients, and the deliveries it serves with both pipelines inside | composes `Orchestrator` with two instances of `PhasePipeline` |
| `Writer` | `pipeline/writer.py`, the suggestions of the gate-fail comment | operators |
| `SpecDelivery` | what the author of a story is promised | abstract specification that `Orchestrator` implements |
| `MC*` | | instances for TLC |
| `*Proofs` | | theorems and their proofs |

**Scoring.** A score (float in 0..10) is an integer number of units, `Fine` of which
make a hundredth, so that scores may have any number of decimals; the threshold is
in the same unit. The weighted sum (weights 40, 35 and 25) is then an exact number of
hundredths of the unit and `round(x, 2)` picks the nearest of `Hundredths`, the
numbers of two decimals. At an exact tie Python's answer depends on the
representation error of the float sum, so both neighbours are possible. The float
sum differs from the exact one by some 1e-14 at most, which matters nowhere else:
only a score with that many decimals could lie so near to a tie without being on it.

**Webhook.** An event is its base64 flag, its length as received and after
conversion, whether the conversion succeeds, which signature header it carries,
what kind of string the signature is, and how decoding, JSON parsing and
validation would end. `Intake` composes the checks in `lambda_handler`'s order.
The HMAC is not computed: `"match"` is the correct signature. Two paths end in
the handler's safety net (500): a body with a lone surrogate
(`UnicodeEncodeError`), and a non-ASCII signature (`TypeError` of
`hmac.compare_digest`).

**PhasePipeline.** One module for both phases: they differ in the gate check, in
the number of agents and in what `_raise_wrapped` does with a timeout. `call[a]`
is what the coroutine of agent `a` does, `Settle` ends one call in one of five
ways, `Gathered` is the end of `await asyncio.gather(..., return_exceptions=True)`,
`Collect` is the loop that raises for the first failure in the order of
`_REQUIRED_AGENTS`. The client is closed by the caller's `async with`
(`CloseClient`).

**AgentCall, AgentPhase.** A reply is the first thing that is special about it
on its way through the request, `_extract_text`, `json.loads` and `AgentScore`;
`CallAndParse` and `CallAndGenerate` say how the call ends. `AgentPhase` replaces
the free `Settle` of `PhasePipeline` by `Receive`, which settles the call with the
outcome of the agent's own reply, and records the reply. It is shown to implement
`PhasePipeline`, so what is checked and proved of the pipelines with calls that
end in any way holds with these agents.

**ParameterStore.** The parameters, the place of each bootstrap in its loop
(`CheckExists`, then `Overwrite` or `TryCreate`, two calls), what it reports, and
two histories: who created a parameter, and what the operator last set. Every
call may fail, and a put that fails may have been carried out. `_try_create` can
find that the parameter exists because botocore repeated a put whose reply was
lost: then a parameter that the call created is reported `skipped`.

**ColdStart.** Each container reads the parameters in the order of
`_SSM_PARAM_MAP`, one action per read, and goes on to the environment, the S3
client or a refusal. `seen` is a history: what each parameter has held since the
container started. `Retire` ends a container at any time.

**Orchestrator.** Per invocation: `pc` (the call it is about to make), the event,
the `Phase1Result`, the document, the key, the retry counter, the number of
requests made and the answer. Shared: `applied` (requests S3 and Jira have
carried out), `inflight` (requests whose caller gave up but which may still
arrive) and `today`. Each call of the code is one action; a request ends as
*carried out*, *void* or *lost*, and `Land` carries out a lost request at any
later time, or never. `Kill` is Lambda's timeout, with or without a request on
its way. `Refuse` is a container whose module initialisation failed: `lambda_handler`
answers 500, or there is no handler because its import raised. The
pipelines are one step each: `Evaluate`, `Generate`, `PhaseFails`,
`PhaseCancelled` are the four ways `PhasePipeline` ends, seen from outside.
Keys are `<<story id, day>>`; the key is built before the first attempt.

**Service.** One container: `Boot` ends its initialisation (ready, refusing or
crashed, `ColdStart` says which), `Retire` ends it between deliveries, `Die` is the timeout
during one. `Begin` is the delivery that opens the Anthropic client and starts
`run_phase1`; `Phase1Step` and `Phase2Step` are the steps of the two instances of
`PhasePipeline`; `Scored` and `Generated` are their return to `_run_pipeline`,
`PhaseRaises` is the end of a delivery whose phase raised; `Deliver` is the rest.
Every action that ends a delivery includes `Leave`, the two `async with` blocks
closing their clients. The agents are registered and callable, as `_run_pipeline`
makes them. The gate that `run_phase2` checks again is the one `run_phase1`
decided, so its `return None` is never taken here; a model in which the two
disagreed would stop there and violate `Termination`.

**Writer.** A text is the sequence of its lines; of a line only its start matters
(empty, blanks, `#`, `##`, `###`, `|`, list item, a backslash before one of these,
other) and, for a heading or a suggestion, what it says. Every function of
`writer.py` has its operator. A story of the webhook has no acceptance criteria and
no story points (`handler.py:178-190`), so those branches are left out. The
handler calls `assemble_spec` only when the gate is open; the other document
(`GateFailSections`) is modelled and checked all the same.

**SpecDelivery.** For each delivery, which artefacts have arrived and what was
answered: feedback alone, or spec, then link, then attachment, in this order;
nothing arrives for a delivery turned away; an answer is final and truthful.
The refinement mapping derives the artefacts from `applied`.

## 3. Runs

| Run | Asks | Bounds | States |
|---|---|---|---|
| `functions` | What is let through and does authentication come first? Do agreeing agents decide the gate, can a better story fail? Does the document keep its sections, and everything that was written? | `MAX_BODY_BYTES` 4, bodies up to 9 characters; 7 scores of up to three decimals (`Fine` 10), thresholds 0, 7, 7.004, 10; texts up to 3 lines, up to 2 suggestions per agent | 66.0 k |
| `phase1` | Three agents whose replies go wrong in every modelled way: results, blame, and does it implement `PhasePipeline`, fairness included? | 3 agents (the code's number), 13 replies | 9.4 k |
| `phase2` | Client, blame and dispatch with the gate, with fairness | 4 agents (the code's number) | 3.7 k |
| `orchestrator` | All safety properties of the deliveries | 2 invocations, 3 attempts (the code's number), 2 days, 5 events, every Jira reply | 455 k |
| `delivery` | Does the orchestrator implement `SpecDelivery`, is a 200 true, and is every invocation answered? | 2 invocations, 2 attempts, 1 day, no redirects | 15.9 k |
| `service` | A container and the deliveries it serves: leaks, closed clients, requests on the word of half the agents; does it implement `Orchestrator`, and is every delivery answered? | 2 deliveries, 3 + 4 agents (the code's numbers), 3 ends of a call, 1 attempt, 1 day | 66.8 k |
| `cold_start` | Where settings come from, what a bootstrap may do and report, and does initialisation end? | 1 container, 1 bootstrap, 2 changes by the operator | 146 k |
| `phase1_cancelled`, `redirect`, `overwrite_status`, `init_crash`, `recovery` | sentences of the documentation that the code does not satisfy, section 6 | | |

Why the bounds are enough:

- Invocations interact only through the bucket, where the key is shared by
  deliveries of one story on one day, so two already show every interaction;
  they are interchangeable, hence the symmetry in the safety run (the runs with
  fairness have none).
- Two days are enough for a put, its loss, midnight and its retry in either
  order. The days play no role in `SpecDelivery`, nor in termination, and the
  third attempt is like the second: `delivery` has one day and two attempts.
- The two evaluations lie just below the threshold, 7.0: three scores of 6.994,
  whose composite is 6.99, and three of 6.996, whose composite is rounded to exactly
  the threshold. The scores of `functions` lie on both sides of a tie and of the
  threshold; more decimals than three add no other case, and the theorems cover any
  number of them.
- A body limit of 4 bytes with bodies up to 9 characters lies on both sides of
  both caps (4, and 8 for base64), and of the length 8 of a 4-byte body in
  base64. The limit 4 with 4 bytes per base64 group exercises the padding; the
  theorem `Base64Fits` covers every limit.
- Two parameters stand for the seven: the threshold, which must be a number, and
  a text. A read between two writes, a failure after a success and a blank after a
  good value all happen with two. A third name has no prefix.
- In `cold_start` the operator is the second writer next to the bootstrap, which
  runs as the script, as an overwriting call or with a name to reject. Two
  bootstraps meet in `overwrite_status`; the theorems cover any number of them.
- In `service` the second delivery meets what the first left behind, which is all
  that one delivery can do to the next inside a container. The number of agents is
  the code's. A call ends well, with an exception or with a cancellation: the other
  two ends differ only in the name of the error, which the handler drops (`phase2`
  has all five). Attempts, days and the other replies of Jira are those of
  `orchestrator`, which this run is shown to implement.
- In `functions` a title has up to two lines, and a description or the text of an
  agent up to three: enough for a heading on a first, middle or last line, with
  blank lines before and after. Two suggestions from each of three agents, from
  four, reach both limits (2 and 3) within one agent's list and across lists, with
  and without repetitions, and exceed them.
- The environment is empty (production), good (development) or blank with a bad
  threshold.
- `CallsBounded` bounds requests by the code's own loop. No state constraint is
  used anywhere.

`CHECK_DEADLOCK FALSE` is set where the modelled system stops: every event is
answered once, every phase and every invocation ends. A container is always
retired and started again, so the runs of `ColdStart` check for deadlock.

**Fairness.** `FairSpec` of `PhasePipeline` is weak fairness of the event loop's
steps and of each agent's call: the loop runs every ready coroutine, and the
Anthropic SDK has a request timeout. `FairSpec` of `Orchestrator` is weak
fairness of each invocation's steps: every call it awaits returns or raises
(timeouts of the SDK, of botocore and of httpx). `FairSpec` of `ColdStart` is
weak fairness of a container that has started and of each bootstrap: each call to
SSM ends, botocore has timeouts. `AgentFairSpec` is that of `PhasePipeline` with
replies. `FairServiceSpec` is weak fairness of `Progress`, the steps of the
delivery being served; it is one condition for all of them because the event loop of a
container runs that delivery only. Nothing is assumed of arriving events, of containers being started or
retired, of the operator, of lost requests (they may stay on their way for ever) nor of Lambda's
timeout (so `Termination` holds without it).

**Delivery without redirects.** `SuccessIsComplete` and `Delivers` hold when Jira
never answers 3xx. With redirects the code answers 200 for a comment nobody
received; the run `redirect` shows it.

## 4. Properties

Every property is commented where it is defined. In short: of the orchestrator,
`LinkedSpecExists` (no dangling link), `GateRespected`, `EffectsAreAuthorised`,
`JiraWrittenOnce`, `OneObjectPerInvocation`, `CallsBounded`, `QuietAfterAnswer`,
`SuccessIsComplete`, `Delivers`, `Termination`; of a container and its deliveries,
`NoCallOnClosedClient`, `NothingLeaks`, `WordOfAllAgents`, `ImplementsOrchestrator`;
of the document, `EightSections`, `NothingLost`, `SuggestionsFirstSeenFirst`; of a
pipeline, `AllCalledOrNone`, `BlameIsDeserved`, `ClientClosedAtLast`; of the gate,
`UnanimityDecides` and `BetterNeverFails`; of the intake, `OnlyAuthenticPayloads`, `EveryDeliveryFits`,
`StrangersLearnNothing`; of the agents, `ResultFromGoodReplies`,
`AnonymousErrorIsUnforeseen`, `ImplementsPipeline`; of the parameters,
`OperatorValueStays`, `StatusIsTrue`, `AllNamesOrNothing`; of a container,
`SettingsFromOneSource`, `NoSilentFallback`, `RefusalIsDeserved`,
`PlaceholdersDoNotServe`, `InitialisationEnds`. The operators named `<Definition>_<Variant>` are mutants: plausible
bugs that stand beside the definition they alter and that the specifications do
not use. Each property is violated by at least one of them.

`NoCallOutlivesPhase` and `ResultIsComplete` of a pipeline and `ServiceTypeOK` are
proved and not run: what the first two say of one pipeline, `NoCallOnClosedClient`
and `WordOfAllAgents` of `Service` say of both with the clients and requests they
are about, and those are run.

## 5. Proofs

The proofs hold for every value of the constants under the assumptions named in
the modules (`OrchestratorAssumption`, `NoneAssumption`, `MaxBodyAssumption`,
`PhaseAssumption`, `PrecisionAssumption`, `StoreAssumption`, `ColdStartAssumption`,
`BoundsAssumption`, `ServiceAssumption`).

**`OrchestratorProofs`** proves the type invariant, `LinkedSpecExists`,
`GateRespected`, `EffectsAreAuthorised`, `JiraWrittenOnce`,
`OneObjectPerInvocation`, `CallsBounded` and `QuietAfterAnswer`: for any number
of invocations, events, stories, attempts, days and any threshold. None of
the invariants is inductive alone: each speaks of the requests, and what keeps
them true is what an invocation knows when it makes the next one. The inductive
invariant `IInv` adds

- `LocalInv`: at each stage, what the local variables hold (an accepted event
  from "phase1" on, the stored verdict agreeing with the composite, a key of the
  event's story from "put" on, the invocation's own object in the bucket from
  "presign" on);
- `CountInv`: how many requests were made at each stage, in terms of the attempt;
- `Justified`: for each request, the stage its invocation must have reached, and
  for a link or attachment the stored object;
- `JiraWrittenOnce` itself.

The proof of `Invariance` has a step per action. The lemmas about `Intake` come
from `WebhookProofs`.

Its second part proves, under `NoRedirects` (Jira answers no 3xx),
`SuccessIsComplete` and `Spec => Delivers`, the refinement of `SpecDelivery`. The
invariant `ArrivalsInv` ties each stage of an invocation to what must have arrived
for it by then and to what cannot have been asked for yet; every step then is a
step of `SpecDelivery` or leaves artefacts and answer as they are. The assumption is
needed: the run `redirect` has the counterexample.

Its third part says what bounds an invocation: `StepsLeft` counts the stages ahead of it
and the puts it has left, every step of its code lowers it and no step of another
invocation, of the calendar or of the network changes it (`EveryStepBringsNearer`).
It starts at `MaxAttempts + 7`. The retry of the upload is the only way back to an
earlier point of the code, and it costs an attempt.

**`ServiceProofs`**: `ServiceSpec => ImplementsOrchestrator`, action by action
(`NextImplements`), hence also `ServiceSpec => Delivers` without redirects
(`ContainersDeliver`) and everything else proved of the orchestrator. Then, from an
inductive invariant that says for each stage of the delivery where both pipelines
are and which clients are open, `ServiceTypeOK`, `NothingLeaks`,
`NoCallOnClosedClient` and `WordOfAllAgents`: for any number of deliveries, events,
scores, attempts and days and any subset of the ends of a call.
`EveryDeliveryRunsOut` adds up the steps left of the orchestrator and of the two
pipelines: a delivery that has begun is over after `MaxAttempts + 19` steps at most.

**`WebhookProofs`**: what is accepted is authentic, well formed and within the
limit; canonical base64 of a body within the limit is within twice the limit
(for every limit), hence every deliverable event is accepted.

**`WriterProofs`** proves what the operators of `Writer` return, for all texts. The
two recursive functions (`FirstSeen`, `Bullets`) are first shown to equal a function
built step by step; the induction over their length is the least element of the set
of steps at which the claim fails, which needs no induction theorem.
`FirstSeenChooses` says what the loops over the suggestions choose, for every limit
and every sequence. Then the lemmas on texts: what the two strips take away
(`Keeps`: a stretch of the text that has all its visible lines), what `WrapSection` and
`After` leave (`Wraps`, `Has`: one text stands in another at an offset). With these
`AssembleSpecIs`: the document is eight sections, each its heading, an empty line and
its text, one empty line apart, at the offsets their lengths give, and the texts are
those of the story, the suggestions and the agents. What follows says where a
heading is first found in such a document, if no text contains one of them.

**`FunctionProofs`** proves all eight properties of the run `functions` in the form in
which it checks them: for all events, limits (at least two bytes for
`EveryDeliveryFits`), scores and thresholds, for descriptions and agents' texts of any
length and for any number of suggestions. The lines are those that the run has
(`StoryLines`, `LinesOf`, `Suggested`), and a title has two at most.

- Of the gate: for every evaluation there is a composite; for every integer threshold
  a number of two decimals that lies between it and all the scores decides the gate;
  if no score is worse and the stories differ, no possible composite is lower. The
  argument is arithmetic on the rounding interval: two different numbers of two
  decimals are `Fine` units apart (`Apart`), and the interval is one of them wide.
- Of the document: the invariant says that the input is of its kind (`Proper`) and
  the output the function of it. `EightSectionsHold`: a text of the story and of the
  suggestions has no heading left, the text of an obedient agent none after
  `StripDuplicateHeading`, so the only headings are the eight. An agent that does
  not obey can still have no heading of another section among its lines, so every
  section begins where `SectionOf` looks for it; `NothingIsLost` follows from `Keeps`
  and `Has`, `SuggestionsInOrder` from `FirstSeenChooses` and from the list items of a
  section being the bullets and nothing else.

**`PhasePipelineProofs`**: for any number of agents and both phases, the type
invariant, `NoCallOutlivesPhase`, `AllCalledOrNone`, `ResultIsComplete` and
`BlameIsDeserved`. The
inductive invariant records, per stage, what the calls may be and how the
verdict follows from them; that the first failure exists is well-foundedness of
the naturals. A pipeline has at most `N + 4` steps (`EveryStepBringsNearer`): each call
that ends leaves one fewer running, and none is started again.

**`AgentPhaseProofs`**: for any number of agents and both phases,
`AgentSpec => Spec`: every initial state and step of the phase with its agents is
one of the pipeline, because `CallAndParse` and `CallAndGenerate` end a call only
in ways `Settle` allows. Hence the theorems of `PhasePipelineProofs` carry over.
With the invariant that a settled call is the outcome of the recorded reply,
`ResultFromGoodReplies` and `AnonymousErrorIsUnforeseen` follow.

**`ColdStartProofs`**: for any number of bootstraps, containers, parameters and
changes by the operator, all safety properties of the run `cold_start`. `StoreInv`
concerns the store alone: a bootstrap past its check of names has a task with
prefixed names only, what it is about to write is one of its own, a status implies
that the parameter exists. Nobody deletes a parameter, so what a bootstrap without
overwrite may write is still absent when the put is carried out: this is why
`OperatorValueStays` is inductive. `ContainerInv` speaks of one container: it has
seen what the store holds, and each value it has read so far was filled and seen.
`StoreStepContainers` and `OneContainer` reduce every step to one container.
`InitialisationRunsOut` and `BootstrapsRunOut` bound both kinds of process, whatever is
written meanwhile: the loading of settings reads each parameter once, and a bootstrap
takes two steps per name. `BootstrapsRunOut` assumes `Names` finite; in the code a
bootstrap is given the keys of a dict.

**Only model-checked**: `Termination`, `ClientClosedAtLast`, `InitialisationEnds`
and the fairness part of `ImplementsPipeline`. Liveness under fairness is out of the
prover's reach, as is ENABLED. Of such a property the theorems have the half that needs
neither: the steps run out. That a delivery, a pipeline or a container that is not at its
end can take a step, and does, is what the runs check. Every safety property that
a run checks, invariant or action property, is also a theorem.

## 6. Where documentation and code disagree

Each is a run that checks the sentence and finds the counterexample.

| Run | The text | The code |
|---|---|---|
| `phase1_cancelled` | `phase1.py:69`: cancellation propagates | an earlier agent's ordinary error hides it |
| `init_crash` | `handler.py:19`: an init error is served as 500 rather than crashing the function | `S3Service(...)` at `handler.py:115` and `:117` is outside both `try` statements, so what it raises fails the import |
| `redirect` | `handler.py:25`: 200 means pipeline success | a 3xx of Jira counts as posted |
| `overwrite_status` | `ssm_service.py:68`: the status reflects whether the parameter existed before the write | a parameter created between test and put is overwritten and reported `created` |
| `recovery` | `handler.py:91`: 500s until the operator fixes SSM | until Lambda retires the container, however long ago SSM was fixed |

More facts that the models show and no run is spent on (`README.md` is the repository's):

- A non-ASCII signature is answered 500, not 401 (`handler.py:23`): the
  comparison raises `TypeError`. A body with a lone surrogate is answered 500 too.
- `README.md:365` and `:400` name the header `X-Specforge-Signature`; only
  `X-Hub-Signature-256` is read.
- `README.md:430` explains "200 but no Jira comment" by `JiraAPIError`; that is
  answered 500, and a 200 without comment comes from a redirect.
- `README.md:428` lets a parameter that still is `PLACEHOLDER` lead to a 500; only
  the threshold is noticed, the other parameters pass as settings. As long as nobody
  has set the threshold no container serves from SSM (`PlaceholdersDoNotServe`).
- `specforge_stack.py:17` says `make bootstrap-ssm` replaces the placeholders; the
  script never overwrites an existing parameter.
- A `CancelledError` or `SystemExit` of a phase leaves `lambda_handler` although
  its docstring says it always returns a dict; nothing has been written by then.
- `EightSections` speaks of headings with `#`. A setext heading (a line of `=` or
  `-` under a text) or a heading after a bare `"\r"` in a story still makes one, and
  the headings an agent writes inside its section are not escaped.
- The duplicate of a heading is not recognised after a line of blanks
  (`writer.py:88` strips line breaks only).
- The prompts of Phase 2 (`api_agent.py:14` and the others) announce a heading
  `### API Design` of the caller; the writer adds `## API Design`, and a `###`
  repeated by an agent is kept.
- The comment on a failed gate has three suggestions at most (`handler.py:211`), and
  no rationale; `README.md:40` lets it list "each agent's rationale and suggestions".
  The gate-fail block of the document has two suggestions (`SuggestionsFirstSeenFirst`);
  no path of the handler produces that block.
- `README.md:59` puts a heading `# <Story Title>` above the sections; `assemble_spec`
  starts with `## Story` and writes no such line (`EightSections`).
- Three scores of 6.996 have the composite 7.0 and pass a threshold of 7.0 although
  no agent reached it: the gate compares the rounded composite (`UnanimityDecides`).
- `agents/phase1/base.py:60` says that callers have "a single exception type to
  handle". `json.loads` raises `RecursionError` for deep nesting, `ValueError` for an
  over-long number and `TypeError` for a reply whose text is no string, and `float()` in
  `validate_score_range` raises `OverflowError` for a huge integer: none is translated,
  and the error loses its agent's name (`AnonymousErrorIsUnforeseen` says that no
  other failure does).
- Deliveries of one story on one day share a key, so the later put replaces the
  object that an earlier comment links to.

## 7. Not modelled

- Prompt texts, the one-line agent classes and the registry, which nothing uses: no
  state and no control.
- Wording, numbers and what follows the start of a line in the document and in
  comments; Jira's wiki or ADF format; the redaction of errors and headers.
- `JiraService.aclose` and its `async with`: the handler passes a client of its own,
  which the service never closes, so `Service` closes it in `Leave`.
- Back-off delays: only the order of attempts matters to the properties.
- The 30 s limit of API Gateway and Jira's own redelivery: outside the code; a
  redelivery is another invocation of the models.
- Expiry of presigned URLs (no clock finer than a day), a NaN threshold, S3
  versioning.
- The CDK stack apart from its timeout; in particular what its alarm counts (an
  answer 500 is no error of the function).
- The executor thread that runs a put: it cannot outlive its caller observably
  except as a lost request, which is modelled.
- `ColdStart` and `Service` are joined by the result of the initialisation only
  (`Boot`): a container that is ready keeps its settings and reads no parameter
  again, so a common state machine would show nothing more.
