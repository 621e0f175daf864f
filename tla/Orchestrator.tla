---------------------------- MODULE Orchestrator ----------------------------
(***************************************************************************)
(* lambda_handler and _run_pipeline (handler.py) with the S3 and Jira      *)
(* services they call: the life of a webhook delivery from the event to    *)
(* the HTTP answer.  Several invocations run concurrently in Lambda and    *)
(* share the bucket and the Jira site.  A request to either service may be *)
(* carried out, be refused, or be lost: the caller sees an error and the   *)
(* request may still be carried out later.  Lambda may stop an invocation  *)
(* at any moment (its timeout), even with a request on its way.            *)
(*                                                                         *)
(* The two agent pipelines are one step each here: PhasePipeline says what *)
(* happens inside.                                                         *)
(***************************************************************************)
EXTENDS Scoring, Webhook

CONSTANTS
    Inv,           \* deliveries of the webhook, one invocation each
    Events,        \* the API Gateway events that may arrive
    Evaluations,   \* what the Phase 1 agents may answer
    Threshold,     \* settings.quality_threshold
    Sections,      \* what the Phase 2 agents may write
    StoryIds,      \* the issue keys _STORY_ID_RE matches
    MaxAttempts,   \* _MAX_ATTEMPTS
    LastDay,       \* bound on the clock
    JiraReplies,   \* the kinds of reply Jira gives
    None           \* Python's None

ASSUME OrchestratorAssumption ==
    /\ Events \subseteq Event
    /\ Evaluations \subseteq Evaluation
    /\ Threshold \in Int
    /\ StoryIds \subseteq Issues
    /\ MaxAttempts \in Nat \ {0}
    /\ LastDay \in Nat \ {0}
    /\ JiraReplies \subseteq {"accepted", "redirected", "refused", "lost"}

Days == 1 .. LastDay

\* specs/{story_id}/{date}/SPEC.md
Keys == StoryIds \X Days

\* What assemble_spec returns: a spec with the sections, or the document whose
\* place of sections is taken by the "gate failed" block (phase2 is None).
Documents == [kind : {"spec"}, sections : Sections]
             \cup [kind : {"gateFailBlock"}, sections : {None}]

Ops == {"feedback", "spec", "link", "attachment"}

\* A request to S3 (op "spec") or to Jira, the n-th its invocation makes.
Request == [op : Ops, by : Inv, key : Keys \cup {None}, n : Nat]

Answers == {"gate_failed", "spec_generated", "bad_request", "unauthorized",
            "server_error", "raised", "timed_out"}

ASSUME NoneAssumption ==
    None \notin Answers \cup Event \cup Phase1Result \cup Documents \cup Keys

VARIABLES
    pc,         \* per invocation: the call it is about to make
    event,      \* the event it was given
    phase1,     \* the Phase1Result
    document,   \* spec_markdown
    key,        \* the S3 key, built once by upload_spec
    attempt,    \* loop variable of upload_spec
    calls,      \* the number of requests made so far
    response,   \* what lambda_handler answered
    applied,    \* the requests S3 and Jira have carried out
    inflight,   \* the requests given up by the caller that may still arrive
    today       \* the UTC date

local == <<pc, event, phase1, document, key, attempt, calls, response>>
world == <<applied, inflight, today>>
vars  == <<pc, event, phase1, document, key, attempt, calls, response,
           applied, inflight, today>>

Stages == {"idle", "phase1", "feedback", "phase2", "upload", "put", "presign",
           "link", "attach", "done"}

\* The request an invocation makes at each of the calls that make one.
OpAt == [feedback |-> "feedback", put |-> "spec", link |-> "link",
         attach |-> "attachment"]

Init ==
    /\ pc = [i \in Inv |-> "idle"]
    /\ event = [i \in Inv |-> None]
    /\ phase1 = [i \in Inv |-> None]
    /\ document = [i \in Inv |-> None]
    /\ key = [i \in Inv |-> None]
    /\ attempt = [i \in Inv |-> 0]
    /\ calls = [i \in Inv |-> 0]
    /\ response = [i \in Inv |-> None]
    /\ applied = {}
    /\ inflight = {}
    /\ today = 1

Goto(i, stage) == pc' = [pc EXCEPT ![i] = stage] /\ UNCHANGED response

Return(i, answer) ==
    /\ pc' = [pc EXCEPT ![i] = "done"]
    /\ response' = [response EXCEPT ![i] = answer]

\* One request and its fate: "carriedOut", "void" (no effect) or "lost".
Send(i, fate) ==
    LET r == [op |-> OpAt[pc[i]], by |-> i, key |-> key[i], n |-> calls[i]] IN
    /\ calls' = [calls EXCEPT ![i] = @ + 1]
    /\ applied' = IF fate = "carriedOut" THEN applied \cup {r} ELSE applied
    /\ inflight' = IF fate = "lost" THEN inflight \cup {r} ELSE inflight
    /\ UNCHANGED today

NoRequest == UNCHANGED <<calls, applied, inflight, today>>

----------------------------------------------------------------------------
(* lambda_handler up to the pipeline                                       *)

\* The container's module init failed: every invocation it gets is refused by
\* lambda_handler or, when the error left the module, fails in Lambda.
Refuse(i, answer) ==
    /\ pc[i] = "idle"
    /\ Return(i, answer)
    /\ NoRequest
    /\ UNCHANGED <<event, phase1, document, key, attempt>>

Reject(i, e) ==
    /\ pc[i] = "idle"
    /\ Intake(e) # "accepted"
    /\ event' = [event EXCEPT ![i] = e]
    /\ Return(i, Intake(e))
    /\ NoRequest
    /\ UNCHANGED <<phase1, document, key, attempt>>

Accept(i, e) ==
    /\ pc[i] = "idle"
    /\ Intake(e) = "accepted"
    /\ event' = [event EXCEPT ![i] = e]
    /\ Goto(i, "phase1")
    /\ NoRequest
    /\ UNCHANGED <<phase1, document, key, attempt>>

----------------------------------------------------------------------------
(* The two phases                                                          *)

Evaluate(i) ==
    /\ pc[i] = "phase1"
    /\ \E e \in Evaluations : \E result \in BuildPhase1Result(e, Threshold) :
          /\ phase1' = [phase1 EXCEPT ![i] = result]
          /\ Goto(i, IF result.passed THEN "phase2" ELSE "feedback")
    /\ NoRequest
    /\ UNCHANGED <<event, document, key, attempt>>

\* Phase1PipelineError, Phase2PipelineError.
PhaseFails(i) ==
    /\ pc[i] \in {"phase1", "phase2"}
    /\ Return(i, "server_error")
    /\ NoRequest
    /\ UNCHANGED <<event, phase1, document, key, attempt>>

\* CancelledError is no Exception: no clause of lambda_handler catches it.
PhaseCancelled(i) ==
    /\ pc[i] \in {"phase1", "phase2"}
    /\ Return(i, "raised")
    /\ NoRequest
    /\ UNCHANGED <<event, phase1, document, key, attempt>>

\* The gate check run_phase2 repeats.
GateOpen(i) == phase1[i].passed /\ ~(phase1[i].composite < Threshold)

\* run_phase2 and assemble_spec.
Generate(i) ==
    /\ pc[i] = "phase2"
    /\ \/ /\ GateOpen(i)
          /\ \E s \in Sections :
                document' = [document EXCEPT ![i] = [kind |-> "spec", sections |-> s]]
       \/ /\ ~GateOpen(i)
          /\ document' = [document EXCEPT ![i] =
                             [kind |-> "gateFailBlock", sections |-> None]]
    /\ Goto(i, "upload")
    /\ NoRequest
    /\ UNCHANGED <<event, phase1, key, attempt>>

----------------------------------------------------------------------------
(* S3Service.upload_spec and generate_presigned_url                        *)

\* ValueError for an issue key that is no story id.
RejectStoryId(i) ==
    /\ pc[i] = "upload"
    /\ event[i].issue \notin StoryIds
    /\ Return(i, "server_error")
    /\ NoRequest
    /\ UNCHANGED <<event, phase1, document, key, attempt>>

BuildKey_WithoutDate(i) ==
    /\ pc[i] = "upload"
    /\ event[i].issue \in StoryIds
    /\ key' = [key EXCEPT ![i] = <<event[i].issue>>]
    /\ attempt' = [attempt EXCEPT ![i] = 0]
    /\ Goto(i, "put")
    /\ NoRequest
    /\ UNCHANGED <<event, phase1, document>>

\* The key is computed once, before the first attempt.
BuildKey(i) ==
    /\ pc[i] = "upload"
    /\ event[i].issue \in StoryIds
    /\ key' = [key EXCEPT ![i] = <<event[i].issue, today>>]
    /\ attempt' = [attempt EXCEPT ![i] = 0]
    /\ Goto(i, "put")
    /\ NoRequest
    /\ UNCHANGED <<event, phase1, document>>

PutStored(i) ==
    /\ pc[i] = "put"
    /\ Send(i, "carriedOut")
    /\ Goto(i, "presign")
    /\ UNCHANGED <<event, phase1, document, key, attempt>>

RetryOrGiveUp_OffByOne(i) ==
    IF attempt[i] >= MaxAttempts
    THEN Return(i, "server_error") /\ UNCHANGED attempt
    ELSE /\ attempt' = [attempt EXCEPT ![i] = @ + 1]
         /\ UNCHANGED <<pc, response>>

RetryOrGiveUp(i) ==
    IF attempt[i] >= MaxAttempts - 1
    THEN Return(i, "server_error") /\ UNCHANGED attempt
    ELSE /\ attempt' = [attempt EXCEPT ![i] = @ + 1]
         /\ UNCHANGED <<pc, response>>

PutTransient_RebuildsKey(i) ==
    /\ pc[i] = "put"
    /\ \E fate \in {"void", "lost"} : Send(i, fate)
    /\ RetryOrGiveUp(i)
    /\ key' = [key EXCEPT ![i] = <<event[i].issue, today>>]
    /\ UNCHANGED <<event, phase1, document>>

PutTransient_TimeoutIsSuccess(i) ==
    /\ pc[i] = "put"
    /\ \/ Send(i, "void") /\ RetryOrGiveUp(i)
       \/ Send(i, "lost") /\ Goto(i, "presign") /\ UNCHANGED attempt
    /\ UNCHANGED <<event, phase1, document, key>>

\* A request beyond the first MaxAttempts is not counted, so that the retries
\* without end are a cycle.
PutTransient_NeverGivesUp(i) ==
    /\ pc[i] = "put"
    /\ IF calls[i] < MaxAttempts
       THEN \E fate \in {"void", "lost"} : Send(i, fate)
       ELSE NoRequest
    /\ attempt' = [attempt EXCEPT ![i] = (@ + 1) % MaxAttempts]
    /\ UNCHANGED <<pc, response, event, phase1, document, key>>

\* A retryable error code, or a BotoCoreError: then the request may have been
\* carried out all the same.  The back-off between attempts is not modelled.
PutTransient(i) ==
    /\ pc[i] = "put"
    /\ \E fate \in {"void", "lost"} : Send(i, fate)
    /\ RetryOrGiveUp(i)
    /\ UNCHANGED <<event, phase1, document, key>>

\* Any other error code: S3UploadError at once.
PutFatal(i) ==
    /\ pc[i] = "put"
    /\ Send(i, "void")
    /\ Return(i, "server_error")
    /\ UNCHANGED <<event, phase1, document, key, attempt>>

\* Signing the URL is a local computation.
Presign(i) ==
    /\ pc[i] = "presign"
    /\ Goto(i, "link")
    /\ NoRequest
    /\ UNCHANGED <<event, phase1, document, key, attempt>>

\* S3PresignError, or a BotoCoreError that the safety net catches.
PresignFails(i) ==
    /\ pc[i] = "presign"
    /\ Return(i, "server_error")
    /\ NoRequest
    /\ UNCHANGED <<event, phase1, document, key, attempt>>

----------------------------------------------------------------------------
(* JiraService.post_comment and attach_file                                *)

\* The calls that return: status < 400, a redirect included (httpx does not
\* follow it, so it has no effect).
JiraReturns(i) ==
    \/ "accepted" \in JiraReplies /\ Send(i, "carriedOut")
    \/ "redirected" \in JiraReplies /\ Send(i, "void")

\* The calls that raise JiraAPIError: status >= 400, or an httpx.HTTPError
\* after which the request may have been carried out all the same.
JiraRaises(i) ==
    \/ "refused" \in JiraReplies /\ Send(i, "void")
    \/ "lost" \in JiraReplies /\ Send(i, "lost")

Feedback_Retried(i) ==
    /\ pc[i] = "feedback"
    /\ \/ JiraReturns(i) /\ Return(i, "gate_failed")
       \/ JiraRaises(i) /\ IF calls[i] < 2 THEN UNCHANGED <<pc, response>>
                           ELSE Return(i, "server_error")
    /\ UNCHANGED <<event, phase1, document, key, attempt>>

\* The gate-fail comment.
Feedback(i) ==
    /\ pc[i] = "feedback"
    /\ \/ JiraReturns(i) /\ Return(i, "gate_failed")
       \/ JiraRaises(i) /\ Return(i, "server_error")
    /\ UNCHANGED <<event, phase1, document, key, attempt>>

Link_AnswersEarly(i) ==
    /\ pc[i] = "link"
    /\ \/ /\ JiraReturns(i)
          /\ pc' = [pc EXCEPT ![i] = "attach"]
          /\ response' = [response EXCEPT ![i] = "spec_generated"]
       \/ JiraRaises(i) /\ Return(i, "server_error")
    /\ UNCHANGED <<event, phase1, document, key, attempt>>

Link_BestEffort(i) ==
    /\ pc[i] = "link"
    /\ JiraReturns(i) \/ JiraRaises(i)
    /\ Goto(i, "attach")
    /\ UNCHANGED <<event, phase1, document, key, attempt>>

\* The gate-pass comment, with the presigned URL of the spec.
Link(i) ==
    /\ pc[i] = "link"
    /\ \/ JiraReturns(i) /\ Goto(i, "attach")
       \/ JiraRaises(i) /\ Return(i, "server_error")
    /\ UNCHANGED <<event, phase1, document, key, attempt>>

Attach_BestEffort(i) ==
    /\ pc[i] = "attach"
    /\ JiraReturns(i) \/ JiraRaises(i)
    /\ Return(i, "spec_generated")
    /\ UNCHANGED <<event, phase1, document, key, attempt>>

\* The spec as an attachment of the issue.
Attach(i) ==
    /\ pc[i] = "attach"
    /\ \/ JiraReturns(i) /\ Return(i, "spec_generated")
       \/ JiraRaises(i) /\ Return(i, "server_error")
    /\ UNCHANGED <<event, phase1, document, key, attempt>>

----------------------------------------------------------------------------
(* Lambda, the network and the clock                                       *)

\* Lambda stops the invocation, perhaps with its request on the way.
Kill(i) ==
    /\ pc[i] \notin {"idle", "done"}
    /\ Return(i, "timed_out")
    /\ \/ NoRequest
       \/ pc[i] \in DOMAIN OpAt /\ Send(i, "lost")
    /\ UNCHANGED <<event, phase1, document, key, attempt>>

\* A lost request is carried out after all.  One that never is stays inflight.
Land(r) ==
    /\ inflight' = inflight \ {r}
    /\ applied' = applied \cup {r}
    /\ UNCHANGED <<pc, event, phase1, document, key, attempt, calls, response, today>>

NextDay ==
    /\ today < LastDay
    /\ today' = today + 1
    /\ UNCHANGED <<pc, event, phase1, document, key, attempt, calls, response,
                   applied, inflight>>

----------------------------------------------------------------------------
Arrive(i) ==
    \/ \E answer \in {"server_error", "raised"} : Refuse(i, answer)
    \/ \E e \in Events : Reject(i, e) \/ Accept(i, e)

Upload(i) == RejectStoryId(i) \/ BuildKey(i) \/ PutStored(i) \/ PutTransient(i)
             \/ PutFatal(i) \/ Presign(i) \/ PresignFails(i)

\* One step of the code of invocation i.
Step(i) == Evaluate(i) \/ PhaseFails(i) \/ PhaseCancelled(i) \/ Generate(i)
           \/ Upload(i) \/ Feedback(i) \/ Link(i) \/ Attach(i)

Next ==
    \/ \E i \in Inv : Arrive(i) \/ Step(i) \/ Kill(i)
    \/ \E r \in inflight : Land(r)
    \/ NextDay

Spec == Init /\ [][Next]_vars

\* A running invocation goes on: each call it awaits returns or raises (the
\* Anthropic SDK, botocore and httpx all have timeouts), and Lambda schedules
\* it.  Nothing is assumed of arrivals, of lost requests or of Lambda's timer.
FairSpec == Spec /\ \A i \in Inv : WF_vars(Step(i))

----------------------------------------------------------------------------
(* Properties                                                              *)

Requests == applied \cup inflight

RequestsBy(i) == { r \in Requests : r.by = i }

TypeOK ==
    /\ pc \in [Inv -> Stages]
    /\ event \in [Inv -> Events \cup {None}]
    /\ phase1 \in [Inv -> Phase1Result \cup {None}]
    /\ document \in [Inv -> Documents \cup {None}]
    /\ key \in [Inv -> Keys \cup {None}]
    /\ attempt \in [Inv -> 0 .. MaxAttempts - 1]
    /\ calls \in [Inv -> Nat]
    /\ response \in [Inv -> Answers \cup {None}]
    /\ applied \subseteq Request
    /\ inflight \subseteq Request
    /\ today \in Days

\* No dangling link: whatever is lost, late or killed, a comment that links to
\* a spec, and an attachment, are only ever in Jira when the object they go
\* with is in the bucket, under the key that was signed.
LinkedSpecExists ==
    \A r \in applied : r.op \in {"link", "attachment"} =>
        \E s \in applied : s.op = "spec" /\ s.by = r.by /\ s.key = r.key

\* The gate decides what a story gets: feedback reaches Jira only for a story
\* below the threshold; a spec, its link and its attachment only for a story
\* that reached it, and what is stored is a spec and not the "gate failed"
\* block that assemble_spec writes when run_phase2 skipped.
GateRespected ==
    \A r \in Requests :
        IF r.op = "feedback"
        THEN phase1[r.by].composite < Threshold
        ELSE /\ phase1[r.by].composite >= Threshold
             /\ document[r.by].kind = "spec"

\* Nothing is written to S3 or Jira for a request that is not authentic and
\* well formed.  What is stored goes under the issue key it was signed for, and
\* only if that is a story id, so that it names no other place in the bucket.
EffectsAreAuthorised ==
    \A r \in Requests :
        /\ event[r.by] # None
        /\ event[r.by].header = "x-hub-signature-256"
        /\ event[r.by].signature = "match"
        /\ event[r.by].content = "payload"
        /\ r.op # "feedback" => /\ r.key[1] = event[r.by].issue
                                /\ r.key[1] \in StoryIds

\* An invocation never posts a comment or an attachment twice, not even when
\* the reply to the first was lost and the request is carried out later.
JiraWrittenOnce ==
    \A r, s \in Requests :
        r.by = s.by /\ r.op = s.op /\ r.op # "spec" => r = s

\* All attempts of an upload write the same object, also over midnight: a put
\* that was lost and lands after its retry leaves no second object behind.
OneObjectPerInvocation ==
    \A r, s \in Requests :
        r.by = s.by /\ r.op = "spec" /\ s.op = "spec" => r.key = s.key

\* The retry loop makes at most _MAX_ATTEMPTS puts: with the two Jira calls,
\* that many requests and two at most, lost and refused ones included.
CallsBounded ==
    \A i \in Inv : calls[i] <= MaxAttempts + 2

\* The answer is the last thing an invocation does: it is final, and no request
\* is made after it (upload and comments are awaited, not left to run on).
QuietAfterAnswer ==
    [][\A i \in Inv : response[i] # None =>
          response'[i] = response[i] /\ calls'[i] = calls[i]]_vars

\* What has arrived in S3 and Jira on behalf of an invocation.
Arrived(i) == { r.op : r \in { q \in applied : q.by = i } }

\* handler.py: "200 Pipeline success (both gate-pass and gate-fail paths)".
\* A 200 is only answered when everything it speaks of has arrived.
SuccessIsComplete ==
    \A i \in Inv :
        /\ response[i] = "gate_failed" => Arrived(i) = {"feedback"}
        /\ response[i] = "spec_generated" =>
               Arrived(i) = {"spec", "link", "attachment"}

\* Every invocation that starts is answered.
Termination == \A i \in Inv : pc[i] # "idle" ~> pc[i] = "done"

\* The orchestrator delivers as SpecDelivery promises.
Delivery == INSTANCE SpecDelivery WITH
                artefacts <- [i \in Inv |-> Arrived(i)],
                answer    <- response

Delivers == Delivery!Spec
=============================================================================
