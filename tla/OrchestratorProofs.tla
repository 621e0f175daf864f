------------------------- MODULE OrchestratorProofs -------------------------
(***************************************************************************)
(* The safety properties of Orchestrator, for any number of invocations,   *)
(* any events, scores, threshold and retry limit, and any mix of lost,     *)
(* late and killed requests.  Then, where Jira does not redirect, that     *)
(* Orchestrator implements SpecDelivery.                                   *)
(***************************************************************************)
EXTENDS Orchestrator, WebhookProofs, TLAPS

----------------------------------------------------------------------------
(* Type correctness                                                        *)

LEMMA HundredthsAreInts == \A c \in Hundredths : c \in Int
<1> TAKE c \in Hundredths
<1>1. PICK k \in 0 .. 1000 : c = Fine * k
  BY Zenon DEF Hundredths
<1>2. Fine * k \in Int
  BY PrecisionAssumption, SMT
<1> QED
  BY <1>1, <1>2

LEMMA ResultIsTyped ==
  ASSUME NEW e \in Evaluations, NEW result \in BuildPhase1Result(e, Threshold)
  PROVE  /\ result \in Phase1Result
         /\ result.passed => result.composite >= Threshold
         /\ ~result.passed => result.composite < Threshold
<1>1. PICK c \in Composites(e) :
         result = [composite |-> c, passed |-> EvaluateGate(c, Threshold)]
  BY DEF BuildPhase1Result
<1>2. c \in Hundredths /\ c \in Int
  BY HundredthsAreInts DEF Composites
<1>3. EvaluateGate(c, Threshold) \in BOOLEAN
  BY DEF EvaluateGate
<1>4. result \in Phase1Result
  BY <1>1, <1>2, <1>3 DEF Phase1Result
<1>5. c \in Int /\ (~(c >= Threshold) => c < Threshold)
  BY <1>2, OrchestratorAssumption
<1>6. result.composite = c /\ (result.passed <=> c >= Threshold)
  BY <1>1 DEF EvaluateGate
<1> QED
  BY <1>4, <1>5, <1>6

LEMMA IntakeIsAnswer ==
  ASSUME NEW e \in Events, Intake(e) # "accepted"
  PROVE  Intake(e) \in Answers
  BY OrchestratorAssumption, IntakeAnswers DEF IntakeVerdicts, Answers

\* The calls that make a request.
LEMMA OpAtIs ==
  /\ DOMAIN OpAt = {"feedback", "put", "link", "attach"}
  /\ OpAt["feedback"] = "feedback" /\ OpAt["put"] = "spec"
  /\ OpAt["link"] = "link" /\ OpAt["attach"] = "attachment"
  BY DEF OpAt

LEMMA SendIsTyped ==
  ASSUME TypeOK, NEW i \in Inv, NEW fate, pc[i] \in DOMAIN OpAt, Send(i, fate)
  PROVE  /\ calls' \in [Inv -> Nat]
         /\ applied' \subseteq Request
         /\ inflight' \subseteq Request
         /\ today' = today
<1> DEFINE r == [op |-> OpAt[pc[i]], by |-> i, key |-> key[i], n |-> calls[i]]
<1>1. OpAt[pc[i]] \in Ops
  BY OpAtIs DEF Ops
<1>2. r \in Request
  BY <1>1 DEF Request, TypeOK
<1>3. /\ calls' = [calls EXCEPT ![i] = @ + 1]
      /\ applied' = applied \/ applied' = applied \cup {r}
      /\ inflight' = inflight \/ inflight' = inflight \cup {r}
      /\ today' = today
  BY DEF Send
<1> HIDE DEF r
<1> QED
  BY <1>2, <1>3 DEF TypeOK

LEMMA InitTypeOK == Init => TypeOK
  BY OrchestratorAssumption DEF Init, TypeOK, Stages, Days

LEMMA NextTypeOK == TypeOK /\ [Next]_vars => TypeOK'
<1> SUFFICES ASSUME TypeOK, [Next]_vars PROVE TypeOK'
  OBVIOUS
<1> USE DEF TypeOK, Stages, Answers
<1>1. ASSUME NEW i \in Inv, Arrive(i) PROVE TypeOK'
  <2>1. ASSUME NEW answer \in {"server_error", "raised"}, Refuse(i, answer) PROVE TypeOK'
    BY <2>1 DEF Refuse, Return, NoRequest
  <2>2. ASSUME NEW e \in Events, Reject(i, e) PROVE TypeOK'
    <3>1. Intake(e) \in Answers
      BY <2>2, IntakeIsAnswer DEF Reject
    <3> QED
      BY <2>2, <3>1 DEF Reject, Return, NoRequest
  <2>3. ASSUME NEW e \in Events, Accept(i, e) PROVE TypeOK'
    BY <2>3 DEF Accept, Goto, NoRequest
  <2> QED
    BY <1>1, <2>1, <2>2, <2>3 DEF Arrive
<1>2. ASSUME NEW i \in Inv, Evaluate(i) PROVE TypeOK'
  <2>1. PICK e \in Evaluations : \E result \in BuildPhase1Result(e, Threshold) :
            /\ phase1' = [phase1 EXCEPT ![i] = result]
            /\ Goto(i, IF result.passed THEN "phase2" ELSE "feedback")
    BY <1>2 DEF Evaluate
  <2>2. PICK result \in BuildPhase1Result(e, Threshold) :
            /\ phase1' = [phase1 EXCEPT ![i] = result]
            /\ Goto(i, IF result.passed THEN "phase2" ELSE "feedback")
    BY <2>1
  <2>3. result \in Phase1Result
    BY ResultIsTyped
  <2> QED
    BY <1>2, <2>2, <2>3 DEF Evaluate, Goto, NoRequest
<1>3. ASSUME NEW i \in Inv, PhaseFails(i) \/ PhaseCancelled(i) PROVE TypeOK'
  BY <1>3 DEF PhaseFails, PhaseCancelled, Return, NoRequest
<1>4. ASSUME NEW i \in Inv, Generate(i) PROVE TypeOK'
  <2>1. PICK d \in Documents : document' = [document EXCEPT ![i] = d]
    BY <1>4 DEF Generate, Documents
  <2> QED
    BY <1>4, <2>1 DEF Generate, Goto, NoRequest
<1>5. ASSUME NEW i \in Inv, RejectStoryId(i) \/ Presign(i) \/ PresignFails(i)
      PROVE  TypeOK'
  BY <1>5 DEF RejectStoryId, Presign, PresignFails, Return, Goto, NoRequest
<1>6. ASSUME NEW i \in Inv, BuildKey(i) PROVE TypeOK'
  <2>1. <<event[i].issue, today>> \in Keys
    BY <1>6 DEF BuildKey, Keys
  <2> QED
    BY <1>6, <2>1, OrchestratorAssumption DEF BuildKey, Goto, NoRequest
<1>7. ASSUME NEW i \in Inv, PutStored(i) \/ PutTransient(i) \/ PutFatal(i)
      PROVE  TypeOK'
  <2>1. pc[i] \in DOMAIN OpAt /\ \E fate : Send(i, fate)
    BY <1>7, OpAtIs DEF PutStored, PutTransient, PutFatal
  <2>2. /\ calls' \in [Inv -> Nat]
        /\ applied' \subseteq Request /\ inflight' \subseteq Request
        /\ today' = today
    BY <2>1, SendIsTyped
  <2>3. UNCHANGED <<event, phase1, document, key>>
    BY <1>7 DEF PutStored, PutTransient, PutFatal
  <2>4. /\ pc' \in [Inv -> Stages] /\ response' \in [Inv -> Answers \cup {None}]
        /\ attempt' \in [Inv -> 0 .. MaxAttempts - 1]
    BY <1>7, OrchestratorAssumption
       DEF PutStored, PutTransient, PutFatal, RetryOrGiveUp, Goto, Return
  <2> QED
    BY <2>2, <2>3, <2>4
<1>8. ASSUME NEW i \in Inv, Feedback(i) \/ Link(i) \/ Attach(i) PROVE TypeOK'
  <2>1. pc[i] \in DOMAIN OpAt /\ \E fate : Send(i, fate)
    BY <1>8, OpAtIs DEF Feedback, Link, Attach, JiraReturns, JiraRaises
  <2>2. /\ calls' \in [Inv -> Nat]
        /\ applied' \subseteq Request /\ inflight' \subseteq Request
        /\ today' = today
    BY <2>1, SendIsTyped
  <2>3. UNCHANGED <<event, phase1, document, key, attempt>>
    BY <1>8 DEF Feedback, Link, Attach
  <2>4. pc' \in [Inv -> Stages] /\ response' \in [Inv -> Answers \cup {None}]
    BY <1>8 DEF Feedback, Link, Attach, Goto, Return
  <2> QED
    BY <2>2, <2>3, <2>4
<1>9. ASSUME NEW i \in Inv, Kill(i) PROVE TypeOK'
  <2>1. /\ UNCHANGED <<event, phase1, document, key, attempt>>
        /\ pc' \in [Inv -> Stages] /\ response' \in [Inv -> Answers \cup {None}]
    BY <1>9 DEF Kill, Return
  <2>2. CASE NoRequest
    BY <2>1, <2>2 DEF NoRequest
  <2>3. CASE pc[i] \in DOMAIN OpAt /\ Send(i, "lost")
    <3>1. /\ calls' \in [Inv -> Nat]
          /\ applied' \subseteq Request /\ inflight' \subseteq Request
          /\ today' = today
      BY <2>3, SendIsTyped
    <3> QED
      BY <2>1, <3>1
  <2> QED
    BY <1>9, <2>2, <2>3 DEF Kill
<1>10. ASSUME NEW r \in inflight, Land(r) PROVE TypeOK'
  BY <1>10 DEF Land
<1>11. CASE NextDay
  BY <1>11, OrchestratorAssumption DEF NextDay, Days
<1>12. CASE UNCHANGED vars
  BY <1>12 DEF vars
<1> QED
  BY <1>1, <1>2, <1>3, <1>4, <1>5, <1>6, <1>7, <1>8, <1>9, <1>10, <1>11, <1>12
     DEF Next, Step, Upload

\* The variables hold what their declarations say.
THEOREM TypeCorrect == Spec => []TypeOK
  BY InitTypeOK, NextTypeOK, PTL DEF Spec

----------------------------------------------------------------------------
(* The inductive invariant                                                 *)

PastGate == {"phase2", "upload", "put", "presign", "link", "attach"}
PastWriter == PastGate \ {"phase2"}
PastKey == {"put", "presign", "link", "attach"}
PastPut == {"presign", "link", "attach"}

\* The object invocation i uploaded is in the bucket.
Stored(i) == \E s \in applied : s.op = "spec" /\ s.by = i /\ s.key = key[i]

\* What an invocation knows at each of its calls.
LocalInv(i) ==
    /\ pc[i] \notin {"idle", "done"} =>
          event[i] \in Events /\ Intake(event[i]) = "accepted"
    /\ pc[i] = "feedback" => phase1[i].composite < Threshold
    /\ pc[i] \in PastGate =>
          /\ phase1[i] \in Phase1Result
          /\ phase1[i].passed /\ phase1[i].composite >= Threshold
    /\ pc[i] \in PastWriter => document[i].kind = "spec"
    /\ pc[i] \in PastKey => key[i][1] = event[i].issue /\ key[i][1] \in StoryIds
    /\ pc[i] \in PastPut => Stored(i)
    /\ response[i] = None <=> pc[i] # "done"

\* The number of requests made at each call: the retry loop counts its own.
CountInv(i) ==
    /\ pc[i] \notin PastKey \cup {"done"} => calls[i] = 0
    /\ pc[i] = "put" => calls[i] = attempt[i]
    /\ pc[i] \in {"presign", "link"} => calls[i] <= MaxAttempts
    /\ pc[i] = "attach" => calls[i] <= MaxAttempts + 1
    /\ calls[i] <= MaxAttempts + 2

\* The requests an invocation may have made when it is at a stage.
MadeAt(stage) ==
    IF stage \in {"put", "presign", "link"} THEN {"spec"}
    ELSE IF stage = "attach" THEN {"spec", "link"}
    ELSE IF stage = "done" THEN Ops ELSE {}

\* Every request on record, carried out or not, was justified.
Justified(r) ==
    /\ r.op \in MadeAt(pc[r.by])
    /\ event[r.by] \in Events /\ Intake(event[r.by]) = "accepted"
    /\ r.op = "feedback" => phase1[r.by].composite < Threshold
    /\ r.op # "feedback" =>
          /\ phase1[r.by].composite >= Threshold
          /\ document[r.by].kind = "spec"
          /\ r.key = key[r.by]
          /\ key[r.by][1] = event[r.by].issue /\ key[r.by][1] \in StoryIds
    /\ r.op \in {"link", "attachment"} => Stored(r.by)

IInv ==
    /\ TypeOK
    /\ \A i \in Inv : LocalInv(i) /\ CountInv(i)
    /\ \A r \in Requests : Justified(r)
    /\ JiraWrittenOnce

\* What a step of invocation i leaves alone.
Others(i) == \A j \in Inv \ {i} :
    /\ pc'[j] = pc[j] /\ event'[j] = event[j] /\ phase1'[j] = phase1[j]
    /\ document'[j] = document[j] /\ key'[j] = key[j] /\ attempt'[j] = attempt[j]
    /\ calls'[j] = calls[j] /\ response'[j] = response[j]

LEMMA OthersKeep ==
  ASSUME IInv, NEW i \in Inv, Others(i), applied \subseteq applied',
         NEW j \in Inv, j # i
  PROVE  /\ LocalInv(j)' /\ CountInv(j)'
         /\ \A r \in Requests : r.by = j => Justified(r)'
<1> /\ pc'[j] = pc[j] /\ event'[j] = event[j] /\ phase1'[j] = phase1[j]
    /\ document'[j] = document[j] /\ key'[j] = key[j] /\ attempt'[j] = attempt[j]
    /\ calls'[j] = calls[j] /\ response'[j] = response[j]
  BY DEF Others
<1>1. Stored(j) => Stored(j)'
  BY DEF Stored
<1>2. LocalInv(j)'
  BY <1>1 DEF IInv, LocalInv
<1>3. CountInv(j)'
  BY DEF IInv, CountInv
<1>4. ASSUME NEW r \in Requests, r.by = j PROVE Justified(r)'
  <2>1. Justified(r)
    BY DEF IInv
  <2> QED
    BY <1>1, <1>4, <2>1 DEF Justified
<1> QED
  BY <1>2, <1>3, <1>4

LEMMA RequestsTyped ==
  ASSUME TypeOK, NEW r \in Requests
  PROVE  r.by \in Inv /\ r.op \in Ops
  BY DEF TypeOK, Requests, Request

\* A step that makes no request keeps the invariant if it keeps the parts of
\* its own invocation.
LEMMA QuietStep ==
  ASSUME IInv, TypeOK', NEW i \in Inv, Others(i), NoRequest,
         LocalInv(i)', CountInv(i)',
         \A r \in Requests : r.by = i => Justified(r)'
  PROVE  IInv'
<1>1. Requests' = Requests /\ applied' = applied
  BY DEF NoRequest, Requests
<1>2. ASSUME NEW j \in Inv PROVE LocalInv(j)' /\ CountInv(j)'
  BY <1>1, OthersKeep
<1>3. ASSUME NEW r \in Requests' PROVE Justified(r)'
  <2>1. r \in Requests /\ r.by \in Inv
    BY <1>1, RequestsTyped DEF IInv
  <2> QED
    BY <1>1, <2>1, OthersKeep
<1>4. JiraWrittenOnce'
  BY <1>1 DEF IInv, JiraWrittenOnce
<1> QED
  BY <1>2, <1>3, <1>4 DEF IInv

\* A step that makes a request: the request it adds is justified by the call it
\* is made at, and no other one by the same invocation is of its kind, unless
\* it is an upload.
LEMMA SendStep ==
  ASSUME IInv, TypeOK', NEW i \in Inv, Others(i),
         NEW fate, pc[i] \in DOMAIN OpAt, Send(i, fate),
         UNCHANGED <<event, phase1, document, key>>,
         LocalInv(i)', CountInv(i)',
         MadeAt(pc[i]) \cup {OpAt[pc[i]]} \subseteq MadeAt(pc'[i])
  PROVE  IInv'
<1> DEFINE new == [op |-> OpAt[pc[i]], by |-> i, key |-> key[i], n |-> calls[i]]
<1>1. /\ applied \subseteq applied'
      /\ Requests' \subseteq Requests \cup {new}
  BY DEF Send, Requests
<1>2. new.op = OpAt[pc[i]] /\ new.by = i /\ new.key = key[i]
  OBVIOUS
<1> HIDE DEF new
<1>3. ASSUME NEW j \in Inv PROVE LocalInv(j)' /\ CountInv(j)'
  BY <1>1, OthersKeep
<1>4. Stored(i) => Stored(i)'
  BY <1>1 DEF Stored
<1>5. ASSUME NEW r \in Requests, r.by = i PROVE Justified(r)'
  <2>1. Justified(r)
    BY DEF IInv
  <2> QED
    BY <1>4, <1>5, <2>1 DEF Justified
<1>6. ASSUME NEW q, q = new PROVE Justified(q)'
  <2>0. q.op = OpAt[pc[i]] /\ q.by = i /\ q.key = key[i]
    BY <1>2, <1>6
  <2>1. LocalInv(i)
    BY DEF IInv
  <2>2. q.op \in MadeAt(pc'[i])
    BY <2>0
  <2>3. CASE pc[i] = "feedback"
    BY <2>0, <2>1, <2>2, <2>3, OpAtIs DEF LocalInv, Justified
  <2>4. CASE pc[i] = "put"
    BY <2>0, <2>1, <2>2, <2>4, OpAtIs
       DEF LocalInv, Justified, PastGate, PastWriter, PastKey
  <2>5. CASE pc[i] \in {"link", "attach"}
    BY <2>0, <1>4, <2>1, <2>2, <2>5, OpAtIs
       DEF LocalInv, Justified, PastGate, PastWriter, PastKey, PastPut
  <2> QED
    BY <2>3, <2>4, <2>5, OpAtIs
<1>7. ASSUME NEW r \in Requests' PROVE Justified(r)'
  <2>1. r = new \/ (r \in Requests /\ r.by \in Inv)
    BY <1>1, RequestsTyped DEF IInv
  <2> QED
    BY <1>1, <1>5, <1>6, <2>1, OthersKeep
<1>8. ASSUME NEW r \in Requests, r.by = i, r.op = new.op PROVE r.op = "spec"
  <2>1. r.op \in MadeAt(pc[i])
    BY <1>8 DEF IInv, Justified
  <2> QED
    BY <1>2, <1>8, <2>1, OpAtIs DEF MadeAt
<1>9. JiraWrittenOnce'
  <2> SUFFICES ASSUME NEW r \in Requests', NEW s \in Requests',
                      r.by = s.by, r.op = s.op, r.op # "spec"
               PROVE  r = s
    BY DEF JiraWrittenOnce
  <2>1. CASE r \in Requests /\ s \in Requests
    BY <2>1 DEF IInv, JiraWrittenOnce
  <2>2. CASE r = new \/ s = new
    BY <1>1, <1>2, <1>8, <2>2
  <2> QED
    BY <1>1, <2>1, <2>2
<1> QED
  BY <1>3, <1>7, <1>9 DEF IInv

LEMMA NoRequestYet ==
  ASSUME IInv, NEW r \in Requests, MadeAt(pc[r.by]) = {}
  PROVE  FALSE
  BY DEF IInv, Justified

LEMMA InitIInv == Init => IInv
<1> SUFFICES ASSUME Init PROVE IInv
  OBVIOUS
<1>1. TypeOK
  BY InitTypeOK
<1>2. Requests = {}
  BY DEF Init, Requests
<1>3. ASSUME NEW i \in Inv PROVE LocalInv(i) /\ CountInv(i)
  BY OrchestratorAssumption, NoneAssumption
     DEF Init, LocalInv, CountInv, PastGate, PastWriter, PastKey, PastPut
<1> QED
  BY <1>1, <1>2, <1>3 DEF IInv, JiraWrittenOnce

\* Arrival.
LEMMA ArriveIInv == ASSUME IInv, TypeOK', NEW i \in Inv, Arrive(i) PROVE IInv'
<1>0. \/ \E answer \in {"server_error", "raised"} : Refuse(i, answer)
      \/ \E e \in Events : Reject(i, e)
      \/ \E e \in Events : Accept(i, e)
  BY DEF Arrive
<1>1. /\ pc[i] = "idle" /\ Others(i) /\ NoRequest
      /\ UNCHANGED <<phase1, document, key, attempt>>
  <2> USE DEF Others, NoRequest, IInv, TypeOK
  <2>1. CASE \E answer \in {"server_error", "raised"} : Refuse(i, answer)
    BY <2>1 DEF Refuse, Return
  <2>2. CASE \E e \in Events : Reject(i, e)
    BY <2>2 DEF Reject, Return
  <2>3. CASE \E e \in Events : Accept(i, e)
    BY <2>3 DEF Accept, Goto
  <2> QED
    BY <1>0, <2>1, <2>2, <2>3
<1>2. \A r \in Requests : r.by = i => Justified(r)'
  BY <1>1, NoRequestYet DEF MadeAt
<1>3. response[i] = None /\ calls[i] = 0
  BY <1>1 DEF IInv, LocalInv, CountInv, PastKey
<1>4. calls'[i] = 0
  BY <1>1, <1>3 DEF NoRequest
<1>5. CASE pc'[i] = "done"
  <2>1. response'[i] \in Answers
    BY <1>5, IntakeIsAnswer
       DEF Arrive, Refuse, Reject, Accept, Return, Goto, Answers, IInv, TypeOK
  <2>2. LocalInv(i)' /\ CountInv(i)'
    BY <1>4, <1>5, <2>1, NoneAssumption, OrchestratorAssumption
       DEF LocalInv, CountInv, PastGate, PastWriter, PastKey, PastPut
  <2> QED
    BY <1>1, <1>2, <2>2, QuietStep
<1>6. CASE pc'[i] # "done"
  <2>1. PICK e \in Events : Accept(i, e)
    BY <1>6 DEF Arrive, Refuse, Reject, Return, IInv, TypeOK
  <2>2. /\ pc'[i] = "phase1" /\ event'[i] = e /\ Intake(e) = "accepted"
        /\ response' = response
    BY <2>1 DEF Accept, Goto, IInv, TypeOK
  <2>3. LocalInv(i)' /\ CountInv(i)'
    BY <1>3, <1>4, <2>2, OrchestratorAssumption
       DEF LocalInv, CountInv, PastGate, PastWriter, PastKey, PastPut
  <2> QED
    BY <1>1, <1>2, <2>3, QuietStep
<1> QED
  BY <1>5, <1>6

\* A step that ends the invocation without a request.
LEMMA EndsQuietly ==
  ASSUME IInv, TypeOK', NEW i \in Inv, NEW v \in Answers,
         Return(i, v), NoRequest,
         UNCHANGED <<event, phase1, document, key, attempt>>
  PROVE  IInv'
<1>1. Others(i) /\ pc'[i] = "done" /\ response'[i] = v
  BY DEF Others, Return, NoRequest, IInv, TypeOK
<1>2. ASSUME NEW r \in Requests, r.by = i PROVE Justified(r)'
  <2>1. Justified(r) /\ r.op \in Ops
    BY RequestsTyped DEF IInv
  <2>2. Stored(i) => Stored(i)'
    BY DEF Stored, NoRequest
  <2> QED
    BY <1>1, <1>2, <2>1, <2>2 DEF Justified, MadeAt
<1>3. LocalInv(i)'
  BY <1>1, NoneAssumption DEF LocalInv, PastGate, PastWriter, PastKey, PastPut
<1>4. CountInv(i)'
  BY <1>1 DEF NoRequest, IInv, CountInv, PastKey
<1> QED
  BY <1>1, <1>2, <1>3, <1>4, QuietStep

\* A step that ends the invocation with a request.
LEMMA EndsWithRequest ==
  ASSUME IInv, TypeOK', NEW i \in Inv, NEW v \in Answers, NEW fate,
         pc[i] \in DOMAIN OpAt, Return(i, v), Send(i, fate),
         UNCHANGED <<event, phase1, document, key, attempt>>
  PROVE  IInv'
<1>1. Others(i) /\ pc'[i] = "done" /\ response'[i] = v /\ calls'[i] = calls[i] + 1
  BY DEF Others, Return, Send, IInv, TypeOK
<1>2. LocalInv(i)'
  BY <1>1, NoneAssumption DEF LocalInv, PastGate, PastWriter, PastKey, PastPut
<1>3. attempt[i] \in 0 .. MaxAttempts - 1 /\ calls[i] \in Nat
  BY DEF IInv, TypeOK
<1>4. calls[i] <= MaxAttempts + 1
  BY <1>3, OpAtIs, OrchestratorAssumption DEF IInv, CountInv, PastKey
<1>5. CountInv(i)'
  BY <1>1, <1>3, <1>4, OrchestratorAssumption DEF CountInv, PastKey
<1>6. MadeAt(pc[i]) \cup {OpAt[pc[i]]} \subseteq MadeAt(pc'[i])
  BY <1>1, OpAtIs DEF MadeAt, Ops
<1> QED
  BY <1>1, <1>2, <1>5, <1>6, SendStep

\* The two phases.
LEMMA EvaluateIInv == ASSUME IInv, TypeOK', NEW i \in Inv, Evaluate(i) PROVE IInv'
<1>1. PICK e \in Evaluations : \E result \in BuildPhase1Result(e, Threshold) :
          /\ phase1' = [phase1 EXCEPT ![i] = result]
          /\ Goto(i, IF result.passed THEN "phase2" ELSE "feedback")
  BY DEF Evaluate
<1>2. PICK result \in BuildPhase1Result(e, Threshold) :
          /\ phase1' = [phase1 EXCEPT ![i] = result]
          /\ Goto(i, IF result.passed THEN "phase2" ELSE "feedback")
  BY <1>1
<1>3. /\ result \in Phase1Result
      /\ result.passed => result.composite >= Threshold
      /\ ~result.passed => result.composite < Threshold
  BY ResultIsTyped
<1>4. /\ pc[i] = "phase1" /\ NoRequest /\ UNCHANGED <<event, document, key, attempt>>
      /\ phase1'[i] = result /\ response' = response
      /\ pc'[i] = IF result.passed THEN "phase2" ELSE "feedback"
      /\ Others(i)
  BY <1>2 DEF Evaluate, Goto, NoRequest, Others, IInv, TypeOK
<1>5. LocalInv(i)'
  BY <1>3, <1>4 DEF IInv, LocalInv, PastGate, PastWriter, PastKey, PastPut
<1>6. CountInv(i)'
  BY <1>4 DEF IInv, CountInv, PastKey, NoRequest
<1>7. \A r \in Requests : r.by = i => Justified(r)'
  BY <1>4, NoRequestYet DEF MadeAt
<1> QED
  BY <1>4, <1>5, <1>6, <1>7, QuietStep

LEMMA GenerateIInv == ASSUME IInv, TypeOK', NEW i \in Inv, Generate(i) PROVE IInv'
<1>1. /\ pc[i] = "phase2" /\ NoRequest /\ UNCHANGED <<event, phase1, key, attempt>>
      /\ pc'[i] = "upload" /\ response' = response /\ Others(i)
  BY DEF Generate, Goto, NoRequest, Others, IInv, TypeOK
<1>2. /\ phase1[i] \in Phase1Result
      /\ phase1[i].passed /\ phase1[i].composite >= Threshold
  BY <1>1 DEF IInv, LocalInv, PastGate
<1>3. GateOpen(i)
  <2>1. phase1[i].composite \in Int
    BY <1>2, HundredthsAreInts DEF Phase1Result
  <2> DEFINE c == phase1[i].composite
  <2>2. ~(c < Threshold)
    <3> HIDE DEF c
    <3>1. c \in Int /\ c >= Threshold
      BY <1>2, <2>1 DEF c
    <3> QED
      BY <3>1, OrchestratorAssumption
  <2> QED
    BY <1>2, <2>2 DEF GateOpen
<1>4. document'[i].kind = "spec"
  BY <1>3 DEF Generate, IInv, TypeOK
<1>5. LocalInv(i)'
  BY <1>1, <1>2, <1>4 DEF IInv, LocalInv, PastGate, PastWriter, PastKey, PastPut
<1>6. CountInv(i)'
  BY <1>1 DEF IInv, CountInv, PastKey, NoRequest
<1>7. \A r \in Requests : r.by = i => Justified(r)'
  BY <1>1, NoRequestYet DEF MadeAt
<1> QED
  BY <1>1, <1>5, <1>6, <1>7, QuietStep

\* The upload and the URL.
LEMMA BuildKeyIInv == ASSUME IInv, TypeOK', NEW i \in Inv, BuildKey(i) PROVE IInv'
<1>1. /\ pc[i] = "upload" /\ NoRequest /\ UNCHANGED <<event, phase1, document>>
      /\ pc'[i] = "put" /\ response' = response /\ Others(i)
      /\ key'[i] = <<event[i].issue, today>> /\ attempt'[i] = 0
      /\ event[i].issue \in StoryIds
  BY DEF BuildKey, Goto, NoRequest, Others, IInv, TypeOK
<1>2. LocalInv(i)'
  BY <1>1 DEF IInv, LocalInv, PastGate, PastWriter, PastKey, PastPut
<1>3. CountInv(i)'
  BY <1>1 DEF IInv, CountInv, PastKey, NoRequest
<1>4. \A r \in Requests : r.by = i => Justified(r)'
  BY <1>1, NoRequestYet DEF MadeAt
<1> QED
  BY <1>1, <1>2, <1>3, <1>4, QuietStep

LEMMA PresignIInv == ASSUME IInv, TypeOK', NEW i \in Inv, Presign(i) PROVE IInv'
<1>1. /\ pc[i] = "presign" /\ NoRequest
      /\ UNCHANGED <<event, phase1, document, key, attempt>>
      /\ pc'[i] = "link" /\ response' = response /\ Others(i)
  BY DEF Presign, Goto, NoRequest, Others, IInv, TypeOK
<1>2. Stored(i) => Stored(i)'
  BY <1>1 DEF Stored, NoRequest
<1>3. LocalInv(i)'
  BY <1>1, <1>2 DEF IInv, LocalInv, PastGate, PastWriter, PastKey, PastPut
<1>4. CountInv(i)'
  BY <1>1 DEF IInv, CountInv, PastKey, NoRequest
<1>5. ASSUME NEW r \in Requests, r.by = i PROVE Justified(r)'
  <2>1. Justified(r)
    BY DEF IInv
  <2> QED
    BY <1>1, <1>2, <1>5, <2>1 DEF Justified, MadeAt
<1> QED
  BY <1>1, <1>3, <1>4, <1>5, QuietStep

LEMMA PutStoredIInv == ASSUME IInv, TypeOK', NEW i \in Inv, PutStored(i) PROVE IInv'
<1>1. /\ pc[i] = "put" /\ Send(i, "carriedOut")
      /\ UNCHANGED <<event, phase1, document, key, attempt>>
      /\ pc'[i] = "presign" /\ response' = response
      /\ calls'[i] = calls[i] + 1 /\ Others(i)
  BY DEF PutStored, Send, Goto, Others, IInv, TypeOK
<1>2. Stored(i)'
  <2> DEFINE new == [op |-> OpAt[pc[i]], by |-> i, key |-> key[i], n |-> calls[i]]
  <2>1. new \in applied' /\ new.op = "spec" /\ new.by = i /\ new.key = key'[i]
    BY <1>1, OpAtIs DEF Send
  <2> HIDE DEF new
  <2> QED
    BY <2>1 DEF Stored
<1>3. LocalInv(i)'
  BY <1>1, <1>2 DEF IInv, LocalInv, PastGate, PastWriter, PastKey, PastPut
<1>4. attempt[i] \in 0 .. MaxAttempts - 1 /\ calls[i] = attempt[i]
  BY <1>1 DEF IInv, TypeOK, CountInv
<1>5. CountInv(i)'
  BY <1>1, <1>4, OrchestratorAssumption DEF CountInv, PastKey
<1>6. pc[i] \in DOMAIN OpAt /\ MadeAt(pc[i]) \cup {OpAt[pc[i]]} \subseteq MadeAt(pc'[i])
  BY <1>1, OpAtIs DEF MadeAt
<1> QED
  BY <1>1, <1>3, <1>5, <1>6, SendStep

LEMMA PutTransientIInv ==
  ASSUME IInv, TypeOK', NEW i \in Inv, PutTransient(i) PROVE IInv'
<1>1. PICK fate : Send(i, fate)
  BY DEF PutTransient
<1>2. /\ pc[i] = "put" /\ UNCHANGED <<event, phase1, document, key>> /\ RetryOrGiveUp(i)
  BY DEF PutTransient
<1>3. pc[i] \in DOMAIN OpAt
  BY <1>2, OpAtIs
<1>4. CASE attempt[i] >= MaxAttempts - 1
  <2>1. Return(i, "server_error") /\ UNCHANGED attempt
    BY <1>2, <1>4 DEF RetryOrGiveUp
  <2>2. "server_error" \in Answers
    BY DEF Answers
  <2> QED
    BY <1>1, <1>2, <1>3, <2>1, <2>2, EndsWithRequest
<1>5. CASE ~(attempt[i] >= MaxAttempts - 1)
  <2>1. /\ pc' = pc /\ response' = response
        /\ attempt' = [attempt EXCEPT ![i] = @ + 1]
    BY <1>2, <1>5 DEF RetryOrGiveUp
  <2>2. /\ Others(i) /\ calls'[i] = calls[i] + 1 /\ attempt'[i] = attempt[i] + 1
    BY <1>1, <1>2, <2>1 DEF Others, Send, IInv, TypeOK
  <2>3. LocalInv(i)'
    BY <1>2, <2>1 DEF IInv, LocalInv, PastGate, PastWriter, PastKey, PastPut
  <2>4. attempt'[i] \in 0 .. MaxAttempts - 1 /\ calls[i] = attempt[i]
    BY <1>2 DEF IInv, TypeOK, CountInv
  <2>5. CountInv(i)'
    BY <1>2, <2>1, <2>2, <2>4, OrchestratorAssumption DEF CountInv, PastKey
  <2>6. MadeAt(pc[i]) \cup {OpAt[pc[i]]} \subseteq MadeAt(pc'[i])
    BY <1>2, <2>1, OpAtIs DEF MadeAt
  <2> QED
    BY <1>1, <1>2, <1>3, <2>2, <2>3, <2>5, <2>6, SendStep
<1> QED
  BY <1>4, <1>5

\* The comment with the link: the only Jira call that is followed by another.
LEMMA LinkIInv == ASSUME IInv, TypeOK', NEW i \in Inv, Link(i) PROVE IInv'
<1>1. /\ pc[i] = "link" /\ UNCHANGED <<event, phase1, document, key, attempt>>
      /\ pc[i] \in DOMAIN OpAt
  BY OpAtIs DEF Link
<1>2. CASE JiraRaises(i) /\ Return(i, "server_error")
  <2>1. PICK fate : Send(i, fate)
    BY <1>2 DEF JiraRaises
  <2>2. "server_error" \in Answers
    BY DEF Answers
  <2> QED
    BY <1>1, <1>2, <2>1, <2>2, EndsWithRequest
<1>3. CASE JiraReturns(i) /\ Goto(i, "attach")
  <2>1. PICK fate : Send(i, fate)
    BY <1>3 DEF JiraReturns
  <2>2. /\ pc'[i] = "attach" /\ response' = response
        /\ calls'[i] = calls[i] + 1 /\ Others(i) /\ applied \subseteq applied'
    BY <1>1, <1>3, <2>1 DEF Goto, Send, Others, IInv, TypeOK
  <2>3. Stored(i) => Stored(i)'
    BY <1>1, <2>2 DEF Stored
  <2>4. LocalInv(i)'
    BY <1>1, <2>2, <2>3 DEF IInv, LocalInv, PastGate, PastWriter, PastKey, PastPut
  <2>5. calls[i] \in Nat /\ calls[i] <= MaxAttempts
    BY <1>1 DEF IInv, TypeOK, CountInv
  <2>6. CountInv(i)'
    BY <2>2, <2>5, OrchestratorAssumption DEF CountInv, PastKey
  <2>7. MadeAt(pc[i]) \cup {OpAt[pc[i]]} \subseteq MadeAt(pc'[i])
    BY <1>1, <2>2, OpAtIs DEF MadeAt
  <2> QED
    BY <1>1, <2>1, <2>2, <2>4, <2>6, <2>7, SendStep
<1> QED
  BY <1>2, <1>3 DEF Link

\* The other steps of the code all end the invocation.
LEMMA EndingIInv ==
  ASSUME IInv, TypeOK', NEW i \in Inv,
         \/ PhaseFails(i) \/ PhaseCancelled(i) \/ RejectStoryId(i) \/ PresignFails(i)
         \/ PutFatal(i) \/ Feedback(i) \/ Attach(i) \/ Kill(i)
  PROVE  IInv'
<1>1. Answers = {"gate_failed", "spec_generated", "bad_request", "unauthorized",
                 "server_error", "raised", "timed_out"}
  BY DEF Answers
<1>2. CASE PhaseFails(i) \/ RejectStoryId(i) \/ PresignFails(i)
  BY <1>1, <1>2, EndsQuietly DEF PhaseFails, RejectStoryId, PresignFails
<1>3. CASE PhaseCancelled(i)
  BY <1>1, <1>3, EndsQuietly DEF PhaseCancelled
<1>4. CASE PutFatal(i)
  <2>1. pc[i] \in DOMAIN OpAt
    BY <1>4, OpAtIs DEF PutFatal
  <2> QED
    BY <1>1, <1>4, <2>1, EndsWithRequest DEF PutFatal
<1>5. CASE Feedback(i) \/ Attach(i)
  <2>1. pc[i] \in DOMAIN OpAt /\ UNCHANGED <<event, phase1, document, key, attempt>>
    BY <1>5, OpAtIs DEF Feedback, Attach
  <2>2. PICK v \in Answers : Return(i, v)
    BY <1>1, <1>5 DEF Feedback, Attach
  <2>3. PICK fate : Send(i, fate)
    BY <1>5 DEF Feedback, Attach, JiraReturns, JiraRaises
  <2> QED
    BY <2>1, <2>2, <2>3, EndsWithRequest
<1>6. CASE Kill(i)
  <2>1. /\ Return(i, "timed_out") /\ "timed_out" \in Answers
        /\ UNCHANGED <<event, phase1, document, key, attempt>>
    BY <1>1, <1>6 DEF Kill
  <2>2. CASE NoRequest
    BY <2>1, <2>2, EndsQuietly
  <2>3. CASE pc[i] \in DOMAIN OpAt /\ Send(i, "lost")
    BY <2>1, <2>3, EndsWithRequest
  <2> QED
    BY <1>6, <2>2, <2>3 DEF Kill
<1> QED
  BY <1>2, <1>3, <1>4, <1>5, <1>6

\* Steps of the network and of the clock: no invocation moves, and a request
\* that lands was on record before.
LEMMA WorldIInv ==
  ASSUME IInv, TypeOK', applied \subseteq applied', Requests' \subseteq Requests,
         UNCHANGED <<pc, event, phase1, document, key, attempt, calls, response>>
  PROVE  IInv'
<1>1. ASSUME NEW i \in Inv PROVE Stored(i) => Stored(i)'
  BY DEF Stored
<1>2. ASSUME NEW i \in Inv PROVE LocalInv(i)' /\ CountInv(i)'
  BY <1>1 DEF IInv, LocalInv, CountInv
<1>3. ASSUME NEW r \in Requests' PROVE Justified(r)'
  <2>1. Justified(r) /\ r.by \in Inv
    BY RequestsTyped DEF IInv
  <2> QED
    BY <1>1, <2>1 DEF Justified
<1>4. JiraWrittenOnce'
  BY DEF IInv, JiraWrittenOnce
<1> QED
  BY <1>2, <1>3, <1>4 DEF IInv

LEMMA NextIInv == IInv /\ [Next]_vars => IInv'
<1> SUFFICES ASSUME IInv, [Next]_vars PROVE IInv'
  OBVIOUS
<1>1. TypeOK'
  BY NextTypeOK DEF IInv
<1>2. ASSUME NEW i \in Inv, Arrive(i) PROVE IInv'
  BY <1>1, <1>2, ArriveIInv
<1>3. ASSUME NEW i \in Inv, Step(i) \/ Kill(i) PROVE IInv'
  BY <1>1, <1>3, EvaluateIInv, GenerateIInv, BuildKeyIInv, PresignIInv, PutStoredIInv,
     PutTransientIInv, LinkIInv, EndingIInv DEF Step, Upload
<1>4. ASSUME NEW r \in inflight, Land(r) PROVE IInv'
  <2>1. applied \subseteq applied' /\ Requests' \subseteq Requests
    BY <1>4 DEF Land, Requests
  <2> QED
    BY <1>1, <1>4, <2>1, WorldIInv DEF Land
<1>5. CASE NextDay
  BY <1>1, <1>5, WorldIInv DEF NextDay, Requests
<1>6. CASE UNCHANGED vars
  BY <1>1, <1>6, WorldIInv DEF vars, Requests
<1> QED
  BY <1>2, <1>3, <1>4, <1>5, <1>6 DEF Next

\* The inductive invariant holds in every reachable state.
THEOREM Invariance == Spec => []IInv
  BY InitIInv, NextIInv, PTL DEF Spec

----------------------------------------------------------------------------
(* The safety properties                                                   *)

\* A link or an attachment in Jira goes with an object in the bucket.
THEOREM NoDanglingLink == Spec => []LinkedSpecExists
<1>1. IInv => LinkedSpecExists
  <2> SUFFICES ASSUME IInv, NEW r \in applied, r.op \in {"link", "attachment"}
               PROVE  \E s \in applied : s.op = "spec" /\ s.by = r.by /\ s.key = r.key
    BY DEF LinkedSpecExists
  <2>1. Justified(r)
    BY DEF IInv, Requests
  <2> QED
    BY <2>1 DEF Justified, Stored
<1> QED
  BY Invariance, <1>1, PTL

\* Feedback below the threshold, a spec from it on, and never the other way.
THEOREM GateIsRespected == Spec => []GateRespected
<1>1. IInv => GateRespected
  BY DEF IInv, Justified, GateRespected
<1> QED
  BY Invariance, <1>1, PTL

\* What reaches S3 and Jira comes from authentic requests.
THEOREM Authorised == Spec => []EffectsAreAuthorised
<1>1. IInv => EffectsAreAuthorised
  <2> SUFFICES ASSUME IInv, NEW r \in Requests
               PROVE  /\ event[r.by] # None
                      /\ event[r.by].header = "x-hub-signature-256"
                      /\ event[r.by].signature = "match"
                      /\ event[r.by].content = "payload"
                      /\ r.op # "feedback" => /\ r.key[1] = event[r.by].issue
                                              /\ r.key[1] \in StoryIds
    BY DEF EffectsAreAuthorised
  <2>1. Justified(r)
    BY DEF IInv
  <2>2. event[r.by] \in Event /\ Intake(event[r.by]) = "accepted"
    BY <2>1, OrchestratorAssumption DEF Justified
  <2>3. event[r.by] # None
    BY <2>2, NoneAssumption
  <2> QED
    BY <2>1, <2>2, <2>3, AcceptedIsAuthentic DEF Justified
<1> QED
  BY Invariance, <1>1, PTL

\* No comment or attachment is ever made twice by one invocation.
THEOREM WrittenOnce == Spec => []JiraWrittenOnce
<1>1. IInv => JiraWrittenOnce
  BY DEF IInv
<1> QED
  BY Invariance, <1>1, PTL

\* All attempts of an upload go to one object.
THEOREM OneObject == Spec => []OneObjectPerInvocation
<1>1. IInv => OneObjectPerInvocation
  BY DEF IInv, Justified, OneObjectPerInvocation
<1> QED
  BY Invariance, <1>1, PTL

\* The retry loop is bounded by _MAX_ATTEMPTS.
THEOREM BoundedCalls == Spec => []CallsBounded
<1>1. IInv => CallsBounded
  BY DEF IInv, CountInv, CallsBounded
<1> QED
  BY Invariance, <1>1, PTL

\* What a step of invocation i does to the others, and when it is over.
LEMMA StepOthers ==
  ASSUME TypeOK, NEW i \in Inv, Arrive(i) \/ Step(i) \/ Kill(i)
  PROVE  /\ Others(i)
         /\ pc[i] # "done"
         /\ pc[i] # "phase1" => phase1' = phase1
<1> USE DEF TypeOK, NoRequest, Goto, Return, Others
<1>1. CASE Arrive(i)
  BY <1>1 DEF Arrive, Refuse, Reject, Accept
<1>2. CASE Evaluate(i) \/ PhaseFails(i) \/ PhaseCancelled(i) \/ Generate(i)
  BY <1>2 DEF Evaluate, PhaseFails, PhaseCancelled, Generate
<1>3. CASE RejectStoryId(i) \/ BuildKey(i) \/ Presign(i) \/ PresignFails(i)
  BY <1>3 DEF RejectStoryId, BuildKey, Presign, PresignFails
<1>4. CASE PutStored(i) \/ PutTransient(i) \/ PutFatal(i)
  BY <1>4 DEF PutStored, PutTransient, PutFatal, Send, RetryOrGiveUp
<1>5. CASE Feedback(i) \/ Link(i) \/ Attach(i)
  BY <1>5 DEF Feedback, Link, Attach, JiraReturns, JiraRaises, Send
<1>6. CASE Kill(i)
  BY <1>6 DEF Kill, Send
<1> QED
  BY <1>1, <1>2, <1>3, <1>4, <1>5, <1>6 DEF Step, Upload

\* An answer is final and the last thing an invocation does.
THEOREM AnswersAreFinal == Spec => QuietAfterAnswer
<1> DEFINE Quiet == \A i \in Inv : response[i] # None =>
                       response'[i] = response[i] /\ calls'[i] = calls[i]
<1>1. IInv /\ [Next]_vars => [Quiet]_vars
  <2> SUFFICES ASSUME IInv, Next, NEW i \in Inv, response[i] # None
               PROVE  response'[i] = response[i] /\ calls'[i] = calls[i]
    OBVIOUS
  <2>1. pc[i] = "done" /\ TypeOK
    BY DEF IInv, LocalInv
  <2>2. ASSUME NEW j \in Inv, Arrive(j) \/ Step(j) \/ Kill(j)
        PROVE  response'[i] = response[i] /\ calls'[i] = calls[i]
    BY <2>1, <2>2, StepOthers DEF Others
  <2>3. CASE (\E r \in inflight : Land(r)) \/ NextDay
    BY <2>3 DEF Land, NextDay
  <2> QED
    BY <2>2, <2>3 DEF Next
<1> QED
  BY Invariance, <1>1, PTL DEF Spec, QuietAfterAnswer

----------------------------------------------------------------------------
(* No invocation goes on for ever: what liveness needs of the steps        *)

\* How many steps the code of invocation i can still take, with every put it
\* has left.
Distance(stage) ==
    CASE stage = "idle" -> 7 [] stage = "phase1" -> 6 [] stage = "phase2" -> 5
      [] stage = "upload" -> 4 [] stage \in {"put", "presign"} -> 3
      [] stage = "link" -> 2 [] stage \in {"attach", "feedback"} -> 1
      [] stage = "done" -> 0

PutsLeft(i) ==
    IF pc[i] \in {"idle", "phase1", "phase2", "upload"} THEN MaxAttempts
    ELSE IF pc[i] = "put" THEN MaxAttempts - attempt[i] ELSE 0

StepsLeft(i) == Distance(pc[i]) + PutsLeft(i)

LocalOf(i) == <<pc[i], event[i], phase1[i], document[i], key[i], attempt[i], calls[i],
                response[i]>>

\* Whatever the code of an invocation does, a retry of the upload included,
\* brings it nearer to its end; what the others and the network do does not
\* throw it back.
StepsRunOut ==
    [][\A i \in Inv :
          IF LocalOf(i)' = LocalOf(i) THEN StepsLeft(i)' = StepsLeft(i)
          ELSE StepsLeft(i)' < StepsLeft(i)]_vars

LEMMA Distances ==
  /\ Distance("idle") = 7 /\ Distance("phase1") = 6 /\ Distance("phase2") = 5
  /\ Distance("upload") = 4 /\ Distance("put") = 3 /\ Distance("presign") = 3
  /\ Distance("link") = 2 /\ Distance("attach") = 1 /\ Distance("feedback") = 1
  /\ Distance("done") = 0
  BY DEF Distance

\* At each stage, with the retries of the upload counted down.
LEMMA StepsLeftIs ==
  ASSUME TypeOK, NEW i \in Inv
  PROVE  /\ pc[i] = "idle" => StepsLeft(i) = 7 + MaxAttempts
         /\ pc[i] = "phase1" => StepsLeft(i) = 6 + MaxAttempts
         /\ pc[i] = "phase2" => StepsLeft(i) = 5 + MaxAttempts
         /\ pc[i] = "upload" => StepsLeft(i) = 4 + MaxAttempts
         /\ pc[i] = "put" => StepsLeft(i) = 3 + MaxAttempts - attempt[i]
         /\ pc[i] = "presign" => StepsLeft(i) = 3
         /\ pc[i] = "link" => StepsLeft(i) = 2
         /\ pc[i] \in {"attach", "feedback"} => StepsLeft(i) = 1
         /\ pc[i] = "done" => StepsLeft(i) = 0
         /\ MaxAttempts \in Nat \ {0} /\ attempt[i] \in 0 .. MaxAttempts - 1
<1>1. MaxAttempts \in Nat \ {0} /\ attempt[i] \in 0 .. MaxAttempts - 1
  BY OrchestratorAssumption DEF TypeOK
<1> QED
  BY <1>1, Distances DEF StepsLeft, PutsLeft

LEMMA StepsLeftIsFinite ==
  ASSUME TypeOK, NEW i \in Inv
  PROVE  /\ StepsLeft(i) \in 0 .. MaxAttempts + 7
         /\ pc[i] # "done" => StepsLeft(i) > 0
         /\ pc[i] \in {"idle", "phase1", "phase2", "upload"} => StepsLeft(i) > MaxAttempts + 3
<1>1. pc[i] \in {"idle", "phase1", "phase2", "upload", "put", "presign", "link",
                 "attach", "feedback", "done"}
  BY DEF TypeOK, Stages
<1> QED
  BY <1>1, StepsLeftIs

\* A step of the code, an arrival and Lambda's timeout each bring it nearer.
LEMMA StepBringsNearer ==
  ASSUME TypeOK, TypeOK', NEW i \in Inv, Arrive(i) \/ Step(i) \/ Kill(i)
  PROVE  StepsLeft(i)' < StepsLeft(i)
<1>1. /\ pc'[i] = "phase1" => StepsLeft(i)' = 6 + MaxAttempts
      /\ pc'[i] = "phase2" => StepsLeft(i)' = 5 + MaxAttempts
      /\ pc'[i] = "upload" => StepsLeft(i)' = 4 + MaxAttempts
      /\ pc'[i] = "put" => StepsLeft(i)' = 3 + MaxAttempts - attempt'[i]
      /\ pc'[i] = "presign" => StepsLeft(i)' = 3
      /\ pc'[i] = "link" => StepsLeft(i)' = 2
      /\ pc'[i] \in {"attach", "feedback"} => StepsLeft(i)' = 1
      /\ pc'[i] = "done" => StepsLeft(i)' = 0
      /\ MaxAttempts \in Nat \ {0} /\ attempt'[i] \in 0 .. MaxAttempts - 1
  <2>1. MaxAttempts \in Nat \ {0} /\ attempt'[i] \in 0 .. MaxAttempts - 1
    BY OrchestratorAssumption DEF TypeOK
  <2> QED
    BY <2>1, Distances DEF StepsLeft, PutsLeft
<1>2. CASE pc[i] # "done" /\ pc'[i] = "done"
  <2>1. StepsLeft(i) > 0 /\ StepsLeft(i) \in Int
    BY <1>2, StepsLeftIsFinite
  <2> QED
    BY <1>1, <1>2, <2>1
<1> USE DEF TypeOK, Goto, Return
<1>3. CASE Arrive(i)
  <2>1. pc[i] = "idle" /\ pc'[i] \in {"phase1", "done"}
    BY <1>3 DEF Arrive, Refuse, Reject, Accept
  <2> QED
    BY <1>1, <1>2, <2>1, StepsLeftIs
<1>4. CASE Evaluate(i)
  <2>1. pc[i] = "phase1" /\ pc'[i] \in {"phase2", "feedback"}
    BY <1>4 DEF Evaluate
  <2> QED
    BY <1>1, <2>1, StepsLeftIs
<1>5. CASE PhaseFails(i) \/ PhaseCancelled(i)
  BY <1>2, <1>5 DEF PhaseFails, PhaseCancelled
<1>6. CASE Generate(i)
  <2>1. pc[i] = "phase2" /\ pc'[i] = "upload"
    BY <1>6 DEF Generate
  <2> QED
    BY <1>1, <2>1, StepsLeftIs
<1>7. CASE RejectStoryId(i) \/ PresignFails(i) \/ PutFatal(i)
  BY <1>2, <1>7 DEF RejectStoryId, PresignFails, PutFatal
<1>8. CASE BuildKey(i)
  <2>1. pc[i] = "upload" /\ pc'[i] = "put"
    BY <1>8 DEF BuildKey
  <2> QED
    BY <1>1, <2>1, StepsLeftIs
<1>9. CASE PutStored(i)
  <2>1. pc[i] = "put" /\ pc'[i] = "presign"
    BY <1>9 DEF PutStored
  <2> QED
    BY <1>1, <2>1, StepsLeftIs
<1>10. CASE PutTransient(i)
  <2>1. pc[i] = "put"
    BY <1>10 DEF PutTransient
  <2>2. \/ pc'[i] = "done"
        \/ pc'[i] = "put" /\ attempt'[i] = attempt[i] + 1
    BY <1>10, <2>1 DEF PutTransient, RetryOrGiveUp
  <2>3. CASE pc'[i] = "put" /\ attempt'[i] = attempt[i] + 1
    BY <1>1, <2>1, <2>3, StepsLeftIs
  <2> QED
    BY <1>2, <2>1, <2>2, <2>3
<1>11. CASE Presign(i)
  <2>1. pc[i] = "presign" /\ pc'[i] = "link"
    BY <1>11 DEF Presign
  <2> QED
    BY <1>1, <2>1, StepsLeftIs
<1>12. CASE Feedback(i) \/ Attach(i)
  BY <1>2, <1>12 DEF Feedback, Attach
<1>13. CASE Link(i)
  <2>1. pc[i] = "link" /\ pc'[i] \in {"attach", "done"}
    BY <1>13 DEF Link
  <2> QED
    BY <1>1, <2>1, StepsLeftIs
<1>14. CASE Kill(i)
  BY <1>2, <1>14 DEF Kill
<1> QED
  BY <1>3, <1>4, <1>5, <1>6, <1>7, <1>8, <1>9, <1>10, <1>11, <1>12, <1>13, <1>14
     DEF Step, Upload

\* For any number of invocations and any retry limit, the code of an invocation
\* takes at most seven steps and the retries of its upload.
THEOREM EveryStepBringsNearer ==
  /\ Spec => [](\A i \in Inv : StepsLeft(i) \in 0 .. MaxAttempts + 7)
  /\ Spec => StepsRunOut
<1>1. TypeOK => \A i \in Inv : StepsLeft(i) \in 0 .. MaxAttempts + 7
  BY StepsLeftIsFinite
<1> DEFINE RunsOut == \A i \in Inv :
                         IF LocalOf(i)' = LocalOf(i) THEN StepsLeft(i)' = StepsLeft(i)
                         ELSE StepsLeft(i)' < StepsLeft(i)
<1>2. ASSUME NEW i \in Inv, LocalOf(i)' = LocalOf(i)
      PROVE  StepsLeft(i)' = StepsLeft(i)
  <2>1. pc'[i] = pc[i] /\ attempt'[i] = attempt[i]
    BY <1>2 DEF LocalOf
  <2> QED
    BY <2>1 DEF StepsLeft, PutsLeft
<1>3. TypeOK /\ TypeOK' /\ [Next]_vars => [RunsOut]_vars
  <2> SUFFICES ASSUME TypeOK, TypeOK', Next, NEW i \in Inv, LocalOf(i)' # LocalOf(i)
               PROVE  StepsLeft(i)' < StepsLeft(i)
    BY <1>2
  <2>1. ASSUME NEW j \in Inv, Arrive(j) \/ Step(j) \/ Kill(j)
        PROVE  StepsLeft(i)' < StepsLeft(i)
    <3>1. CASE i = j
      BY <2>1, <3>1, StepBringsNearer
    <3>2. CASE i # j
      <4>1. LocalOf(i)' = LocalOf(i)
        BY <2>1, <3>2, StepOthers DEF Others, LocalOf
      <4> QED
        BY <4>1
    <3> QED
      BY <3>1, <3>2
  <2>2. CASE (\E r \in inflight : Land(r)) \/ NextDay
    <3>1. LocalOf(i)' = LocalOf(i)
      BY <2>2 DEF Land, NextDay, LocalOf
    <3> QED
      BY <3>1
  <2> QED
    BY <2>1, <2>2 DEF Next
<1> QED
  BY TypeCorrect, <1>1, <1>3, PTL DEF Spec, StepsRunOut

----------------------------------------------------------------------------
(* The refinement of SpecDelivery, where Jira does not redirect            *)

NoRedirects == "redirected" \notin JiraReplies

\* The steps of invocation i, by what they mean for SpecDelivery: it goes on;
\* it ends without a request; it makes a request that does not arrive now; it
\* makes one that does.
GoesOn(i) ==
    NoRequest /\ UNCHANGED response /\ pc'[i] \notin {"attach", "done"}

GivesUp(i) ==
    /\ NoRequest
    /\ \E v \in {"server_error", "timed_out", "bad_request", "unauthorized", "raised"} :
          /\ Return(i, v)
          /\ v \in {"server_error", "timed_out"} \/ pc[i] \in {"idle", "phase1", "phase2"}

AsksInVain(i) ==
    /\ pc[i] \in DOMAIN OpAt
    /\ \E fate \in {"void", "lost"} : Send(i, fate)
    /\ \/ UNCHANGED response /\ UNCHANGED pc
       \/ \E v \in {"server_error", "timed_out"} : Return(i, v)

GetsThrough(i) ==
    /\ Send(i, "carriedOut")
    /\ \/ pc[i] = "put" /\ Goto(i, "presign")
       \/ pc[i] = "link" /\ Goto(i, "attach")
       \/ pc[i] = "feedback" /\ Return(i, "gate_failed")
       \/ pc[i] = "attach" /\ Return(i, "spec_generated")

\* Without redirects a call that returns was carried out.
LEMMA ReturnsMeansCarriedOut ==
  ASSUME NoRedirects, NEW i \in Inv
  PROVE  /\ JiraReturns(i) => Send(i, "carriedOut")
         /\ JiraRaises(i) => \E fate \in {"void", "lost"} : Send(i, fate)
  BY DEF NoRedirects, JiraReturns, JiraRaises

LEMMA Meaning ==
  ASSUME NoRedirects, TypeOK, NEW i \in Inv, Arrive(i) \/ Step(i) \/ Kill(i)
  PROVE  GoesOn(i) \/ GivesUp(i) \/ AsksInVain(i) \/ GetsThrough(i)
<1> USE DEF TypeOK
<1>1. CASE \/ \E answer \in {"server_error", "raised"} : Refuse(i, answer)
           \/ PhaseFails(i) \/ PhaseCancelled(i) \/ RejectStoryId(i) \/ PresignFails(i)
  BY <1>1 DEF Refuse, PhaseFails, PhaseCancelled, RejectStoryId, PresignFails, GivesUp
<1>2. ASSUME NEW e \in Events, Reject(i, e) PROVE GivesUp(i)
  <2>1. Intake(e) \in {"bad_request", "unauthorized", "server_error"}
    BY <1>2, OrchestratorAssumption, IntakeAnswers DEF IntakeVerdicts, Reject
  <2> QED
    BY <1>2, <2>1 DEF Reject, GivesUp
<1>3. ASSUME NEW e \in Events, Accept(i, e) PROVE GoesOn(i)
  BY <1>3 DEF Accept, Goto, GoesOn
<1>4. CASE Evaluate(i) \/ Generate(i) \/ BuildKey(i) \/ Presign(i)
  BY <1>4 DEF Evaluate, Generate, BuildKey, Presign, Goto, GoesOn
<1>5. CASE PutStored(i)
  BY <1>5 DEF PutStored, GetsThrough
<1>6. CASE PutTransient(i) \/ PutFatal(i)
  <2>1. pc[i] \in DOMAIN OpAt
    BY <1>6, OpAtIs DEF PutTransient, PutFatal
  <2> QED
    BY <1>6, <2>1 DEF PutTransient, PutFatal, RetryOrGiveUp, AsksInVain
<1>7. CASE Feedback(i) \/ Link(i) \/ Attach(i)
  <2>1. pc[i] \in DOMAIN OpAt
    BY <1>7, OpAtIs DEF Feedback, Link, Attach
  <2> QED
    BY <1>7, <2>1, ReturnsMeansCarriedOut DEF Feedback, Link, Attach, AsksInVain, GetsThrough
<1>8. CASE Kill(i)
  BY <1>8 DEF Kill, GivesUp, AsksInVain
<1> QED
  BY <1>1, <1>2, <1>3, <1>4, <1>5, <1>6, <1>7, <1>8 DEF Arrive, Step, Upload

\* What invocation i has asked of S3 and Jira, whether it has arrived or not.
Asked(i) == { r.op : r \in RequestsBy(i) }

\* The part of the invariant that redirects would break: what an answer speaks
\* of has arrived, and the attachment only follows a comment that has.
ArrivalInv(i) ==
    /\ pc[i] = "feedback" \/ Asked(i) # {} => phase1[i] \in Phase1Result
    /\ pc[i] = "attach" \/ "attachment" \in Asked(i) => "link" \in Arrived(i)
    /\ response[i] = "gate_failed" => "feedback" \in Arrived(i)
    /\ response[i] = "spec_generated" => "attachment" \in Arrived(i)
    /\ response[i] \in {"bad_request", "unauthorized", "raised"} => Asked(i) = {}

ArrivalsInv == \A i \in Inv : ArrivalInv(i)

LEMMA QuietArrivals ==
  ASSUME UNCHANGED <<applied, inflight>>
  PROVE  \A j \in Inv : Arrived(j)' = Arrived(j) /\ Asked(j)' = Asked(j)
  BY DEF Arrived, Asked, RequestsBy, Requests

LEMMA VainArrivals ==
  ASSUME NEW i \in Inv, NEW fate \in {"void", "lost"}, Send(i, fate)
  PROVE  /\ \A j \in Inv : Arrived(j)' = Arrived(j)
         /\ Asked(i)' \subseteq Asked(i) \cup {OpAt[pc[i]]}
         /\ \A j \in Inv \ {i} : Asked(j)' = Asked(j)
<1> DEFINE new == [op |-> OpAt[pc[i]], by |-> i, key |-> key[i], n |-> calls[i]]
<1>1. /\ applied' = applied
      /\ inflight' = inflight \/ inflight' = inflight \cup {new}
  BY DEF Send
<1>2. new.by = i /\ new.op = OpAt[pc[i]]
  OBVIOUS
<1> HIDE DEF new
<1> QED
  BY <1>1, <1>2 DEF Arrived, Asked, RequestsBy, Requests

LEMMA NewArrivals ==
  ASSUME NEW i \in Inv, Send(i, "carriedOut")
  PROVE  /\ Arrived(i)' = Arrived(i) \cup {OpAt[pc[i]]}
         /\ Asked(i)' = Asked(i) \cup {OpAt[pc[i]]}
         /\ \A j \in Inv \ {i} : Arrived(j)' = Arrived(j) /\ Asked(j)' = Asked(j)
<1> DEFINE new == [op |-> OpAt[pc[i]], by |-> i, key |-> key[i], n |-> calls[i]]
<1>1. applied' = applied \cup {new} /\ inflight' = inflight
  BY DEF Send
<1>2. new.by = i /\ new.op = OpAt[pc[i]]
  OBVIOUS
<1> HIDE DEF new
<1> QED
  BY <1>1, <1>2 DEF Arrived, Asked, RequestsBy, Requests

\* What IInv says of the things an invocation has asked for.
LEMMA AskedFacts ==
  ASSUME IInv, NEW i \in Inv
  PROVE  /\ Arrived(i) \subseteq Asked(i)
         /\ Asked(i) \subseteq MadeAt(pc[i])
         /\ Asked(i) \subseteq Ops
         /\ \A op \in Asked(i) \cap {"link", "attachment"} : "spec" \in Arrived(i)
<1>1. Arrived(i) \subseteq Asked(i)
  BY DEF Arrived, Asked, RequestsBy, Requests
<1>2. ASSUME NEW r \in RequestsBy(i)
      PROVE  r.op \in MadeAt(pc[i]) /\ r.op \in Ops
  BY <1>2, RequestsTyped DEF RequestsBy, IInv, Justified
<1>3. ASSUME NEW r \in RequestsBy(i), r.op \in {"link", "attachment"}
      PROVE  "spec" \in Arrived(i)
  BY <1>3, SMTT(30) DEF RequestsBy, IInv, Justified, Stored, Arrived
<1>4. Asked(i) \subseteq MadeAt(pc[i]) /\ Asked(i) \subseteq Ops
  BY <1>2 DEF Asked
<1>5. \A op \in Asked(i) \cap {"link", "attachment"} : "spec" \in Arrived(i)
  BY <1>3 DEF Asked
<1> QED
  BY <1>1, <1>4, <1>5

\* Feedback excludes everything else.
LEMMA FeedbackAlone ==
  ASSUME IInv, NEW i \in Inv, ArrivalInv(i), "feedback" \in Asked(i)
  PROVE  Asked(i) = {"feedback"}
<1>1. phase1[i].composite \in Int /\ Threshold \in Int
  BY OrchestratorAssumption, HundredthsAreInts DEF ArrivalInv, Phase1Result
<1>2. phase1[i].composite < Threshold
  BY SMTT(30) DEF Asked, RequestsBy, IInv, Justified
<1>3. ASSUME NEW r \in RequestsBy(i), r.op # "feedback" PROVE FALSE
  <2>1. phase1[i].composite >= Threshold
    BY <1>3 DEF RequestsBy, IInv, Justified
  <2> DEFINE c == phase1[i].composite
  <2>2. c \in Int /\ Threshold \in Int /\ c < Threshold /\ c >= Threshold
    BY <1>1, <1>2, <2>1
  <2> HIDE DEF c
  <2> QED
    BY <2>2
<1> QED
  BY <1>3 DEF Asked

\* What may have arrived: nothing, feedback, or a spec and what goes with it,
\* in order.
LEMMA Shapes ==
  ASSUME IInv, NEW i \in Inv, ArrivalInv(i)
  PROVE  Arrived(i) \in {{}, {"feedback"}, {"spec"}, {"spec", "link"},
                         {"spec", "link", "attachment"}}
<1>1. /\ Arrived(i) \subseteq {"feedback", "spec", "link", "attachment"}
      /\ "link" \in Arrived(i) \/ "attachment" \in Arrived(i) => "spec" \in Arrived(i)
      /\ "attachment" \in Arrived(i) => "link" \in Arrived(i)
  BY AskedFacts DEF ArrivalInv, Ops
<1>2. "feedback" \in Arrived(i) => Arrived(i) = {"feedback"}
  BY AskedFacts, FeedbackAlone
<1> QED
  BY <1>1, <1>2

LEMMA InitArrivals == Init => ArrivalsInv
<1> SUFFICES ASSUME Init, NEW i \in Inv PROVE ArrivalInv(i)
  BY DEF ArrivalsInv
<1>1. Arrived(i) = {} /\ Asked(i) = {}
  BY DEF Init, Arrived, Asked, RequestsBy, Requests
<1>2. pc[i] = "idle" /\ response[i] = None /\ None \notin Answers
  BY NoneAssumption DEF Init
<1> QED
  BY <1>1, <1>2 DEF ArrivalInv, Answers

LEMMA StepArrivals ==
  ASSUME NoRedirects, IInv, IInv', ArrivalsInv, NEW i \in Inv,
         Arrive(i) \/ Step(i) \/ Kill(i)
  PROVE  ArrivalsInv'
<1>0. /\ Others(i) /\ TypeOK /\ ArrivalInv(i)
      /\ pc[i] # "phase1" => phase1'[i] = phase1[i]
  BY StepOthers DEF IInv, ArrivalsInv
<1>1. ASSUME NEW j \in Inv \ {i}, Arrived(j)' = Arrived(j), Asked(j)' = Asked(j)
      PROVE  ArrivalInv(j)'
  BY <1>0, <1>1 DEF ArrivalsInv, ArrivalInv, Others
<1>2. pc[i] \in {"idle", "phase1", "phase2", "feedback", "upload"} => Asked(i) = {} /\ Arrived(i) = {}
  BY AskedFacts DEF MadeAt
<1>3. Evaluate(i) => phase1'[i] \in Phase1Result
  <2> SUFFICES ASSUME Evaluate(i) PROVE phase1'[i] \in Phase1Result
    OBVIOUS
  <2>1. PICK e \in Evaluations : \E result \in BuildPhase1Result(e, Threshold) :
            phase1' = [phase1 EXCEPT ![i] = result]
    BY DEF Evaluate
  <2>2. PICK result \in BuildPhase1Result(e, Threshold) :
            phase1' = [phase1 EXCEPT ![i] = result]
    BY <2>1
  <2> QED
    BY <1>0, <2>2, ResultIsTyped DEF TypeOK
<1>4. pc[i] = "feedback" \/ Asked(i) # {} => phase1'[i] \in Phase1Result
  BY <1>0, <1>2 DEF ArrivalInv
<1>5. pc[i] \in DOMAIN OpAt => phase1'[i] \in Phase1Result
  BY <1>0, OpAtIs DEF IInv, LocalInv, PastGate, ArrivalInv
<1>6. response[i] = None /\ None \notin Answers
  <2>1. pc[i] # "done"
    BY <1>0, StepOthers
  <2> QED
    BY <2>1, NoneAssumption DEF IInv, LocalInv
<1>7. CASE GoesOn(i)
  <2>1. \A j \in Inv : Arrived(j)' = Arrived(j) /\ Asked(j)' = Asked(j)
    BY <1>7, QuietArrivals DEF GoesOn, NoRequest
  <2>2. response'[i] = None /\ pc'[i] \notin {"attach", "done"}
    BY <1>6, <1>7 DEF GoesOn
  <2>3. pc'[i] = "feedback" => phase1'[i] \in Phase1Result
    BY <1>0, <1>3, <1>4 DEF Arrive, Refuse, Reject, Accept, Step, Upload, Generate, PhaseFails,
       PhaseCancelled, RejectStoryId, BuildKey, PutStored, PutTransient, PutFatal, RetryOrGiveUp,
       Presign, PresignFails, Feedback, Link, Attach, Kill, Goto, Return, TypeOK
  <2>4. ArrivalInv(i)'
    BY <1>4, <1>6, <2>1, <2>2, <2>3, <1>0 DEF ArrivalInv, Answers
  <2> QED
    BY <1>1, <2>1, <2>4 DEF ArrivalsInv
<1>8. CASE GivesUp(i)
  <2>1. \A j \in Inv : Arrived(j)' = Arrived(j) /\ Asked(j)' = Asked(j)
    BY <1>8, QuietArrivals DEF GivesUp, NoRequest
  <2>2. /\ pc'[i] = "done"
        /\ response'[i] \notin {"gate_failed", "spec_generated"}
        /\ \/ response'[i] \in {"server_error", "timed_out"}
           \/ pc[i] \in {"idle", "phase1", "phase2"}
    <3>1. PICK v \in {"server_error", "timed_out", "bad_request", "unauthorized", "raised"} :
             /\ Return(i, v)
             /\ v \in {"server_error", "timed_out"} \/ pc[i] \in {"idle", "phase1", "phase2"}
      BY <1>8 DEF GivesUp
    <3>2. pc'[i] = "done" /\ response'[i] = v
      BY <1>0, <3>1 DEF Return, TypeOK
    <3> QED
      BY <3>1, <3>2
  <2>3. ArrivalInv(i)'
    BY <1>0, <1>2, <1>4, <2>1, <2>2 DEF ArrivalInv
  <2> QED
    BY <1>1, <2>1, <2>3 DEF ArrivalsInv
<1>9. CASE AsksInVain(i)
  <2>1. /\ \A j \in Inv : Arrived(j)' = Arrived(j)
        /\ Asked(i)' \subseteq Asked(i) \cup {OpAt[pc[i]]}
        /\ \A j \in Inv \ {i} : Asked(j)' = Asked(j)
    BY <1>9, VainArrivals DEF AsksInVain
  <2>2. /\ pc[i] \in DOMAIN OpAt
        /\ \/ pc'[i] = pc[i] /\ response'[i] = None
           \/ pc'[i] = "done" /\ response'[i] \in {"server_error", "timed_out"}
    BY <1>0, <1>6, <1>9 DEF AsksInVain, Return, TypeOK
  <2>3. "attachment" \in Asked(i)' => "link" \in Arrived(i)
    BY <1>0, <2>1, <2>2, OpAtIs DEF ArrivalInv
  <2>4. ArrivalInv(i)'
    BY <1>0, <1>5, <1>6, <2>1, <2>2, <2>3 DEF ArrivalInv, Answers
  <2> QED
    BY <1>1, <2>1, <2>4 DEF ArrivalsInv
<1>10. CASE GetsThrough(i)
  <2>1. /\ Arrived(i)' = Arrived(i) \cup {OpAt[pc[i]]}
        /\ Asked(i)' = Asked(i) \cup {OpAt[pc[i]]}
        /\ \A j \in Inv \ {i} : Arrived(j)' = Arrived(j) /\ Asked(j)' = Asked(j)
    BY <1>10, NewArrivals DEF GetsThrough
  <2>2. \/ pc[i] = "put" /\ pc'[i] = "presign" /\ response'[i] = None
        \/ pc[i] = "link" /\ pc'[i] = "attach" /\ response'[i] = None
        \/ pc[i] = "feedback" /\ pc'[i] = "done" /\ response'[i] = "gate_failed"
        \/ pc[i] = "attach" /\ pc'[i] = "done" /\ response'[i] = "spec_generated"
    BY <1>0, <1>6, <1>10 DEF GetsThrough, Goto, Return, TypeOK
  <2>3. pc[i] \in DOMAIN OpAt /\ phase1'[i] \in Phase1Result
    BY <1>5, <2>2, OpAtIs
  <2>4. ArrivalInv(i)'
    BY <1>0, <1>6, <2>1, <2>2, <2>3, OpAtIs DEF ArrivalInv, Answers
  <2> QED
    BY <1>1, <2>1, <2>4 DEF ArrivalsInv
<1> QED
  BY <1>0, <1>7, <1>8, <1>9, <1>10, Meaning


LEMMA LandArrivals ==
  ASSUME ArrivalsInv, NEW r \in inflight, Land(r)
  PROVE  /\ ArrivalsInv'
         /\ \A i \in Inv : Arrived(i)' = Arrived(i) \cup (IF r.by = i THEN {r.op} ELSE {})
<1>1. /\ applied' = applied \cup {r} /\ inflight' = inflight \ {r}
      /\ UNCHANGED <<pc, phase1, response>>
  BY DEF Land
<1>2. \A i \in Inv : Arrived(i)' = Arrived(i) \cup (IF r.by = i THEN {r.op} ELSE {})
  BY <1>1 DEF Arrived
<1>3. Requests' = Requests
  BY <1>1 DEF Requests
<1>4. \A i \in Inv : Asked(i)' = Asked(i)
  BY <1>3 DEF Asked, RequestsBy
<1> QED
  BY <1>1, <1>2, <1>4 DEF ArrivalsInv, ArrivalInv

LEMMA NextArrivals == NoRedirects /\ IInv /\ ArrivalsInv /\ [Next]_vars => ArrivalsInv'
<1> SUFFICES ASSUME NoRedirects, IInv, ArrivalsInv, [Next]_vars PROVE ArrivalsInv'
  OBVIOUS
<1>1. IInv'
  BY NextIInv
<1>2. CASE NextDay \/ UNCHANGED vars
  <2>1. UNCHANGED <<pc, phase1, response, applied, inflight>>
    BY <1>2 DEF NextDay, vars
  <2> QED
    BY <2>1, QuietArrivals DEF ArrivalsInv, ArrivalInv
<1> QED
  BY <1>1, <1>2, StepArrivals, LandArrivals DEF Next

LEMMA SpecArrivals == ASSUME NoRedirects PROVE Spec => [](IInv /\ ArrivalsInv)
<1>1. IInv /\ ArrivalsInv /\ [Next]_vars => (IInv /\ ArrivalsInv)'
  BY NextIInv, NextArrivals
<1> QED
  BY <1>1, InitIInv, InitArrivals, PTL DEF Spec

\* A 200 is only answered when everything it speaks of has arrived, unless
\* Jira redirects (handler.py, the table of answers).
THEOREM SuccessMeansArrived == ASSUME NoRedirects PROVE Spec => []SuccessIsComplete
<1>1. IInv /\ ArrivalsInv => SuccessIsComplete
  <2> SUFFICES ASSUME IInv, NEW i \in Inv, ArrivalInv(i)
               PROVE  /\ response[i] = "gate_failed" => Arrived(i) = {"feedback"}
                      /\ response[i] = "spec_generated" =>
                            Arrived(i) = {"spec", "link", "attachment"}
    BY DEF SuccessIsComplete, ArrivalsInv
  <2> QED
    BY Shapes DEF ArrivalInv
<1> QED
  BY <1>1, SpecArrivals, PTL

----------------------------------------------------------------------------
(* Each step maps to a step of SpecDelivery or to a stutter                *)

artefactsBar == [i \in Inv |-> Arrived(i)]

\* Nothing SpecDelivery speaks of has changed.
LEMMA DeliveryStutters ==
  ASSUME UNCHANGED response, \A j \in Inv : Arrived(j)' = Arrived(j)
  PROVE  UNCHANGED Delivery!vars
  BY DEF Delivery!vars

LEMMA GiveMaps ==
  ASSUME NEW i \in Inv, NEW a,
         response[i] \notin {"bad_request", "unauthorized", "raised"},
         a \in Delivery!Next_(Arrived(i)),
         Arrived(i)' = Arrived(i) \cup {a},
         \A j \in Inv \ {i} : Arrived(j)' = Arrived(j)
  PROVE  Delivery!Give(i)
<1>1. artefactsBar' = [artefactsBar EXCEPT ![i] = @ \cup {a}]
  BY DEF artefactsBar
<1>2. artefactsBar[i] = Arrived(i)
  BY DEF artefactsBar
<1> QED
  BY <1>1, <1>2 DEF Delivery!Give, artefactsBar

LEMMA AnswerMaps ==
  ASSUME NEW i \in Inv, response[i] = None, NEW v, v \in Delivery!Truthful(Arrived(i)'),
         response' = [response EXCEPT ![i] = v],
         Delivery!Give(i) \/ \A j \in Inv : Arrived(j)' = Arrived(j)
  PROVE  Delivery!Answer(i)
<1>1. artefactsBar'[i] = Arrived(i)'
  BY DEF artefactsBar
<1> QED
  BY <1>1 DEF Delivery!Answer, artefactsBar

LEMMA StepMaps ==
  ASSUME NoRedirects, IInv, IInv', ArrivalsInv, NEW i \in Inv,
         Arrive(i) \/ Step(i) \/ Kill(i)
  PROVE  [Delivery!Next]_(Delivery!vars)
<1>0. TypeOK /\ ArrivalInv(i)
  BY DEF IInv, ArrivalsInv
<1>1. response[i] = None /\ None \notin Answers
  <2>1. pc[i] # "done"
    BY <1>0, StepOthers
  <2> QED
    BY <2>1, NoneAssumption DEF IInv, LocalInv
<1>2. response[i] \notin {"bad_request", "unauthorized", "raised"}
  BY <1>1 DEF Answers
<1>3. pc[i] \in {"idle", "phase1", "phase2", "feedback"} => Arrived(i) = {}
  BY AskedFacts DEF MadeAt
<1>4. CASE GoesOn(i)
  BY <1>4, QuietArrivals, DeliveryStutters DEF GoesOn, NoRequest
<1>5. CASE GivesUp(i)
  <2>1. \A j \in Inv : Arrived(j)' = Arrived(j)
    BY <1>5, QuietArrivals DEF GivesUp, NoRequest
  <2>2. PICK v \in {"server_error", "timed_out", "bad_request", "unauthorized", "raised"} :
           /\ Return(i, v)
           /\ v \in {"server_error", "timed_out"} \/ pc[i] \in {"idle", "phase1", "phase2"}
    BY <1>5 DEF GivesUp
  <2>3. v \in Delivery!Truthful(Arrived(i)')
    BY <1>3, <2>1, <2>2 DEF Delivery!Truthful
  <2> QED
    BY <1>1, <2>1, <2>2, <2>3, AnswerMaps DEF Return, Delivery!Next
<1>6. CASE AsksInVain(i)
  <2>1. \A j \in Inv : Arrived(j)' = Arrived(j)
    BY <1>6, VainArrivals DEF AsksInVain
  <2>2. CASE UNCHANGED response
    BY <2>1, <2>2, DeliveryStutters
  <2>3. ASSUME NEW v \in {"server_error", "timed_out"}, Return(i, v)
        PROVE  Delivery!Next
    <3>1. v \in Delivery!Truthful(Arrived(i)')
      BY DEF Delivery!Truthful
    <3> QED
      BY <1>1, <2>1, <2>3, <3>1, AnswerMaps DEF Return, Delivery!Next
  <2> QED
    BY <1>6, <2>2, <2>3 DEF AsksInVain
<1>7. CASE GetsThrough(i)
  <2> DEFINE a == OpAt[pc[i]]
  <2>1. /\ Arrived(i)' = Arrived(i) \cup {a}
        /\ \A j \in Inv \ {i} : Arrived(j)' = Arrived(j)
    BY <1>7, NewArrivals DEF GetsThrough
  <2>2. CASE pc[i] = "put" /\ Goto(i, "presign")
    <3>1. Arrived(i) \subseteq {"spec"} /\ a = "spec" /\ UNCHANGED response
      BY <2>2, AskedFacts, OpAtIs DEF MadeAt, Goto
    <3>2. CASE Arrived(i) = {}
      <4>1. a \in Delivery!Next_(Arrived(i))
        BY <3>1, <3>2 DEF Delivery!Next_
      <4> HIDE DEF a
      <4> QED
        BY <1>2, <2>1, <3>1, <4>1, GiveMaps DEF Delivery!Next
    <3>3. CASE Arrived(i) # {}
      <4>1. Arrived(i)' = Arrived(i)
        BY <2>1, <3>1, <3>3
      <4> QED
        BY <2>1, <3>1, <4>1, DeliveryStutters
    <3> QED
      BY <3>2, <3>3
  <2>3. CASE pc[i] = "link" /\ Goto(i, "attach")
    <3>1. Arrived(i) = {"spec"} /\ a = "link" /\ UNCHANGED response
      <4>1. "spec" \in Arrived(i)
        BY <2>3 DEF IInv, LocalInv, PastPut, Stored, Arrived
      <4> QED
        BY <2>3, <4>1, AskedFacts, OpAtIs DEF MadeAt, Goto
    <3>2. a \in Delivery!Next_(Arrived(i))
      BY <3>1 DEF Delivery!Next_
    <3> HIDE DEF a
    <3> QED
      BY <1>2, <2>1, <3>1, <3>2, GiveMaps DEF Delivery!Next
  <2>4. CASE pc[i] = "feedback" /\ Return(i, "gate_failed")
    <3>1. Arrived(i) = {} /\ a = "feedback"
      BY <1>3, <2>4, OpAtIs
    <3>2. a \in Delivery!Next_(Arrived(i))
      BY <3>1 DEF Delivery!Next_
    <3>3. "gate_failed" \in Delivery!Truthful(Arrived(i)')
      BY <2>1, <3>1 DEF Delivery!Truthful
    <3> HIDE DEF a
    <3>4. Delivery!Give(i)
      BY <1>2, <2>1, <3>2, GiveMaps
    <3> QED
      BY <1>1, <2>4, <3>3, <3>4, AnswerMaps DEF Return, Delivery!Next
  <2>5. CASE pc[i] = "attach" /\ Return(i, "spec_generated")
    <3>1. Arrived(i) = {"spec", "link"} /\ a = "attachment"
      <4>1. "spec" \in Arrived(i) /\ "link" \in Arrived(i)
        BY <1>0, <2>5 DEF IInv, LocalInv, PastPut, Stored, Arrived, ArrivalInv
      <4> QED
        BY <2>5, <4>1, AskedFacts, OpAtIs DEF MadeAt
    <3>2. a \in Delivery!Next_(Arrived(i))
      BY <3>1 DEF Delivery!Next_
    <3>3. "spec_generated" \in Delivery!Truthful(Arrived(i)')
      BY <2>1, <3>1 DEF Delivery!Truthful
    <3> HIDE DEF a
    <3>4. Delivery!Give(i)
      BY <1>2, <2>1, <3>2, GiveMaps
    <3> QED
      BY <1>1, <2>5, <3>3, <3>4, AnswerMaps DEF Return, Delivery!Next
  <2> QED
    BY <1>7, <2>2, <2>3, <2>4, <2>5 DEF GetsThrough
<1> QED
  BY <1>0, <1>4, <1>5, <1>6, <1>7, Meaning

\* A request that lands late is the next thing to arrive, or has arrived.
LEMMA LandMaps ==
  ASSUME IInv, ArrivalsInv, NEW r \in inflight, Land(r)
  PROVE  [Delivery!Next]_(Delivery!vars)
<1> DEFINE i == r.by
           a == r.op
<1>1. i \in Inv /\ a \in Asked(i) /\ a \in Ops /\ r \in Requests
  BY RequestsTyped DEF IInv, Requests, RequestsBy, Asked
<1>2. ArrivalInv(i) /\ UNCHANGED response
  BY <1>1 DEF ArrivalsInv, Land
<1>3. /\ Arrived(i)' = Arrived(i) \cup {a}
      /\ \A j \in Inv \ {i} : Arrived(j)' = Arrived(j)
  BY <1>1, LandArrivals
<1>4. response[i] \notin {"bad_request", "unauthorized", "raised"}
  BY <1>1, <1>2 DEF ArrivalInv
<1>5. /\ a = "feedback" => Arrived(i) \subseteq {"feedback"}
      /\ a # "feedback" => "feedback" \notin Arrived(i)
      /\ a \in {"link", "attachment"} => "spec" \in Arrived(i)
      /\ a = "attachment" => "link" \in Arrived(i)
  BY <1>1, <1>2, AskedFacts, FeedbackAlone DEF ArrivalInv
<1>6. CASE a \in Arrived(i)
  <2>1. \A j \in Inv : Arrived(j)' = Arrived(j)
    BY <1>3, <1>6
  <2> QED
    BY <1>2, <2>1, DeliveryStutters
<1>7. CASE a \notin Arrived(i)
  <2>1. a \in Delivery!Next_(Arrived(i))
    BY <1>1, <1>2, <1>5, <1>7, Shapes DEF Ops, Delivery!Next_
  <2> HIDE DEF i, a
  <2>2. Delivery!Give(i)
    BY <1>1, <1>3, <1>4, <2>1, GiveMaps
  <2> QED
    BY <1>1, <1>2, <2>2 DEF Delivery!Next
<1> QED
  BY <1>6, <1>7

LEMMA InitMaps == Init => Delivery!Init
<1> SUFFICES ASSUME Init PROVE Delivery!Init
  OBVIOUS
<1>1. \A i \in Inv : Arrived(i) = {}
  BY DEF Init, Arrived
<1> QED
  BY <1>1 DEF Init, Delivery!Init

LEMMA NextMaps ==
  NoRedirects /\ IInv /\ ArrivalsInv /\ [Next]_vars => [Delivery!Next]_(Delivery!vars)
<1> SUFFICES ASSUME NoRedirects, IInv, ArrivalsInv, [Next]_vars
             PROVE  [Delivery!Next]_(Delivery!vars)
  OBVIOUS
<1>1. IInv'
  BY NextIInv
<1>2. CASE NextDay \/ UNCHANGED vars
  <2>1. UNCHANGED <<response, applied, inflight>>
    BY <1>2 DEF NextDay, vars
  <2> QED
    BY <2>1, QuietArrivals, DeliveryStutters
<1> QED
  BY <1>1, <1>2, StepMaps, LandMaps DEF Next

\* The orchestrator delivers as SpecDelivery promises, whatever is lost, late
\* or killed, as long as Jira does not redirect.
THEOREM DeliversAsPromised == ASSUME NoRedirects PROVE Spec => Delivers
<1>1. IInv /\ ArrivalsInv /\ [Next]_vars => [Delivery!Next]_(Delivery!vars)
  BY NextMaps
<1> QED
  BY <1>1, SpecArrivals, InitMaps, PTL DEF Spec, Delivers, Delivery!Spec

=============================================================================
