--------------------------- MODULE WebhookProofs ---------------------------
(***************************************************************************)
(* The intake of a webhook, for every body limit and every event.          *)
(***************************************************************************)
EXTENDS Webhook, TLAPS

\* lambda_handler gives one of the documented answers to every event.
LEMMA IntakeAnswers == \A e \in Event : Intake(e) \in IntakeVerdicts
  BY MaxBodyAssumption
     DEF Event, Intake, IntakeVerdicts, ExtractBody, WithinCap, ValidateSignature,
         ExtractSignature, ParseWebhookBody, Signatures, Contents, Headers

\* What the pipeline may assume of the request it serves.
THEOREM AcceptedIsAuthentic ==
  ASSUME NEW e \in Event, Intake(e) = "accepted"
  PROVE  /\ e.header = "x-hub-signature-256" /\ e.signature = "match"
         /\ e.content = "payload"
         /\ e.bytes <= MaxBodyBytes
<1>1. ValidateSignature(e) = "ok" /\ ParseWebhookBody(e) = "ok"
  BY DEF Intake, ExtractBody, ValidateSignature, ParseWebhookBody
<1>2. e.bytes \in Nat /\ e.signature \in Signatures /\ e.content \in Contents
  BY DEF Event
<1>3. e.header = "x-hub-signature-256" /\ e.signature = "match"
  BY <1>1, <1>2 DEF ValidateSignature, ExtractSignature, Signatures
<1>4. e.content = "payload" /\ e.bytes <= MaxBodyBytes
  BY <1>1, <1>2, MaxBodyAssumption DEF ParseWebhookBody, Contents
<1> QED
  BY <1>3, <1>4

\* "2x is a safe upper bound" (_extract_body): base64 never exceeds the cap on
\* the received string while the body it encodes is within MAX_BODY_BYTES.
LEMMA Base64Fits ==
  ASSUME NEW n \in Nat, n <= MaxBodyBytes, MaxBodyBytes >= 2
  PROVE  Base64Length(n) <= 2 * MaxBodyBytes
<1>1. CASE n <= 3
  BY <1>1, MaxBodyAssumption DEF Base64Length
<1>2. CASE n >= 4
  <2>1. 3 * ((n + 2) \div 3) <= n + 2
    BY <1>2
  <2> DEFINE q == (n + 2) \div 3
  <2>2. q \in Nat /\ 3 * q <= n + 2 /\ n >= 4
    BY <1>2, <2>1
  <2> HIDE DEF q
  <2>3. 4 * q <= 2 * n
    BY <2>2
  <2> QED
    BY <2>3, MaxBodyAssumption DEF Base64Length, q
<1> QED
  BY <1>1, <1>2

\* No signed payload within the limit is ever turned away.
THEOREM DeliverableIsAccepted ==
  ASSUME NEW e \in Event, Deliverable(e), MaxBodyBytes >= 2
  PROVE  Intake(e) = "accepted"
<1>1. e.bytes \in Nat /\ e.chars \in Nat /\ e.base64 \in BOOLEAN
  BY DEF Event
<1>2. WithinCap(e)
  BY <1>1, Base64Fits, MaxBodyAssumption DEF Deliverable, WithinCap
<1>3. ExtractBody(e) = "ok" /\ ValidateSignature(e) = "ok" /\ ParseWebhookBody(e) = "ok"
  BY <1>1, <1>2, MaxBodyAssumption
     DEF Deliverable, ExtractBody, ValidateSignature, ExtractSignature, ParseWebhookBody
<1> QED
  BY <1>3 DEF Intake
=============================================================================
