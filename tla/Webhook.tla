------------------------------ MODULE Webhook ------------------------------
(***************************************************************************)
(* What happens to an API Gateway event before the pipeline runs:          *)
(* _extract_body and _extract_signature of handler.py, validate_signature  *)
(* and parse_webhook_body of core/webhook.py, in the order lambda_handler  *)
(* calls them.  A body is reduced to its two lengths and to how each       *)
(* conversion of it would end; a signature to the kind of string it is.    *)
(***************************************************************************)
EXTENDS Integers

CONSTANTS MaxBodyBytes,   \* MAX_BODY_BYTES
          Issues          \* the issue keys a payload may carry

ASSUME MaxBodyAssumption == MaxBodyBytes \in Nat

Headers == {"none", "x-hub-signature-256", "x-specforge-signature"}

\* "match": HMAC-SHA256 of the decoded body under the shared secret.
\* "nonAscii": "sha256=" followed by something hmac.compare_digest refuses.
Signatures == {"absent", "malformed", "mismatch", "nonAscii", "match"}

\* How parse_webhook_body's decode, json.loads and model_validate would end.
\* "loadsRaises": json.loads raises something other than JSONDecodeError (a
\* RecursionError for deep nesting, a ValueError for a huge integer).
Contents == {"notUtf8", "notJson", "loadsRaises", "badSchema", "payload"}

Event == [ base64      : BOOLEAN,     \* isBase64Encoded
           chars       : Nat,         \* len(body) as received
           convertible : BOOLEAN,     \* b64decode / encode("utf-8") succeeds
           bytes       : Nat,         \* length of the bytes it converts to
           header      : Headers,     \* the signature header that is present
           signature   : Signatures,  \* its value
           content     : Contents,
           issue       : Issues ]

----------------------------------------------------------------------------
WithinCap_NoInflation(e) == e.chars <= MaxBodyBytes

\* The cap on the body as received, before any conversion.
WithinCap(e) ==
    e.chars <= IF e.base64 THEN 2 * MaxBodyBytes ELSE MaxBodyBytes

\* _extract_body.  Bad base64 is the client's error; a string that cannot be
\* encoded (a lone surrogate) raises UnicodeEncodeError, which only the
\* handler's safety net catches.
ExtractBody(e) ==
    IF ~WithinCap(e) THEN "bad_request"
    ELSE IF e.convertible THEN "ok"
    ELSE IF e.base64 THEN "bad_request" ELSE "server_error"

\* _extract_signature knows one header, in any case.
ExtractSignature(e) ==
    IF e.header = "x-hub-signature-256" THEN e.signature ELSE "absent"

ValidateSignature_PrefixOnly(e) ==
    IF ExtractSignature(e) \in {"absent", "malformed"} THEN "unauthorized" ELSE "ok"

\* validate_signature.  compare_digest raises TypeError on non-ASCII text.
ValidateSignature(e) ==
    IF ExtractSignature(e) \in {"absent", "malformed", "mismatch"} THEN "unauthorized"
    ELSE IF ExtractSignature(e) = "nonAscii" THEN "server_error" ELSE "ok"

\* parse_webhook_body.
ParseWebhookBody(e) ==
    IF e.bytes > MaxBodyBytes THEN "bad_request"
    ELSE IF e.content = "loadsRaises" THEN "server_error"
    ELSE IF e.content = "payload" THEN "ok" ELSE "bad_request"

Intake_ParseFirst(e) ==
    IF ExtractBody(e) # "ok" THEN ExtractBody(e)
    ELSE IF ParseWebhookBody(e) # "ok" THEN ParseWebhookBody(e)
    ELSE IF ValidateSignature(e) # "ok" THEN ValidateSignature(e)
    ELSE "accepted"

\* The answer of lambda_handler, or "accepted" when the pipeline is to run.
Intake(e) ==
    IF ExtractBody(e) # "ok" THEN ExtractBody(e)
    ELSE IF ValidateSignature(e) # "ok" THEN ValidateSignature(e)
    ELSE IF ParseWebhookBody(e) # "ok" THEN ParseWebhookBody(e)
    ELSE "accepted"

\* Length of the base64 encoding of n bytes.
Base64Length(n) == 4 * ((n + 2) \div 3)

\* What a correct client sends: a payload within the limit, signed, as text or
\* in canonical base64.
Deliverable(e) ==
    /\ e.bytes <= MaxBodyBytes
    /\ IF e.base64 THEN e.chars = Base64Length(e.bytes) ELSE e.chars <= e.bytes
    /\ e.convertible
    /\ e.header = "x-hub-signature-256" /\ e.signature = "match"
    /\ e.content = "payload"

IntakeVerdicts == {"bad_request", "unauthorized", "server_error", "accepted"}
=============================================================================
