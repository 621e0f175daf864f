----------------------------- MODULE AgentCall -----------------------------
(***************************************************************************)
(* agents/phase1/base.py and agents/phase2/base.py: what becomes of one    *)
(* Anthropic request.  A reply is the first thing that is special about it *)
(* on its way through the request, _extract_text, json.loads and           *)
(* AgentScore; "valid" is one with nothing special about it.  How a call   *)
(* ends is written as in PhasePipeline.                                    *)
(***************************************************************************)

\* The request itself: any Exception, or a cancellation (no Exception).
NoResponse == {"apiError", "cancelled"}

\* _extract_text: no text block, or no list of blocks at all.
NoText == {"noTextBlock", "badShape"}

\* json.loads raises JSONDecodeError for "notJson".  It raises other things
\* for a text that is no string (TypeError), that nests too deeply
\* (RecursionError) or that has too long a number (ValueError).
NotLoaded == {"notJson", "notString", "tooDeep", "numberTooLong"}

\* The object: none at all, a KeyError, a ValidationError (a wrong type, a
\* score outside 0..10, NaN), or a score float() cannot hold (OverflowError,
\* which Pydantic does not turn into a ValidationError).
BadObject == {"notObject", "missingField", "outOfRange", "scoreTooBig"}

Replies == NoResponse \cup NoText \cup NotLoaded \cup BadObject \cup {"valid"}

ExtractText(reply) == IF reply \in NoText THEN "valueError" ELSE "ok"

JsonLoads_RaisesOther(reply) ==
    IF reply \in NotLoaded THEN "otherException" ELSE "ok"

JsonLoads(reply) ==
    IF reply = "notJson" THEN "jsonDecodeError"
    ELSE IF reply \in NotLoaded THEN "otherException" ELSE "ok"

BuildScore_AnyNumber(reply) ==
    IF reply = "missingField" THEN "keyError"
    ELSE IF reply = "scoreTooBig" THEN "otherException" ELSE "ok"

\* AgentScore(...) with validate_score_range.
BuildScore(reply) ==
    IF reply = "missingField" THEN "keyError"
    ELSE IF reply = "outOfRange" THEN "validationError"
    ELSE IF reply = "scoreTooBig" THEN "otherException" ELSE "ok"

\* call_and_parse.
CallAndParse(reply) ==
    IF reply = "cancelled" THEN "cancelled"
    ELSE IF reply = "apiError" \/ ExtractText(reply) = "valueError" THEN "agentError"
    ELSE IF JsonLoads(reply) = "jsonDecodeError" THEN "agentError"
    ELSE IF JsonLoads(reply) = "otherException" THEN "unexpected"
    ELSE IF reply = "notObject" THEN "agentError"
    ELSE IF BuildScore(reply) \in {"keyError", "validationError"} THEN "agentError"
    ELSE IF BuildScore(reply) = "otherException" THEN "unexpected"
    ELSE "ok"

\* call_and_generate: the text is the section, whatever it says.
CallAndGenerate(reply) ==
    IF reply = "cancelled" THEN "cancelled"
    ELSE IF reply = "apiError" \/ ExtractText(reply) = "valueError" THEN "agentError"
    ELSE IF reply = "notString" THEN "agentError" ELSE "ok"
=============================================================================
