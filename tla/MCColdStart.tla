---------------------------- MODULE MCColdStart ----------------------------
(***************************************************************************)
(* ColdStart with two parameters, a text and the threshold, and one name   *)
(* without the prefix.  Small* name the values the configurations give to  *)
(* the constants.                                                          *)
(***************************************************************************)
EXTENDS ColdStart

CONSTANTS url, threshold, stray   \* parameter names

SmallNames == {url, threshold, stray}

SmallValues == {"PLACEHOLDER", "blank", "text", "7.0"}

SmallOrder == <<url, threshold>>

\* agent_map of url, threshold and stray.
Map(u, t, s) ==
    [p \in SmallNames |-> IF p = url THEN u ELSE IF p = threshold THEN t ELSE s]

\* The script, an overwriting call, and a call with a name to reject.
SmallTasks ==
    { [map |-> Map("PLACEHOLDER", "PLACEHOLDER", None), overwrite |-> FALSE],
      [map |-> Map("text", "7.0", None), overwrite |-> TRUE],
      [map |-> Map("PLACEHOLDER", None, "PLACEHOLDER"), overwrite |-> FALSE] }

\* The script alone.
ScriptOnly == { [map |-> Map("PLACEHOLDER", "PLACEHOLDER", None), overwrite |-> FALSE] }

SmallEdits == {<<url, "text">>, <<url, "blank">>, <<threshold, "7.0">>}

\* Production (no variables), development, and a blank with a bad threshold.
SmallEnvs ==
    { [p \in {url, threshold} |-> None],
      [p \in {url, threshold} |-> IF p = url THEN "text" ELSE "7.0"],
      [p \in {url, threshold} |-> "blank"] }

OneEnv == { [p \in {url, threshold} |-> None] }
=============================================================================
