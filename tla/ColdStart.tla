----------------------------- MODULE ColdStart -----------------------------
(***************************************************************************)
(* How a Lambda container gets its settings: the module initialisation of  *)
(* handler.py with load_settings_from_ssm and load_settings of             *)
(* core/config.py, while bootstraps and the operator change the            *)
(* parameters.  The parameters are read one by one.  The result, settings  *)
(* or an error, is kept for as long as the container lives, and Lambda     *)
(* may retire a container at any time.                                     *)
(***************************************************************************)
EXTENDS ParameterStore, Sequences

CONSTANTS
    Containers,
    ParamOrder,   \* the values of _SSM_PARAM_MAP, in order
    Threshold,    \* the name of /specforge/quality_threshold
    Blanks,       \* values that are empty after strip
    Floats,       \* values that float() accepts
    Envs          \* the environments a container may have, by parameter name

Params == { ParamOrder[k] : k \in 1 .. Len(ParamOrder) }

Environment == [Params -> Values \cup {None}]

ASSUME ColdStartAssumption ==
    /\ ParamOrder \in Seq(Names)
    /\ Threshold \in Params
    /\ Blanks \subseteq Values
    /\ Floats \subseteq Values \ Blanks
    /\ Envs \subseteq Environment
    /\ None \notin {"ssm", "env"}

Stages == {"cold", "reading", "env", "s3", "ready", "refusing", "crashed"}

VARIABLES
    stage,      \* per container: what its module initialisation does next
    next,       \* the position in ParamOrder of its next read
    values,     \* what it has read (surrounding blanks stripped)
    source,     \* where they come from: "ssm", "env" or None
    env,        \* its environment variables
    ssmFailed,  \* history: a call to SSM failed
    seen        \* history: what each parameter held since it started

containerVars == <<stage, next, values, source, env, ssmFailed, seen>>
vars == <<store, at, task, todo, current, existed, status, creator, console, edits,
          stage, next, values, source, env, ssmFailed, seen>>

NoValues == [p \in Params |-> None]

Init ==
    /\ StoreInit
    /\ stage = [c \in Containers |-> "cold"]
    /\ next = [c \in Containers |-> 1]
    /\ values = [c \in Containers |-> NoValues]
    /\ source = [c \in Containers |-> None]
    /\ env \in [Containers -> Envs]
    /\ ssmFailed = [c \in Containers |-> FALSE]
    /\ seen = [c \in Containers |-> [p \in Params |-> {}]]

Goto(c, s) == stage' = [stage EXCEPT ![c] = s]

Start(c) ==
    /\ stage[c] = "cold"
    /\ Goto(c, "reading")
    /\ seen' = [seen EXCEPT ![c] = [p \in Params |-> {store[p]}]]
    /\ UNCHANGED <<next, values, source, env, ssmFailed>>

EnvUsable(c) ==
    (\A p \in Params : env[c][p] # None) /\ env[c][Threshold] \in Floats

\* What strip leaves of it is not empty.
Filled(v) == v # None /\ v \notin Blanks

Read_FallsBack(c) ==
    /\ stage[c] = "reading"
    /\ next[c] <= Len(ParamOrder)
    /\ LET p == ParamOrder[next[c]] IN
       IF Filled(store[p])
       THEN /\ values' = [values EXCEPT ![c][p] = store[p]]
            /\ next' = [next EXCEPT ![c] = @ + 1]
            /\ UNCHANGED stage
       ELSE Goto(c, "env") /\ UNCHANGED <<next, values>>
    /\ UNCHANGED <<source, env, ssmFailed, seen>>

\* One iteration of load_settings_from_ssm.  PartialSSMConfig when the
\* parameter is missing or blank.
Read(c) ==
    /\ stage[c] = "reading"
    /\ next[c] <= Len(ParamOrder)
    /\ LET p == ParamOrder[next[c]] IN
       IF Filled(store[p])
       THEN /\ values' = [values EXCEPT ![c][p] = store[p]]
            /\ next' = [next EXCEPT ![c] = @ + 1]
            /\ UNCHANGED stage
       ELSE Goto(c, "refusing") /\ UNCHANGED <<next, values>>
    /\ UNCHANGED <<source, env, ssmFailed, seen>>

ReadFails_TriesAgain(c) ==
    /\ stage[c] = "reading"
    /\ next[c] <= Len(ParamOrder)
    /\ ssmFailed' = [ssmFailed EXCEPT ![c] = ~@]
    /\ UNCHANGED <<stage, next, values, source, env, seen>>

\* SSMService() or one of the reads raises.
ReadFails(c) ==
    /\ stage[c] = "reading"
    /\ next[c] <= Len(ParamOrder)
    /\ Goto(c, "env")
    /\ ssmFailed' = [ssmFailed EXCEPT ![c] = TRUE]
    /\ UNCHANGED <<next, values, source, env, seen>>

ParseThreshold_WholeNumber(c) ==
    /\ stage[c] = "reading"
    /\ next[c] > Len(ParamOrder)
    /\ Goto(c, "refusing")
    /\ UNCHANGED <<next, values, source, env, ssmFailed, seen>>

ParseThreshold_Unchecked(c) ==
    /\ stage[c] = "reading"
    /\ next[c] > Len(ParamOrder)
    /\ Goto(c, "s3") /\ source' = [source EXCEPT ![c] = "ssm"]
    /\ UNCHANGED <<next, values, env, ssmFailed, seen>>

\* The end of load_settings_from_ssm: the threshold must be a number.
ParseThreshold(c) ==
    /\ stage[c] = "reading"
    /\ next[c] > Len(ParamOrder)
    /\ IF values[c][Threshold] \in Floats
       THEN Goto(c, "s3") /\ source' = [source EXCEPT ![c] = "ssm"]
       ELSE Goto(c, "refusing") /\ UNCHANGED source
    /\ UNCHANGED <<next, values, env, ssmFailed, seen>>

LoadEnv_FillsGaps(c) ==
    /\ stage[c] = "env"
    /\ IF EnvUsable(c)
       THEN /\ values' = [values EXCEPT ![c] =
                  [p \in Params |-> IF @[p] = None THEN env[c][p] ELSE @[p]]]
            /\ source' = [source EXCEPT ![c] = "env"]
            /\ Goto(c, "s3")
       ELSE Goto(c, "refusing") /\ UNCHANGED <<values, source>>
    /\ UNCHANGED <<next, env, ssmFailed, seen>>

\* load_settings: every variable is set, blank or not.
LoadEnv(c) ==
    /\ stage[c] = "env"
    /\ IF EnvUsable(c)
       THEN /\ values' = [values EXCEPT ![c] = env[c]]
            /\ source' = [source EXCEPT ![c] = "env"]
            /\ Goto(c, "s3")
       ELSE Goto(c, "refusing") /\ UNCHANGED <<values, source>>
    /\ UNCHANGED <<next, env, ssmFailed, seen>>

\* S3Service(...) in an else branch.  What it raises leaves the module.
BuildS3(c) ==
    /\ stage[c] = "s3"
    /\ Goto(c, "ready") \/ Goto(c, "crashed")
    /\ UNCHANGED <<next, values, source, env, ssmFailed, seen>>

\* Lambda retires the container; its place is taken by a new one.
Retire(c) ==
    /\ stage[c] # "cold"
    /\ Goto(c, "cold")
    /\ next' = [next EXCEPT ![c] = 1]
    /\ values' = [values EXCEPT ![c] = NoValues]
    /\ source' = [source EXCEPT ![c] = None]
    /\ ssmFailed' = [ssmFailed EXCEPT ![c] = FALSE]
    /\ seen' = [seen EXCEPT ![c] = [p \in Params |-> {}]]
    /\ UNCHANGED env

Load(c) == Start(c) \/ Read(c) \/ ReadFails(c) \/ ParseThreshold(c)
           \/ LoadEnv(c) \/ BuildS3(c)

\* A step of the store, witnessed by the containers that have started.
StoreStep ==
    /\ StoreNext
    /\ seen' = [c \in Containers |->
                  IF stage[c] = "cold" THEN seen[c]
                  ELSE [p \in Params |-> seen[c][p] \cup {store'[p]}]]
    /\ UNCHANGED <<stage, next, values, source, env, ssmFailed>>

Next ==
    \/ StoreStep
    \/ /\ \E c \in Containers : Load(c) \/ Retire(c)
       /\ UNCHANGED storeVars

Spec == Init /\ [][Next]_vars

\* A container that starts goes on (every call to SSM ends, botocore has
\* timeouts), and so does a bootstrap.
FairSpec ==
    /\ Spec
    /\ \A c \in Containers : WF_vars(stage[c] # "cold" /\ Load(c) /\ UNCHANGED storeVars)
    /\ \A b \in Boots : WF_vars(StoreStep /\ Bootstrap(b))

----------------------------------------------------------------------------
TypeOK ==
    /\ StoreTypeOK
    /\ stage \in [Containers -> Stages]
    /\ next \in [Containers -> 1 .. Len(ParamOrder) + 1]
    /\ values \in [Containers -> Environment]
    /\ source \in [Containers -> {"ssm", "env", None}]
    /\ env \in [Containers -> Envs]
    /\ ssmFailed \in [Containers -> BOOLEAN]
    /\ seen \in [Containers -> [Params -> SUBSET (Values \cup {None})]]

\* Settings come from one source and are complete.  Those from SSM are filled,
\* with a numeric threshold, and no value is older than the container that
\* read it, whoever writes parameters meanwhile.
SettingsFromOneSource ==
    \A c \in Containers : stage[c] = "ready" =>
        \/ /\ source[c] = "ssm"
           /\ \A p \in Params : Filled(values[c][p]) /\ values[c][p] \in seen[c][p]
           /\ values[c][Threshold] \in Floats
        \/ source[c] = "env" /\ values[c] = env[c]

\* config.py, PartialSSMConfig: no "silent stale-env-var substitution".  The
\* environment is used only when SSM itself failed, never for a parameter that
\* is missing, blank or not a number.
NoSilentFallback ==
    \A c \in Containers : source[c] = "env" => ssmFailed[c]

\* A container refuses its deliveries only for a reason: a parameter that was
\* wrong at some time since it started or, after a failure of SSM, its
\* environment.
RefusalIsDeserved ==
    \A c \in Containers : stage[c] = "refusing" =>
        IF ssmFailed[c] THEN ~EnvUsable(c)
        ELSE \/ \E p \in Params : \E v \in seen[c][p] : ~Filled(v)
             \/ \E v \in seen[c][Threshold] : v \notin Floats

\* Somebody gave the threshold a number: the operator, or a bootstrap whose
\* argument has one (that of bootstrap_ssm.py has PLACEHOLDER).
ThresholdChosen ==
    \/ console[Threshold] # None
    \/ \E b \in Boots : task[b].map[Threshold] \in Floats

\* "PLACEHOLDER" is a value like any other to load_settings_from_ssm except
\* where a number is due: parameters that were bootstrapped and never set do
\* not make a container serve, whichever way reads and writes interleave.
PlaceholdersDoNotServe ==
    \A c \in Containers :
        stage[c] = "ready" /\ source[c] = "ssm" => ThresholdChosen

\* Whatever fails on the way, the initialisation of a container ends, unless it is
\* retired.  A crash is one of its ends: InitErrorsAreServed is about that.
InitialisationEnds ==
    \A c \in Containers :
        stage[c] \in {"reading", "env", "s3"} ~>
            stage[c] \in {"ready", "refusing", "crashed", "cold"}

----------------------------------------------------------------------------
(* What comments and documents say and the code does not do                *)

StoreUsable == (\A p \in Params : Filled(store[p])) /\ store[Threshold] \in Floats

\* handler.py: "serve 500s until the operator fixes SSM".  Once the parameters
\* are right for good, no container refuses on account of them any more.
RecoversOnceFixed ==
    \A c \in Containers :
        <>[]StoreUsable => <>[](stage[c] = "refusing" => ssmFailed[c])

\* handler.py: "If module init raises, we capture the exception in _INIT_ERROR and
\* serve 500s from every invocation rather than crashing the function".
InitErrorsAreServed ==
    \A c \in Containers :
        stage[c] \in {"reading", "env", "s3"} ~>
            stage[c] \in {"ready", "refusing", "cold"}
=============================================================================
