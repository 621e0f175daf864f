-------------------------- MODULE ColdStartProofs --------------------------
(***************************************************************************)
(* The safety properties of ParameterStore and ColdStart, for any number   *)
(* of bootstraps, containers and parameters.  The inductive invariant has  *)
(* a part for the store, which does not depend on the containers, and a    *)
(* part for the containers, which only needs of the store that its steps   *)
(* are witnessed in ``seen''.                                              *)
(***************************************************************************)
EXTENDS ColdStart, FiniteSetTheorems, TLAPS

\* Where each bootstrap is with its names.
BootInv ==
    \A b \in Boots :
        /\ todo[b] \subseteq NamesOf(task[b])
        /\ at[b] = "start" => todo[b] = NamesOf(task[b])
        /\ at[b] \notin {"start", "raised"} => NamesOf(task[b]) \subseteq Prefixed
        /\ at[b] = "put" => current[b] \in todo[b]

\* What a report implies.
StatusInv ==
    \A b \in Boots, p \in Names : status[b][p] # None =>
        /\ NamesOf(task[b]) \subseteq Prefixed
        /\ store[p] # None
        /\ status[b][p] = "created" /\ ~task[b].overwrite => creator[p] = b

\* What the histories say of a parameter.
HistoryInv ==
    \A p \in Names :
        /\ store[p] = None => creator[p] = None /\ console[p] = None
        /\ creator[p] \in Boots => NamesOf(task[creator[p]]) \subseteq Prefixed

StoreInv == StoreTypeOK /\ BootInv /\ StatusInv /\ HistoryInv /\ OperatorValueStays

LEMMA TaskFacts ==
  ASSUME StoreTypeOK, BootInv, NEW b \in Boots
  PROVE  /\ task[b] \in Task
         /\ at[b] = "put" => /\ current[b] \in NamesOf(task[b])
                             /\ current[b] \in Names
                             /\ task[b].map[current[b]] \in Values
                             /\ NamesOf(task[b]) \subseteq Prefixed
<1>1. task[b] \in Task
  BY StoreAssumption DEF StoreTypeOK
<1>2. task[b].map \in [Names -> Values \cup {None}]
  BY <1>1 DEF Task
<1>3. ASSUME at[b] = "put"
      PROVE  current[b] \in NamesOf(task[b]) /\ NamesOf(task[b]) \subseteq Prefixed
  BY <1>3 DEF BootInv
<1>4. ASSUME NEW p \in NamesOf(task[b])
      PROVE  p \in Names /\ task[b].map[p] \in Values
  BY <1>2 DEF NamesOf
<1> QED
  BY <1>1, <1>3, <1>4

LEMMA InitStoreInv == StoreInit => StoreInv
<1> SUFFICES ASSUME StoreInit PROVE StoreInv
  OBVIOUS
<1> USE StoreAssumption DEF StoreInit
<1>1. StoreTypeOK
  BY DEF StoreTypeOK, NamesOf
<1>2. BootInv /\ StatusInv /\ HistoryInv /\ OperatorValueStays
  BY DEF BootInv, StatusInv, HistoryInv, OperatorValueStays
<1> QED
  BY <1>1, <1>2 DEF StoreInv

----------------------------------------------------------------------------
(* The steps of the store                                                  *)

\* Steps that write no parameter: they keep StoreInv when they keep the types,
\* the bootstraps' places and what the reports imply.
LEMMA QuietStep ==
  ASSUME StoreInv, UNCHANGED <<store, creator, console, task>>,
         StoreTypeOK', BootInv', StatusInv'
  PROVE  StoreInv'
<1>1. HistoryInv'
  BY DEF StoreInv, HistoryInv, NamesOf
<1>2. OperatorValueStays'
  BY DEF StoreInv, OperatorValueStays, Overwriting
<1> QED
  BY <1>1, <1>2 DEF StoreInv

LEMMA PlaceStep ==
  ASSUME StoreInv, NEW b \in Boots, CheckNames(b) \/ CheckFails(b) \/ Return(b)
  PROVE  StoreInv'
<1> USE DEF StoreInv
<1>1. /\ UNCHANGED <<store, task, todo, current, status, existed, creator, console, edits>>
      /\ at' \in [Boots -> {"start", "loop", "put", "returned", "raised"}]
      /\ \A x \in Boots \ {b} : at'[x] = at[x]
      /\ \/ at'[b] = "raised"
         \/ at'[b] = "returned" /\ at[b] = "loop"
         \/ at'[b] = "loop" /\ at[b] = "start" /\ todo[b] \subseteq Prefixed
  BY DEF CheckNames, CheckFails, Return, Raise, StoreTypeOK
<1>2. StoreTypeOK'
  BY <1>1 DEF StoreTypeOK
<1>3. StatusInv'
  BY <1>1 DEF StatusInv, NamesOf
<1>4. BootInv'
  BY <1>1 DEF BootInv, NamesOf
<1> QED
  BY <1>1, <1>2, <1>3, <1>4, QuietStep

LEMMA CheckExistsStep ==
  ASSUME StoreInv, NEW b \in Boots, NEW p \in Names, CheckExists(b, p)
  PROVE  StoreInv'
<1> USE DEF StoreInv
<1>1. UNCHANGED <<store, creator, console, task, edits>>
  BY DEF CheckExists
<1>2. /\ at[b] = "loop" /\ p \in todo[b]
      /\ NamesOf(task[b]) \subseteq Prefixed
  BY DEF CheckExists, BootInv
<1>3. CASE store[p] # None /\ ~task[b].overwrite
  <2>1. /\ status' = [status EXCEPT ![b][p] = "skipped"]
        /\ todo' = [todo EXCEPT ![b] = @ \ {p}]
        /\ at' = [at EXCEPT ![b] = "loop"]
        /\ UNCHANGED <<current, existed>>
    BY <1>3 DEF CheckExists, Report
  <2>2. StoreTypeOK'
    BY <1>1, <2>1 DEF StoreTypeOK
  <2>3. BootInv'
    BY <1>1, <1>2, <2>1 DEF BootInv, StoreTypeOK, NamesOf
  <2>4. StatusInv'
    BY <1>1, <1>2, <1>3, <2>1 DEF StatusInv, StoreTypeOK, NamesOf
  <2> QED
    BY <1>1, <2>2, <2>3, <2>4, QuietStep
<1>4. CASE ~(store[p] # None /\ ~task[b].overwrite)
  <2>1. /\ at' = [at EXCEPT ![b] = "put"]
        /\ current' = [current EXCEPT ![b] = p]
        /\ existed' = [existed EXCEPT ![b] = store[p] # None]
        /\ UNCHANGED <<status, todo>>
    BY <1>4 DEF CheckExists
  <2>2. StoreTypeOK'
    BY <1>1, <2>1 DEF StoreTypeOK
  <2>3. BootInv'
    BY <1>1, <1>2, <2>1 DEF BootInv, StoreTypeOK, NamesOf
  <2>4. StatusInv'
    BY <1>1, <2>1 DEF StatusInv, NamesOf
  <2> QED
    BY <1>1, <2>2, <2>3, <2>4, QuietStep
<1> QED
  BY <1>3, <1>4

\* A bootstrap that writes: only its own name changes, to a value of its map,
\* and if that name had a value the call is an overwriting one.
LEMMA BootWrite ==
  ASSUME StoreInv, NEW b \in Boots, at[b] = "put",
         Write(current[b], task[b].map[current[b]], b),
         store[current[b]] = None \/ task[b].overwrite,
         UNCHANGED <<task, console>>
  PROVE  /\ store' \in [Names -> Values \cup {None}]
         /\ creator' \in [Names -> Boots \cup {"operator", None}]
         /\ \A p \in Names : store[p] # None => store'[p] # None /\ creator'[p] = creator[p]
         /\ store'[current[b]] # None
         /\ store[current[b]] = None => creator'[current[b]] = b
         /\ HistoryInv'
         /\ OperatorValueStays'
<1> DEFINE p == current[b]
           v == task[b].map[p]
<1>1. /\ p \in NamesOf(task[b]) /\ p \in Names /\ v \in Values
      /\ NamesOf(task[b]) \subseteq Prefixed
  BY TaskFacts DEF StoreInv
<1>2. v # None /\ b # None /\ "operator" \notin Boots
  BY <1>1, StoreAssumption
<1>3. /\ store' = [store EXCEPT ![p] = v]
      /\ creator' = [creator EXCEPT ![p] = IF store[p] = None THEN b ELSE @]
  BY DEF Write
<1> HIDE DEF p, v
<1>4. store \in [Names -> Values \cup {None}] /\ creator \in [Names -> Boots \cup {"operator", None}]
  BY DEF StoreInv, StoreTypeOK
<1>5. /\ store' \in [Names -> Values \cup {None}]
      /\ creator' \in [Names -> Boots \cup {"operator", None}]
      /\ \A q \in Names : store[q] # None => store'[q] # None /\ creator'[q] = creator[q]
      /\ store'[p] # None
      /\ store[p] = None => creator'[p] = b
      /\ \A q \in Names \ {p} : store'[q] = store[q] /\ creator'[q] = creator[q]
  BY <1>1, <1>2, <1>3, <1>4
<1>6. HistoryInv'
  BY <1>1, <1>2, <1>4, <1>5 DEF StoreInv, HistoryInv, NamesOf
<1>7. OperatorValueStays'
  <2> SUFFICES ASSUME NEW q \in Names, console[q] # None, ~Overwriting(q)
               PROVE  store'[q] = console[q]
    BY DEF OperatorValueStays, Overwriting
  <2>1. store[q] = console[q]
    BY DEF StoreInv, OperatorValueStays
  <2>2. q # p
    <3> SUFFICES ASSUME q = p PROVE FALSE
      OBVIOUS
    <3>1. task[b].overwrite
      BY <2>1 DEF p
    <3> QED
      BY <1>1, <3>1 DEF Overwriting, NamesOf
  <2> QED
    BY <1>5, <2>1, <2>2
<1> QED
  BY <1>5, <1>6, <1>7 DEF p

LEMMA ReportStep ==
  ASSUME StoreInv, NEW b \in Boots, at[b] = "put",
         NEW s \in {"created", "skipped", "overwritten"},
         Report(b, current[b], s),
         UNCHANGED <<task, current, existed, console, edits>>,
         store' \in [Names -> Values \cup {None}],
         creator' \in [Names -> Boots \cup {"operator", None}],
         \A p \in Names : store[p] # None => store'[p] # None /\ creator'[p] = creator[p],
         store'[current[b]] # None,
         s = "created" /\ ~task[b].overwrite => creator'[current[b]] = b
  PROVE  StoreTypeOK' /\ BootInv' /\ StatusInv'
<1>1. /\ status' = [status EXCEPT ![b][current[b]] = s]
      /\ todo' = [todo EXCEPT ![b] = @ \ {current[b]}]
      /\ at' = [at EXCEPT ![b] = "loop"]
  BY DEF Report
<1>2. current[b] \in Names /\ NamesOf(task[b]) \subseteq Prefixed
  BY TaskFacts DEF StoreInv
<1>3. StoreTypeOK'
  BY <1>1, <1>2 DEF StoreInv, StoreTypeOK
<1>4. BootInv'
  BY <1>1, <1>2 DEF StoreInv, BootInv, StoreTypeOK, NamesOf
<1>5. StatusInv'
  BY <1>1, <1>2 DEF StoreInv, StatusInv, StoreTypeOK, NamesOf
<1> QED
  BY <1>3, <1>4, <1>5

LEMMA OverwriteStep ==
  ASSUME StoreInv, NEW b \in Boots, Overwrite(b)
  PROVE  StoreInv'
<1>1. /\ at[b] = "put" /\ task[b].overwrite
      /\ Write(current[b], task[b].map[current[b]], b)
      /\ UNCHANGED <<task, current, existed, console, edits>>
  BY DEF Overwrite
<1>2. PICK s \in {"created", "skipped", "overwritten"} : Report(b, current[b], s)
  BY DEF Overwrite
<1>3. HistoryInv' /\ OperatorValueStays'
  BY <1>1, BootWrite
<1>4. StoreTypeOK' /\ BootInv' /\ StatusInv'
  BY <1>1, <1>2, BootWrite, ReportStep
<1> QED
  BY <1>3, <1>4 DEF StoreInv

LEMMA TryCreateStep ==
  ASSUME StoreInv, NEW b \in Boots, TryCreate(b)
  PROVE  StoreInv'
<1>1. /\ at[b] = "put" /\ ~task[b].overwrite
      /\ UNCHANGED <<task, current, existed, console, edits>>
  BY DEF TryCreate
<1>2. CASE /\ store[current[b]] = None
           /\ Write(current[b], task[b].map[current[b]], b)
           /\ \E s \in {"created", "skipped"} : Report(b, current[b], s)
  <2>1. PICK s \in {"created", "skipped", "overwritten"} : Report(b, current[b], s)
    BY <1>2
  <2>2. HistoryInv' /\ OperatorValueStays'
    BY <1>1, <1>2, BootWrite
  <2>3. StoreTypeOK' /\ BootInv' /\ StatusInv'
    BY <1>1, <1>2, <2>1, BootWrite, ReportStep
  <2> QED
    BY <2>2, <2>3 DEF StoreInv
<1>3. CASE /\ store[current[b]] # None
           /\ Report(b, current[b], "skipped")
           /\ UNCHANGED <<store, creator>>
  <2>1. store \in [Names -> Values \cup {None}] /\ creator \in [Names -> Boots \cup {"operator", None}]
    BY DEF StoreInv, StoreTypeOK
  <2>2. StoreTypeOK' /\ BootInv' /\ StatusInv'
    BY <1>1, <1>3, <2>1, ReportStep
  <2> QED
    BY <1>1, <1>3, <2>2, QuietStep
<1> QED
  BY <1>2, <1>3 DEF TryCreate

LEMMA PutFailsStep ==
  ASSUME StoreInv, NEW b \in Boots, PutFails(b)
  PROVE  StoreInv'
<1>1. /\ at[b] = "put"
      /\ at' = [at EXCEPT ![b] = "raised"]
      /\ UNCHANGED <<status, todo, task, current, existed, console, edits>>
  BY DEF PutFails, Raise
<1>2. /\ store' \in [Names -> Values \cup {None}]
      /\ creator' \in [Names -> Boots \cup {"operator", None}]
      /\ \A p \in Names : store[p] # None => store'[p] # None /\ creator'[p] = creator[p]
      /\ HistoryInv'
      /\ OperatorValueStays'
  <2>1. CASE UNCHANGED <<store, creator>>
    BY <1>1, <2>1 DEF StoreInv, StoreTypeOK, HistoryInv, OperatorValueStays, Overwriting, NamesOf
  <2>2. CASE /\ store[current[b]] = None \/ task[b].overwrite
             /\ Write(current[b], task[b].map[current[b]], b)
    BY <1>1, <2>2, BootWrite
  <2> QED
    BY <2>1, <2>2 DEF PutFails
<1>3. StoreTypeOK' /\ BootInv' /\ StatusInv'
  BY <1>1, <1>2 DEF StoreInv, StoreTypeOK, BootInv, StatusInv, NamesOf
<1> QED
  BY <1>2, <1>3 DEF StoreInv

LEMMA EditStep ==
  ASSUME StoreInv, NEW e \in Edits, Edit(e)
  PROVE  StoreInv'
<1>1. /\ e[1] \in Names /\ e[2] \in Values /\ e[2] # None
      /\ "operator" \notin Boots /\ None # "operator" /\ MaxEdits \in Nat
  BY StoreAssumption
<1>2. /\ store' = [store EXCEPT ![e[1]] = e[2]]
      /\ creator' = [creator EXCEPT ![e[1]] = IF store[e[1]] = None THEN "operator" ELSE @]
      /\ console' = [console EXCEPT ![e[1]] = e[2]]
      /\ edits < MaxEdits /\ edits' = edits + 1
      /\ UNCHANGED <<at, task, todo, current, existed, status>>
  BY DEF Edit, Write, bootVars
<1>3. StoreTypeOK'
  BY <1>1, <1>2 DEF StoreInv, StoreTypeOK
<1>4. BootInv'
  BY <1>2 DEF StoreInv, BootInv, NamesOf
<1>5. StatusInv'
  BY <1>1, <1>2 DEF StoreInv, StatusInv, StoreTypeOK, NamesOf
<1>6. HistoryInv'
  BY <1>1, <1>2 DEF StoreInv, HistoryInv, StoreTypeOK, NamesOf
<1>7. OperatorValueStays'
  BY <1>1, <1>2 DEF StoreInv, OperatorValueStays, StoreTypeOK, Overwriting
<1> QED
  BY <1>3, <1>4, <1>5, <1>6, <1>7 DEF StoreInv

LEMMA StoreStepInv == StoreInv /\ StoreNext => StoreInv'
  BY PlaceStep, CheckExistsStep, OverwriteStep, TryCreateStep, PutFailsStep, EditStep
     DEF StoreNext, Bootstrap

LEMMA StoreStutters == StoreInv /\ UNCHANGED storeVars => StoreInv'
  BY DEF StoreInv, StoreTypeOK, BootInv, StatusInv, HistoryInv, OperatorValueStays,
         Overwriting, NamesOf, storeVars

----------------------------------------------------------------------------
(* The steps of the containers                                             *)

\* What holds of container c at each stage: it has seen what the store holds,
\* the values it has read were all filled when it read them, and the
\* environment comes into play only after a failure of SSM.
ContainerInv(c) ==
    /\ stage[c] = "cold" => next[c] = 1 /\ source[c] = None /\ ~ssmFailed[c]
    /\ stage[c] # "cold" => \A p \in Params : store[p] \in seen[c][p]
    /\ stage[c] = "reading" =>
          /\ source[c] = None /\ ~ssmFailed[c]
          /\ \A k \in 1 .. Len(ParamOrder) : k < next[c] =>
                Filled(values[c][ParamOrder[k]]) /\ values[c][ParamOrder[k]] \in seen[c][ParamOrder[k]]
    /\ stage[c] = "env" => source[c] = None /\ ssmFailed[c]
    /\ stage[c] \in {"s3", "ready"} =>
          \/ /\ source[c] = "ssm"
             /\ \A p \in Params : Filled(values[c][p]) /\ values[c][p] \in seen[c][p]
             /\ values[c][Threshold] \in Floats
          \/ source[c] = "env" /\ values[c] = env[c]
    /\ source[c] = "env" => ssmFailed[c]
    /\ stage[c] = "refusing" =>
          IF ssmFailed[c] THEN ~EnvUsable(c)
          ELSE \/ \E p \in Params : \E v \in seen[c][p] : ~Filled(v)
               \/ \E v \in seen[c][Threshold] : v \notin Floats

ContainersTypeOK ==
    /\ stage \in [Containers -> Stages]
    /\ next \in [Containers -> 1 .. Len(ParamOrder) + 1]
    /\ values \in [Containers -> Environment]
    /\ source \in [Containers -> {"ssm", "env", None}]
    /\ env \in [Containers -> Envs]
    /\ ssmFailed \in [Containers -> BOOLEAN]
    /\ seen \in [Containers -> [Params -> SUBSET (Values \cup {None})]]

ContainersInv == ContainersTypeOK /\ \A c \in Containers : ContainerInv(c)

LEMMA ParamFacts ==
  /\ Len(ParamOrder) \in Nat
  /\ \A k \in 1 .. Len(ParamOrder) : ParamOrder[k] \in Names /\ ParamOrder[k] \in Params
  /\ Params \subseteq Names
  /\ Threshold \in Params
  BY ColdStartAssumption DEF Params

LEMMA InitContainersInv == Init => ContainersInv
<1> SUFFICES ASSUME Init PROVE ContainersInv
  OBVIOUS
<1> USE ColdStartAssumption, ParamFacts DEF Init
<1>1. ContainersTypeOK
  BY DEF ContainersTypeOK, Stages, Environment, NoValues
<1>2. \A c \in Containers : ContainerInv(c)
  BY DEF ContainerInv
<1> QED
  BY <1>1, <1>2 DEF ContainersInv

\* A container is not disturbed by what the others do.
LEMMA OtherContainer ==
  ASSUME NEW c \in Containers, ContainerInv(c),
         stage'[c] = stage[c], next'[c] = next[c], values'[c] = values[c],
         source'[c] = source[c], env'[c] = env[c], ssmFailed'[c] = ssmFailed[c],
         seen'[c] = seen[c], store' = store
  PROVE  ContainerInv(c)'
  BY DEF ContainerInv, EnvUsable, Filled

\* What the containers have seen only grows when the store changes.
LEMMA StoreStepContainers ==
  ASSUME ContainersInv, StoreTypeOK', StoreStep
  PROVE  ContainersInv'
<1>1. /\ UNCHANGED <<stage, next, values, source, env, ssmFailed>>
      /\ seen' = [c \in Containers |->
                     IF stage[c] = "cold" THEN seen[c]
                     ELSE [p \in Params |-> seen[c][p] \cup {store'[p]}]]
  BY DEF StoreStep
<1>2. \A p \in Params : store'[p] \in Values \cup {None}
  BY ParamFacts DEF StoreTypeOK
<1>3. seen' \in [Containers -> [Params -> SUBSET (Values \cup {None})]]
  BY <1>1, <1>2 DEF ContainersInv, ContainersTypeOK
<1>4. ContainersTypeOK'
  BY <1>1, <1>3 DEF ContainersInv, ContainersTypeOK
<1>5. ASSUME NEW c \in Containers PROVE ContainerInv(c)'
  <2>1. ContainerInv(c)
    BY DEF ContainersInv
  <2>2. CASE stage[c] = "cold"
    BY <1>1, <2>1, <2>2 DEF ContainerInv, EnvUsable, Filled
  <2>3. CASE stage[c] # "cold"
    <3>1. \A p \in Params : seen'[c][p] = seen[c][p] \cup {store'[p]}
      BY <1>1, <2>3
    <3>2. \A p \in Params : seen[c][p] \subseteq seen'[c][p] /\ store'[p] \in seen'[c][p]
      BY <3>1
    <3>3. Threshold \in Params /\ \A k \in 1 .. Len(ParamOrder) : ParamOrder[k] \in Params
      BY ParamFacts
    <3>4. stage[c] = "reading" =>
            \A k \in 1 .. Len(ParamOrder) : k < next[c] =>
                Filled(values[c][ParamOrder[k]]) /\ values[c][ParamOrder[k]] \in seen'[c][ParamOrder[k]]
      BY <2>1, <3>2, <3>3 DEF ContainerInv
    <3>5. stage[c] = "refusing" =>
            IF ssmFailed[c] THEN ~EnvUsable(c)
            ELSE \/ \E p \in Params : \E v \in seen'[c][p] : ~Filled(v)
                 \/ \E v \in seen'[c][Threshold] : v \notin Floats
      BY <2>1, <3>2, <3>3 DEF ContainerInv
    <3>6. stage[c] \in {"s3", "ready"} =>
            \/ /\ source[c] = "ssm"
               /\ \A p \in Params : Filled(values[c][p]) /\ values[c][p] \in seen'[c][p]
               /\ values[c][Threshold] \in Floats
            \/ source[c] = "env" /\ values[c] = env[c]
      BY <2>1, <3>2 DEF ContainerInv
    <3> QED
      BY <1>1, <2>1, <3>2, <3>4, <3>5, <3>6 DEF ContainerInv, EnvUsable, Filled
  <2> QED
    BY <2>2, <2>3
<1> QED
  BY <1>4, <1>5 DEF ContainersInv

\* A step of one container keeps the invariant if it does so for itself.
LEMMA OneContainer ==
  ASSUME ContainersInv, NEW c \in Containers, store' = store,
         ContainersTypeOK', ContainerInv(c)',
         \A d \in Containers \ {c} :
            /\ stage'[d] = stage[d] /\ next'[d] = next[d] /\ values'[d] = values[d]
            /\ source'[d] = source[d] /\ env'[d] = env[d]
            /\ ssmFailed'[d] = ssmFailed[d] /\ seen'[d] = seen[d]
  PROVE  ContainersInv'
  BY OtherContainer DEF ContainersInv

LEMMA StartStep ==
  ASSUME ContainersInv, StoreTypeOK, NEW c \in Containers, Start(c), store' = store
  PROVE  ContainersInv'
<1> USE DEF ContainersInv, ContainersTypeOK
<1>1. /\ stage[c] = "cold"
      /\ stage' = [stage EXCEPT ![c] = "reading"]
      /\ seen' = [seen EXCEPT ![c] = [p \in Params |-> {store[p]}]]
      /\ UNCHANGED <<next, values, source, env, ssmFailed>>
  BY DEF Start, Goto
<1>2. \A p \in Params : store[p] \in Values \cup {None}
  BY ParamFacts DEF StoreTypeOK
<1>3. ContainersTypeOK'
  BY <1>1, <1>2 DEF Stages
<1>4. next[c] = 1 /\ source[c] = None /\ ~ssmFailed[c]
  BY <1>1 DEF ContainerInv
<1>5. stage'[c] = "reading" /\ \A p \in Params : store[p] \in seen'[c][p]
  BY <1>1
<1>6. ContainerInv(c)'
  BY <1>1, <1>4, <1>5, ParamFacts, ColdStartAssumption DEF ContainerInv
<1> QED
  BY <1>1, <1>3, <1>6, OneContainer

LEMMA ReadStep ==
  ASSUME ContainersInv, StoreTypeOK, NEW c \in Containers, Read(c), store' = store
  PROVE  ContainersInv'
<1> USE DEF ContainersInv, ContainersTypeOK
<1> DEFINE p == ParamOrder[next[c]]
<1>1. /\ stage[c] = "reading" /\ next[c] \in 1 .. Len(ParamOrder) /\ p \in Params /\ p \in Names
      /\ UNCHANGED <<source, env, ssmFailed, seen>>
  BY ParamFacts DEF Read
<1>2. /\ source[c] = None /\ ~ssmFailed[c]
      /\ \A q \in Params : store[q] \in seen[c][q]
      /\ \A k \in 1 .. Len(ParamOrder) : k < next[c] =>
            Filled(values[c][ParamOrder[k]]) /\ values[c][ParamOrder[k]] \in seen[c][ParamOrder[k]]
  BY <1>1 DEF ContainerInv
<1>3. store[p] \in Values \cup {None}
  BY <1>1 DEF StoreTypeOK
<1>4. CASE Filled(store[p])
  <2>1. /\ values' = [values EXCEPT ![c][p] = store[p]]
        /\ next' = [next EXCEPT ![c] = @ + 1]
        /\ stage' = stage
    BY <1>4 DEF Read
  <2> HIDE DEF p
  <2>2. /\ values'[c] = [values[c] EXCEPT ![p] = store[p]]
        /\ values[c] \in [Params -> Values \cup {None}]
    BY <2>1 DEF Environment
  <2>3. values' \in [Containers -> Environment]
    BY <1>1, <1>3, <2>1, <2>2 DEF Environment
  <2>4. next'[c] = next[c] + 1 /\ next' \in [Containers -> 1 .. Len(ParamOrder) + 1]
    BY <1>1, <2>1, ParamFacts
  <2>5. ContainersTypeOK'
    BY <1>1, <2>1, <2>3, <2>4
  <2>6. ASSUME NEW k \in 1 .. Len(ParamOrder), k < next'[c]
        PROVE  Filled(values'[c][ParamOrder[k]]) /\ values'[c][ParamOrder[k]] \in seen[c][ParamOrder[k]]
    <3>1. CASE ParamOrder[k] = p
      BY <1>1, <1>2, <1>4, <2>2, <3>1
    <3>2. CASE ParamOrder[k] # p
      <4>1. k < next[c]
        BY <1>1, <2>4, <2>6, <3>2 DEF p
      <4>2. ParamOrder[k] \in Params
        BY ParamFacts
      <4> QED
        BY <1>2, <2>2, <3>2, <4>1, <4>2
    <3> QED
      BY <3>1, <3>2
  <2>7. ContainerInv(c)'
    BY <1>1, <1>2, <2>1, <2>6, ColdStartAssumption DEF ContainerInv, Filled
  <2> QED
    BY <1>1, <2>1, <2>5, <2>7, OneContainer
<1>5. CASE ~Filled(store[p])
  <2>1. /\ stage' = [stage EXCEPT ![c] = "refusing"]
        /\ UNCHANGED <<next, values>>
    BY <1>5 DEF Read, Goto
  <2>2. ContainersTypeOK'
    BY <1>1, <2>1 DEF Stages
  <2>3. stage'[c] = "refusing" /\ \E v \in seen[c][p] : ~Filled(v)
    BY <1>1, <1>2, <1>5, <2>1
  <2>4. ContainerInv(c)'
    BY <1>1, <1>2, <2>1, <2>3, ColdStartAssumption DEF ContainerInv, Filled
  <2> QED
    BY <1>1, <2>1, <2>2, <2>4, OneContainer
<1> QED
  BY <1>4, <1>5

LEMMA ReadFailsStep ==
  ASSUME ContainersInv, NEW c \in Containers, ReadFails(c), store' = store
  PROVE  ContainersInv'
<1> USE DEF ContainersInv, ContainersTypeOK
<1>1. /\ stage[c] = "reading"
      /\ stage' = [stage EXCEPT ![c] = "env"]
      /\ ssmFailed' = [ssmFailed EXCEPT ![c] = TRUE]
      /\ UNCHANGED <<next, values, source, env, seen>>
  BY DEF ReadFails, Goto
<1>2. ContainersTypeOK'
  BY <1>1 DEF Stages
<1>3. stage'[c] = "env" /\ ssmFailed'[c] /\ source[c] = None /\ \A q \in Params : store[q] \in seen[c][q]
  BY <1>1 DEF ContainerInv
<1>4. ContainerInv(c)'
  BY <1>1, <1>3 DEF ContainerInv
<1> QED
  BY <1>1, <1>2, <1>4, OneContainer

LEMMA ParseThresholdStep ==
  ASSUME ContainersInv, NEW c \in Containers, ParseThreshold(c), store' = store
  PROVE  ContainersInv'
<1> USE DEF ContainersInv, ContainersTypeOK
<1>1. /\ stage[c] = "reading" /\ next[c] > Len(ParamOrder)
      /\ UNCHANGED <<next, values, env, ssmFailed, seen>>
  BY DEF ParseThreshold
<1>2. /\ source[c] = None /\ ~ssmFailed[c]
      /\ \A q \in Params : store[q] \in seen[c][q]
      /\ \A k \in 1 .. Len(ParamOrder) :
            Filled(values[c][ParamOrder[k]]) /\ values[c][ParamOrder[k]] \in seen[c][ParamOrder[k]]
  <2>1. \A k \in 1 .. Len(ParamOrder) : k < next[c]
    BY <1>1, ParamFacts
  <2> QED
    BY <1>1, <2>1 DEF ContainerInv
<1>3. \A p \in Params : Filled(values[c][p]) /\ values[c][p] \in seen[c][p]
  BY <1>2 DEF Params
<1>4. CASE values[c][Threshold] \in Floats
  <2>1. /\ stage' = [stage EXCEPT ![c] = "s3"]
        /\ source' = [source EXCEPT ![c] = "ssm"]
    BY <1>4 DEF ParseThreshold, Goto
  <2>2. ContainersTypeOK'
    BY <1>1, <2>1 DEF Stages
  <2>3. stage'[c] = "s3" /\ source'[c] = "ssm"
    BY <2>1
  <2>4. ContainerInv(c)'
    BY <1>1, <1>2, <1>3, <1>4, <2>3 DEF ContainerInv, Filled
  <2> QED
    BY <1>1, <2>1, <2>2, <2>4, OneContainer
<1>5. CASE values[c][Threshold] \notin Floats
  <2>1. stage' = [stage EXCEPT ![c] = "refusing"] /\ source' = source
    BY <1>5 DEF ParseThreshold, Goto
  <2>2. ContainersTypeOK'
    BY <1>1, <2>1 DEF Stages
  <2>3. stage'[c] = "refusing" /\ \E v \in seen[c][Threshold] : v \notin Floats
    BY <1>3, <1>5, <2>1, ParamFacts
  <2>4. ContainerInv(c)'
    BY <1>1, <1>2, <2>1, <2>3, ColdStartAssumption DEF ContainerInv
  <2> QED
    BY <1>1, <2>1, <2>2, <2>4, OneContainer
<1> QED
  BY <1>4, <1>5

LEMMA LoadEnvStep ==
  ASSUME ContainersInv, NEW c \in Containers, LoadEnv(c), store' = store
  PROVE  ContainersInv'
<1> USE DEF ContainersInv, ContainersTypeOK
<1>1. /\ stage[c] = "env"
      /\ UNCHANGED <<next, env, ssmFailed, seen>>
  BY DEF LoadEnv
<1>2. ssmFailed[c] /\ source[c] = None /\ \A q \in Params : store[q] \in seen[c][q]
  BY <1>1 DEF ContainerInv
<1>3. CASE EnvUsable(c)
  <2>1. /\ values' = [values EXCEPT ![c] = env[c]]
        /\ source' = [source EXCEPT ![c] = "env"]
        /\ stage' = [stage EXCEPT ![c] = "s3"]
    BY <1>3 DEF LoadEnv, Goto
  <2>2. env[c] \in Environment
    BY ColdStartAssumption
  <2>3. ContainersTypeOK'
    BY <1>1, <2>1, <2>2 DEF Stages
  <2>4. stage'[c] = "s3" /\ source'[c] = "env" /\ values'[c] = env[c]
    BY <2>1
  <2>5. ContainerInv(c)'
    BY <1>1, <1>2, <2>4 DEF ContainerInv
  <2> QED
    BY <1>1, <2>1, <2>3, <2>5, OneContainer
<1>4. CASE ~EnvUsable(c)
  <2>1. stage' = [stage EXCEPT ![c] = "refusing"] /\ UNCHANGED <<values, source>>
    BY <1>4 DEF LoadEnv, Goto
  <2>2. ContainersTypeOK'
    BY <1>1, <2>1 DEF Stages
  <2>3. stage'[c] = "refusing"
    BY <2>1
  <2>4. ContainerInv(c)'
    BY <1>1, <1>2, <1>4, <2>1, <2>3 DEF ContainerInv, EnvUsable
  <2> QED
    BY <1>1, <2>1, <2>2, <2>4, OneContainer
<1> QED
  BY <1>3, <1>4

LEMMA BuildS3Step ==
  ASSUME ContainersInv, NEW c \in Containers, BuildS3(c), store' = store
  PROVE  ContainersInv'
<1> USE DEF ContainersInv, ContainersTypeOK
<1>1. /\ stage[c] = "s3"
      /\ stage' = [stage EXCEPT ![c] = "ready"] \/ stage' = [stage EXCEPT ![c] = "crashed"]
      /\ UNCHANGED <<next, values, source, env, ssmFailed, seen>>
  BY DEF BuildS3, Goto
<1>2. ContainersTypeOK'
  BY <1>1 DEF Stages
<1>3. stage'[c] \in {"ready", "crashed"}
  BY <1>1
<1>4. ContainerInv(c)'
  BY <1>1, <1>3 DEF ContainerInv, Filled
<1> QED
  BY <1>1, <1>2, <1>4, OneContainer

LEMMA RetireStep ==
  ASSUME ContainersInv, NEW c \in Containers, Retire(c), store' = store
  PROVE  ContainersInv'
<1> USE DEF ContainersInv, ContainersTypeOK
<1>1. /\ stage' = [stage EXCEPT ![c] = "cold"]
      /\ next' = [next EXCEPT ![c] = 1]
      /\ values' = [values EXCEPT ![c] = NoValues]
      /\ source' = [source EXCEPT ![c] = None]
      /\ ssmFailed' = [ssmFailed EXCEPT ![c] = FALSE]
      /\ seen' = [seen EXCEPT ![c] = [p \in Params |-> {}]]
      /\ env' = env
  BY DEF Retire, Goto
<1>2. NoValues \in Environment
  BY DEF NoValues, Environment
<1>3. ContainersTypeOK'
  BY <1>1, <1>2, ParamFacts DEF Stages
<1>4. stage'[c] = "cold" /\ next'[c] = 1 /\ source'[c] = None /\ ~ssmFailed'[c]
  BY <1>1
<1>5. ContainerInv(c)'
  BY <1>4, ColdStartAssumption DEF ContainerInv
<1> QED
  BY <1>1, <1>3, <1>5, OneContainer

LEMMA ContainersStutter == ContainersInv /\ UNCHANGED containerVars /\ UNCHANGED store => ContainersInv'
  BY DEF ContainersInv, ContainersTypeOK, ContainerInv, EnvUsable, Filled, containerVars

----------------------------------------------------------------------------
(* Where a number for the threshold comes from                             *)

IInv == StoreInv /\ ContainersInv

\* A number the threshold holds, or held while some container was there to
\* read it, was chosen by somebody.
ChoiceInv ==
    /\ store[Threshold] \in Floats => ThresholdChosen
    /\ \A c \in Containers :
          (\E v \in seen[c][Threshold] : v \in Floats) => ThresholdChosen

LEMMA ThresholdFacts == Threshold \in Names /\ None \notin Floats /\ None \notin Values
  BY ParamFacts, ColdStartAssumption, StoreAssumption

LEMMA InitChoiceInv == Init => ChoiceInv
  BY ThresholdFacts, ParamFacts DEF Init, StoreInit, ChoiceInv

\* No step of the store undoes a choice, and one that puts a number into the
\* threshold makes one.
LEMMA StoreKeepsChoice ==
  ASSUME StoreInv, StoreNext, store[Threshold] \in Floats => ThresholdChosen
  PROVE  /\ ThresholdChosen => ThresholdChosen'
         /\ store'[Threshold] \in Floats => ThresholdChosen'
<1> USE ThresholdFacts
<1>1. ASSUME NEW b \in Boots, Bootstrap(b)
      PROVE  /\ task' = task /\ console' = console
             /\ \/ store' = store
                \/ at[b] = "put" /\ store' = [store EXCEPT ![current[b]] = task[b].map[current[b]]]
  BY <1>1 DEF Bootstrap, CheckNames, CheckFails, Overwrite, TryCreate, PutFails, Return,
     CheckExists, Write
<1>2. ASSUME NEW b \in Boots, Bootstrap(b)
      PROVE  /\ ThresholdChosen => ThresholdChosen'
             /\ store'[Threshold] \in Floats => ThresholdChosen'
  <2>1. ThresholdChosen <=> ThresholdChosen'
    BY <1>1, <1>2 DEF ThresholdChosen
  <2>2. CASE store'[Threshold] = store[Threshold]
    BY <2>1, <2>2
  <2>3. CASE store'[Threshold] # store[Threshold]
    <3>1. store'[Threshold] = task[b].map[Threshold]
      BY <1>1, <1>2, <2>3 DEF StoreInv, StoreTypeOK
    <3> QED
      BY <2>1, <3>1 DEF ThresholdChosen
  <2> QED
    BY <2>1, <2>2, <2>3
<1>3. ASSUME NEW e \in Edits, Edit(e)
      PROVE  /\ ThresholdChosen => ThresholdChosen'
             /\ store'[Threshold] \in Floats => ThresholdChosen'
  <2>1. e[1] \in Names /\ e[2] # None
    BY StoreAssumption
  <2>2. /\ task' = task
        /\ console' = [console EXCEPT ![e[1]] = e[2]]
        /\ store' = [store EXCEPT ![e[1]] = e[2]]
    BY <1>3 DEF Edit, Write, bootVars
  <2>3. console[Threshold] # None => console'[Threshold] # None
    BY <2>1, <2>2 DEF StoreInv, StoreTypeOK
  <2>4. store'[Threshold] # store[Threshold] => console'[Threshold] # None
    BY <2>1, <2>2 DEF StoreInv, StoreTypeOK
  <2>5. ThresholdChosen => ThresholdChosen'
    BY <2>2, <2>3 DEF ThresholdChosen
  <2> QED
    BY <2>4, <2>5 DEF ThresholdChosen
<1> QED
  BY <1>2, <1>3 DEF StoreNext

LEMMA NextChoiceInv == IInv /\ ChoiceInv /\ [Next]_vars => ChoiceInv'
<1> SUFFICES ASSUME IInv, ChoiceInv, [Next]_vars PROVE ChoiceInv'
  OBVIOUS
<1> USE ParamFacts
<1>1. CASE StoreStep
  <2>1. /\ ThresholdChosen => ThresholdChosen'
        /\ store'[Threshold] \in Floats => ThresholdChosen'
    BY <1>1, StoreKeepsChoice DEF StoreStep, IInv, ChoiceInv
  <2>2. ASSUME NEW c \in Containers
        PROVE  seen'[c][Threshold] \subseteq seen[c][Threshold] \cup {store'[Threshold]}
    BY <1>1 DEF StoreStep
  <2> QED
    BY <2>1, <2>2 DEF ChoiceInv
<1>2. CASE (\E c \in Containers : Load(c) \/ Retire(c)) /\ UNCHANGED storeVars
  <2>1. ThresholdChosen' = ThresholdChosen /\ store' = store
    BY <1>2 DEF storeVars, ThresholdChosen
  <2>2. PICK d \in Containers : Load(d) \/ Retire(d)
    BY <1>2
  <2>3. \/ seen' = seen
        \/ seen' = [seen EXCEPT ![d] = [p \in Params |-> {store[p]}]]
        \/ seen' = [seen EXCEPT ![d] = [p \in Params |-> {}]]
    BY <2>2 DEF Load, Start, Read, ReadFails, ParseThreshold, LoadEnv, BuildS3, Retire
  <2>4. ASSUME NEW c \in Containers
        PROVE  seen'[c][Threshold] \subseteq seen[c][Threshold] \cup {store[Threshold]}
    <3>1. seen \in [Containers -> [Params -> SUBSET (Values \cup {None})]] /\ Threshold \in Params
      BY DEF IInv, ContainersInv, ContainersTypeOK
    <3>2. CASE seen' = seen
      BY <3>2
    <3>3. CASE seen' = [seen EXCEPT ![d] = [p \in Params |-> {store[p]}]]
      BY <3>1, <3>3
    <3>4. CASE seen' = [seen EXCEPT ![d] = [p \in Params |-> {}]]
      BY <3>1, <3>4
    <3> QED
      BY <2>3, <3>2, <3>3, <3>4
  <2> QED
    BY <2>1, <2>4 DEF ChoiceInv
<1>3. CASE UNCHANGED vars
  BY <1>3 DEF vars, ChoiceInv, ThresholdChosen
<1> QED
  BY <1>1, <1>2, <1>3 DEF Next

----------------------------------------------------------------------------
(* The theorems                                                            *)

LEMMA InitIInv == Init => IInv
  BY InitStoreInv, InitContainersInv DEF Init, IInv

LEMMA NextIInv == IInv /\ [Next]_vars => IInv'
<1> SUFFICES ASSUME IInv, [Next]_vars PROVE IInv'
  OBVIOUS
<1> USE DEF IInv
<1>1. CASE StoreStep
  <2>1. StoreInv'
    BY <1>1, StoreStepInv DEF StoreStep
  <2>2. ContainersInv'
    BY <1>1, <2>1, StoreStepContainers DEF StoreInv
  <2> QED
    BY <2>1, <2>2
<1>2. CASE (\E c \in Containers : Load(c) \/ Retire(c)) /\ UNCHANGED storeVars
  <2>1. PICK c \in Containers : Load(c) \/ Retire(c)
    BY <1>2
  <2>2. store' = store /\ StoreTypeOK
    BY <1>2 DEF storeVars, StoreInv
  <2>3. StoreInv'
    BY <1>2, StoreStutters
  <2>4. ContainersInv'
    BY <2>1, <2>2, StartStep, ReadStep, ReadFailsStep, ParseThresholdStep, LoadEnvStep,
       BuildS3Step, RetireStep DEF Load
  <2> QED
    BY <2>3, <2>4
<1>3. CASE UNCHANGED vars
  <2>1. UNCHANGED storeVars /\ UNCHANGED containerVars /\ UNCHANGED store
    BY <1>3 DEF vars, storeVars, containerVars
  <2> QED
    BY <2>1, StoreStutters, ContainersStutter
<1> QED
  BY <1>1, <1>2, <1>3 DEF Next

LEMMA SpecIInv == Spec => []IInv
  BY InitIInv, NextIInv, PTL DEF Spec

\* Every variable of the store and of the containers keeps its type.
THEOREM Types == Spec => []TypeOK
<1>1. IInv => TypeOK
  BY DEF IInv, StoreInv, ContainersInv, ContainersTypeOK, TypeOK
<1> QED
  BY <1>1, SpecIInv, PTL

\* A bootstrap that does not overwrite never undoes what the operator set, in
\* any interleaving of any number of bootstraps (ssm_service.py, _try_create).
THEOREM OperatorWins == Spec => []OperatorValueStays
<1>1. IInv => OperatorValueStays
  BY DEF IInv, StoreInv
<1> QED
  BY <1>1, SpecIInv, PTL

\* The statuses bootstrap_agent_ids reports are true, and at most one call
\* reports that it created a parameter.
THEOREM StatusesAreTrue == Spec => []StatusIsTrue
<1>1. IInv => StatusIsTrue
  <2>1. None # "created" /\ None # "skipped"
    BY StoreAssumption
  <2> QED
    BY <2>1 DEF IInv, StoreInv, StatusInv, StatusIsTrue
<1> QED
  BY <1>1, SpecIInv, PTL

\* A call with a name outside /specforge/ writes nothing, not even in part.
THEOREM NothingOnBadName == Spec => []AllNamesOrNothing
<1>1. IInv => AllNamesOrNothing
  <2> SUFFICES ASSUME IInv, NEW b \in Boots, NEW q \in Names \ Prefixed,
                      task[b].map[q] # None, NEW p \in Names
               PROVE  creator[p] # b /\ status[b][p] = None
    BY DEF AllNamesOrNothing
  <2>1. ~(NamesOf(task[b]) \subseteq Prefixed)
    BY DEF NamesOf
  <2> QED
    BY <2>1 DEF IInv, StoreInv, HistoryInv, StatusInv
<1> QED
  BY <1>1, SpecIInv, PTL

\* The settings of a container come from one source, complete, whatever
\* happens to the parameters while it reads them (core/config.py).
THEOREM SettingsAreConsistent == Spec => []SettingsFromOneSource
<1>1. IInv => SettingsFromOneSource
  BY DEF IInv, ContainersInv, ContainerInv, SettingsFromOneSource
<1> QED
  BY <1>1, SpecIInv, PTL

\* The environment is used only after a failure of SSM itself.
THEOREM FallbackIsExplained == Spec => []NoSilentFallback
<1>1. IInv => NoSilentFallback
  BY DEF IInv, ContainersInv, ContainerInv, NoSilentFallback
<1> QED
  BY <1>1, SpecIInv, PTL

\* A container that refuses its deliveries has a reason to.
THEOREM RefusalIsExplained == Spec => []RefusalIsDeserved
<1>1. IInv => RefusalIsDeserved
  BY DEF IInv, ContainersInv, ContainerInv, RefusalIsDeserved
<1> QED
  BY <1>1, SpecIInv, PTL

\* Parameters that were bootstrapped and never set serve nobody: behind every
\* threshold a container serves with is somebody's choice (bootstrap_ssm.py).
THEOREM PlaceholdersServeNobody == Spec => []PlaceholdersDoNotServe
<1>1. IInv /\ ChoiceInv => PlaceholdersDoNotServe
  BY ParamFacts, ColdStartAssumption
     DEF IInv, ContainersInv, ContainerInv, ChoiceInv, PlaceholdersDoNotServe
<1> QED
  BY <1>1, SpecIInv, InitChoiceInv, NextChoiceInv, PTL DEF Spec

----------------------------------------------------------------------------
(* No initialisation and no bootstrap goes on for ever                     *)

\* How many more steps a container can take until it is retired, and after.
LoadLeft(c) ==
    CASE stage[c] = "reading" -> Len(ParamOrder) - next[c] + 5
      [] stage[c] = "env" -> 3
      [] stage[c] = "s3" -> 2
      [] stage[c] \in {"ready", "refusing", "crashed"} -> 1
      [] stage[c] = "cold" -> 0

\* How many more steps a bootstrap can take: two calls for each name.
BootLeft(b) ==
    CASE at[b] = "start" -> 2 * Cardinality(todo[b]) + 2
      [] at[b] = "loop" -> 2 * Cardinality(todo[b]) + 1
      [] at[b] = "put" -> 2 * Cardinality(todo[b])
      [] at[b] \in {"returned", "raised"} -> 0

ContainerOf(c) == <<stage[c], next[c], values[c], source[c], env[c], ssmFailed[c]>>

BootOf(b) == <<at[b], task[b], todo[b], current[b], existed[b], status[b]>>

\* A container that has started reads no parameter twice and tries no source
\* again, whatever the others write meanwhile.
LoadsRunOut ==
    [][\A c \in Containers :
          stage[c] # "cold" /\ ContainerOf(c)' # ContainerOf(c) =>
              LoadLeft(c)' < LoadLeft(c)]_vars

\* A bootstrap deals with every name once, whatever the others write meanwhile.
BootsRunOut ==
    [][\A b \in Boots : BootOf(b)' # BootOf(b) => BootLeft(b)' < BootLeft(b)]_vars

LEMMA LoadLeftIs ==
  ASSUME NEW c \in Containers
  PROVE  /\ stage[c] = "reading" => LoadLeft(c) = Len(ParamOrder) - next[c] + 5
         /\ stage[c] = "env" => LoadLeft(c) = 3
         /\ stage[c] = "s3" => LoadLeft(c) = 2
         /\ stage[c] \in {"ready", "refusing", "crashed"} => LoadLeft(c) = 1
         /\ stage[c] = "cold" => LoadLeft(c) = 0
  BY DEF LoadLeft

LEMMA LoadBringsNearer ==
  ASSUME TypeOK, TypeOK', NEW c \in Containers, stage[c] # "cold", Load(c) \/ Retire(c)
  PROVE  LoadLeft(c)' < LoadLeft(c)
<1>1. /\ stage'[c] = "reading" => LoadLeft(c)' = Len(ParamOrder) - next'[c] + 5
      /\ stage'[c] = "env" => LoadLeft(c)' = 3
      /\ stage'[c] = "s3" => LoadLeft(c)' = 2
      /\ stage'[c] \in {"ready", "refusing", "crashed"} => LoadLeft(c)' = 1
      /\ stage'[c] = "cold" => LoadLeft(c)' = 0
  BY DEF LoadLeft
<1>2. /\ Len(ParamOrder) \in Nat /\ next[c] \in 1 .. Len(ParamOrder) + 1
      /\ next'[c] \in 1 .. Len(ParamOrder) + 1
      /\ stage[c] \in Stages
  BY ParamFacts DEF TypeOK
<1> USE DEF TypeOK, Goto
<1>3. CASE Read(c)
  <2>1. /\ stage[c] = "reading"
        /\ \/ stage'[c] = "reading" /\ next'[c] = next[c] + 1
           \/ stage'[c] = "refusing"
    BY <1>3 DEF Read
  <2> QED
    BY <1>1, <1>2, <2>1, LoadLeftIs
<1>4. CASE ReadFails(c)
  <2>1. stage[c] = "reading" /\ stage'[c] = "env"
    BY <1>4 DEF ReadFails
  <2> QED
    BY <1>1, <1>2, <2>1, LoadLeftIs
<1>5. CASE ParseThreshold(c)
  <2>1. stage[c] = "reading" /\ stage'[c] \in {"s3", "refusing"}
    BY <1>5 DEF ParseThreshold
  <2> QED
    BY <1>1, <1>2, <2>1, LoadLeftIs
<1>6. CASE LoadEnv(c)
  <2>1. stage[c] = "env" /\ stage'[c] \in {"s3", "refusing"}
    BY <1>6 DEF LoadEnv
  <2> QED
    BY <1>1, <2>1, LoadLeftIs
<1>7. CASE BuildS3(c)
  <2>1. stage[c] = "s3" /\ stage'[c] \in {"ready", "crashed"}
    BY <1>7 DEF BuildS3
  <2> QED
    BY <1>1, <2>1, LoadLeftIs
<1>8. CASE Retire(c)
  <2>1. stage'[c] = "cold"
    BY <1>8 DEF Retire
  <2> QED
    BY <1>1, <1>2, <2>1, LoadLeftIs DEF Stages
<1> QED
  BY <1>3, <1>4, <1>5, <1>6, <1>7, <1>8 DEF Load, Start

LEMMA OtherContainersStay ==
  ASSUME TypeOK, NEW c \in Containers, Load(c) \/ Retire(c),
         NEW d \in Containers, d # c
  PROVE  ContainerOf(d)' = ContainerOf(d)
<1> USE DEF TypeOK, Goto, ContainerOf
<1>1. CASE Start(c) \/ BuildS3(c) \/ Retire(c)
  BY <1>1 DEF Start, BuildS3, Retire
<1>2. CASE Read(c) \/ ReadFails(c)
  BY <1>2 DEF Read, ReadFails
<1>3. CASE ParseThreshold(c) \/ LoadEnv(c)
  BY <1>3 DEF ParseThreshold, LoadEnv
<1> QED
  BY <1>1, <1>2, <1>3 DEF Load

\* For any number of parameters, a container that has started takes at most four
\* steps and one per parameter until it is retired.
THEOREM InitialisationRunsOut ==
  /\ Spec => [](\A c \in Containers : LoadLeft(c) \in 0 .. Len(ParamOrder) + 4)
  /\ Spec => LoadsRunOut
<1>1. TypeOK => \A c \in Containers : LoadLeft(c) \in 0 .. Len(ParamOrder) + 4
  <2> SUFFICES ASSUME TypeOK, NEW c \in Containers
               PROVE  LoadLeft(c) \in 0 .. Len(ParamOrder) + 4
    OBVIOUS
  <2>1. /\ stage[c] \in Stages /\ Len(ParamOrder) \in Nat
        /\ next[c] \in 1 .. Len(ParamOrder) + 1
    BY ParamFacts DEF TypeOK
  <2> QED
    BY <2>1, LoadLeftIs DEF Stages
<1> DEFINE RunsOut == \A c \in Containers :
              stage[c] # "cold" /\ ContainerOf(c)' # ContainerOf(c) =>
                  LoadLeft(c)' < LoadLeft(c)
<1>2. TypeOK /\ TypeOK' /\ [Next]_vars => [RunsOut]_vars
  <2> SUFFICES ASSUME TypeOK, TypeOK', Next, NEW c \in Containers, stage[c] # "cold",
                      ContainerOf(c)' # ContainerOf(c)
               PROVE  LoadLeft(c)' < LoadLeft(c)
    OBVIOUS
  <2>1. ~StoreStep
    BY DEF StoreStep, ContainerOf
  <2>2. PICK d \in Containers : Load(d) \/ Retire(d)
    BY <2>1 DEF Next
  <2>3. d = c
    BY <2>2, OtherContainersStay
  <2> QED
    BY <2>2, <2>3, LoadBringsNearer
<1> QED
  BY Types, <1>1, <1>2, PTL DEF Spec, LoadsRunOut

\* The names of a bootstrap are the keys of a dict, so they are finitely many.
LEMMA TodoIsFinite ==
  ASSUME IsFiniteSet(Names), NEW S \in SUBSET Names
  PROVE  IsFiniteSet(S) /\ Cardinality(S) \in Nat /\ Cardinality(S) <= Cardinality(Names)
  BY FS_Subset, FS_CardinalityType

LEMMA BootLeftIs ==
  ASSUME NEW b \in Boots
  PROVE  /\ at[b] = "start" => BootLeft(b) = 2 * Cardinality(todo[b]) + 2
         /\ at[b] = "loop" => BootLeft(b) = 2 * Cardinality(todo[b]) + 1
         /\ at[b] = "put" => BootLeft(b) = 2 * Cardinality(todo[b])
         /\ at[b] \in {"returned", "raised"} => BootLeft(b) = 0
  BY DEF BootLeft

LEMMA BootBringsNearer ==
  ASSUME IsFiniteSet(Names), IInv, IInv', NEW b \in Boots, Bootstrap(b)
  PROVE  BootLeft(b)' < BootLeft(b)
<1> DEFINE n == Cardinality(todo[b])
           m == Cardinality(todo'[b])
<1>1. /\ at'[b] = "loop" => BootLeft(b)' = 2 * m + 1
      /\ at'[b] = "put" => BootLeft(b)' = 2 * m
      /\ at'[b] \in {"returned", "raised"} => BootLeft(b)' = 0
  BY DEF BootLeft
<1>2. /\ todo[b] \in SUBSET Names /\ todo'[b] \in SUBSET Names
      /\ StoreTypeOK /\ StoreTypeOK'
  BY DEF IInv, StoreInv, StoreTypeOK
<1>3. n \in Nat /\ m \in Nat /\ IsFiniteSet(todo[b])
  BY <1>2, TodoIsFinite
<1>4. ASSUME NEW p \in todo[b], todo'[b] = todo[b] \ {p}
      PROVE  m = n - 1 /\ n >= 1
  <2>1. m = n - 1
    BY <1>3, <1>4, FS_RemoveElement
  <2> QED
    BY <1>3, <2>1
<1>5. at[b] = "put" => current[b] \in todo[b]
  BY DEF IInv, StoreInv, BootInv
<1>6. at[b] = "put" => n >= 1
  <2> SUFFICES ASSUME at[b] = "put" PROVE n >= 1
    OBVIOUS
  <2>1. n # 0
    BY <1>3, <1>5, FS_EmptySet
  <2> QED
    BY <1>3, <2>1
<1> USE <1>2 DEF StoreTypeOK
<1>7. CASE CheckNames(b)
  <2>1. at[b] = "start" /\ at'[b] \in {"loop", "raised"} /\ todo'[b] = todo[b]
    BY <1>7 DEF CheckNames
  <2> QED
    BY <1>1, <1>3, <2>1, BootLeftIs
<1>8. CASE CheckFails(b) \/ Return(b)
  <2>1. at[b] = "loop" /\ at'[b] \in {"returned", "raised"}
    BY <1>8 DEF CheckFails, Return, Raise
  <2> QED
    BY <1>1, <1>3, <2>1, BootLeftIs
<1>9. CASE PutFails(b)
  <2>1. at[b] = "put" /\ at'[b] = "raised"
    BY <1>9 DEF PutFails, Raise
  <2> QED
    BY <1>1, <1>3, <1>6, <2>1, BootLeftIs
<1>10. CASE Overwrite(b) \/ TryCreate(b)
  <2>1. at[b] = "put" /\ at'[b] = "loop" /\ todo'[b] = todo[b] \ {current[b]}
    BY <1>10 DEF Overwrite, TryCreate, Report
  <2>2. m = n - 1
    BY <1>4, <1>5, <2>1
  <2> HIDE DEF n, m
  <2>3. 2 * m + 1 < 2 * n
    BY <1>3, <2>2
  <2> QED
    BY <1>1, <2>1, <2>3, BootLeftIs DEF n
<1>11. ASSUME NEW p \in Names, CheckExists(b, p) PROVE BootLeft(b)' < BootLeft(b)
  <2>1. /\ at[b] = "loop" /\ p \in todo[b]
        /\ \/ at'[b] = "loop" /\ todo'[b] = todo[b] \ {p}
           \/ at'[b] = "put" /\ todo'[b] = todo[b]
    BY <1>11 DEF CheckExists, Report
  <2>2. CASE at'[b] = "loop" /\ todo'[b] = todo[b] \ {p}
    <3>1. m = n - 1
      BY <1>4, <2>1, <2>2
    <3> QED
      BY <1>1, <1>3, <2>1, <2>2, <3>1, BootLeftIs
  <2>3. CASE at'[b] = "put" /\ todo'[b] = todo[b]
    BY <1>1, <1>3, <2>1, <2>3, BootLeftIs
  <2> QED
    BY <2>1, <2>2, <2>3
<1> QED
  BY <1>7, <1>8, <1>9, <1>10, <1>11 DEF Bootstrap

LEMMA OtherBootsStay ==
  ASSUME StoreTypeOK, NEW b \in Boots, Bootstrap(b), NEW c \in Boots, c # b
  PROVE  BootOf(c)' = BootOf(c)
<1> USE DEF StoreTypeOK, BootOf, Report, Raise
<1>1. CASE CheckNames(b) \/ CheckFails(b) \/ Return(b)
  BY <1>1 DEF CheckNames, CheckFails, Return
<1>2. CASE Overwrite(b) \/ TryCreate(b)
  BY <1>2 DEF Overwrite, TryCreate
<1>3. CASE PutFails(b)
  BY <1>3 DEF PutFails
<1>4. ASSUME NEW p \in Names, CheckExists(b, p) PROVE BootOf(c)' = BootOf(c)
  BY <1>4 DEF CheckExists
<1> QED
  BY <1>1, <1>2, <1>3, <1>4 DEF Bootstrap

\* For any number of bootstraps and names, a bootstrap takes at most two steps
\* per name and two more, overtaken by others or not.
THEOREM BootstrapsRunOut ==
  ASSUME IsFiniteSet(Names)
  PROVE  /\ Spec => [](\A b \in Boots : BootLeft(b) \in 0 .. 2 * Cardinality(Names) + 2)
         /\ Spec => BootsRunOut
<1>1. IInv => \A b \in Boots : BootLeft(b) \in 0 .. 2 * Cardinality(Names) + 2
  <2> SUFFICES ASSUME IInv, NEW b \in Boots
               PROVE  BootLeft(b) \in 0 .. 2 * Cardinality(Names) + 2
    OBVIOUS
  <2>1. /\ at[b] \in {"start", "loop", "put", "returned", "raised"}
        /\ todo[b] \in SUBSET Names
    BY DEF IInv, StoreInv, StoreTypeOK
  <2>2. /\ Cardinality(todo[b]) \in Nat /\ Cardinality(todo[b]) <= Cardinality(Names)
        /\ Cardinality(Names) \in Nat
    BY <2>1, TodoIsFinite, FS_CardinalityType
  <2> QED
    BY <2>1, <2>2, BootLeftIs
<1> DEFINE RunsOut == \A b \in Boots : BootOf(b)' # BootOf(b) => BootLeft(b)' < BootLeft(b)
<1>2. IInv /\ IInv' /\ [Next]_vars => [RunsOut]_vars
  <2> SUFFICES ASSUME IInv, IInv', Next, NEW b \in Boots, BootOf(b)' # BootOf(b)
               PROVE  BootLeft(b)' < BootLeft(b)
    OBVIOUS
  <2>1. StoreNext /\ StoreTypeOK
    BY DEF Next, StoreStep, storeVars, BootOf, IInv, StoreInv
  <2>2. ASSUME NEW e \in Edits, Edit(e) PROVE FALSE
    BY <2>2 DEF Edit, bootVars, BootOf
  <2>3. PICK d \in Boots : Bootstrap(d)
    BY <2>1, <2>2 DEF StoreNext
  <2>4. d = b
    BY <2>1, <2>3, OtherBootsStay
  <2> QED
    BY <2>3, <2>4, BootBringsNearer
<1> QED
  BY SpecIInv, <1>1, <1>2, PTL DEF Spec, BootsRunOut
=============================================================================
