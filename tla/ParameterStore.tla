--------------------------- MODULE ParameterStore ---------------------------
(***************************************************************************)
(* services/ssm_service.py and its user scripts/bootstrap_ssm.py: the SSM  *)
(* parameters under /specforge/, concurrent runs of bootstrap_agent_ids,   *)
(* and an operator who sets parameters by hand.  A bootstrap tests each    *)
(* parameter and then writes it, in two calls, and others get in between.  *)
(* Any call may fail; a write that fails may have been carried out.        *)
(* Nobody deletes a parameter.                                             *)
(***************************************************************************)
EXTENDS Integers

CONSTANTS
    Names,      \* parameter names, the ill-formed ones included
    Prefixed,   \* those that start with /specforge/
    Values,     \* what a parameter may hold
    Boots,      \* runs of bootstrap_agent_ids
    Tasks,      \* the arguments they are called with
    Edits,      \* what the operator may set: pairs of a name and a value
    MaxEdits,   \* bound on the operator's changes
    None        \* no value, no status

\* agent_map (None: the name is not in it) and overwrite.
Task == [map : [Names -> Values \cup {None}], overwrite : BOOLEAN]

ASSUME StoreAssumption ==
    /\ Prefixed \subseteq Names
    /\ Tasks \subseteq Task
    /\ Edits \subseteq Prefixed \X Values
    /\ MaxEdits \in Nat
    /\ None \notin Values \cup Boots \cup Names \cup {"operator", "created", "skipped", "overwritten"}
    /\ "operator" \notin Boots

VARIABLES
    store,     \* the value of each parameter
    at,        \* per bootstrap: "start", "loop", "put", "returned", "raised"
    task,      \* its arguments
    todo,      \* the names it has not dealt with
    current,   \* the name it has tested and is about to write
    existed,   \* the answer of that test
    status,    \* per bootstrap and name: what it reports
    creator,   \* history: who created each parameter
    console,   \* history: the value the operator last gave each parameter
    edits      \* number of changes the operator made

bootVars  == <<at, task, todo, current, existed, status>>
storeVars == <<store, at, task, todo, current, existed, status, creator, console, edits>>

NamesOf(t) == { p \in Names : t.map[p] # None }

StoreInit ==
    /\ store = [p \in Names |-> None]
    /\ at = [b \in Boots |-> "start"]
    /\ task \in [Boots -> Tasks]
    /\ todo = [b \in Boots |-> NamesOf(task[b])]
    /\ current = [b \in Boots |-> None]
    /\ existed = [b \in Boots |-> FALSE]
    /\ status = [b \in Boots |-> [p \in Names |-> None]]
    /\ creator = [p \in Names |-> None]
    /\ console = [p \in Names |-> None]
    /\ edits = 0

Write(p, v, who) ==
    /\ store' = [store EXCEPT ![p] = v]
    /\ creator' = [creator EXCEPT ![p] = IF store[p] = None THEN who ELSE @]

Report(b, p, s) ==
    /\ status' = [status EXCEPT ![b][p] = s]
    /\ todo' = [todo EXCEPT ![b] = @ \ {p}]
    /\ at' = [at EXCEPT ![b] = "loop"]

Raise(b) == at' = [at EXCEPT ![b] = "raised"] /\ UNCHANGED <<status, todo>>

CheckNames_Never(b) ==
    /\ at[b] = "start"
    /\ at' = [at EXCEPT ![b] = "loop"]
    /\ UNCHANGED <<store, task, todo, current, existed, status, creator, console, edits>>

\* SSMError for a name without the prefix, before anything is written.
CheckNames(b) ==
    /\ at[b] = "start"
    /\ at' = [at EXCEPT ![b] = IF todo[b] \subseteq Prefixed THEN "loop" ELSE "raised"]
    /\ UNCHANGED <<store, task, todo, current, existed, status, creator, console, edits>>

\* _parameter_exists, and "skipped" on the fast path.
CheckExists(b, p) ==
    /\ at[b] = "loop"
    /\ p \in todo[b]
    /\ IF store[p] # None /\ ~task[b].overwrite
       THEN Report(b, p, "skipped") /\ UNCHANGED <<current, existed>>
       ELSE /\ at' = [at EXCEPT ![b] = "put"]
            /\ current' = [current EXCEPT ![b] = p]
            /\ existed' = [existed EXCEPT ![b] = store[p] # None]
            /\ UNCHANGED <<status, todo>>
    /\ UNCHANGED <<store, task, creator, console, edits>>

CheckFails(b) ==
    /\ at[b] = "loop"
    /\ todo[b] # {}
    /\ Raise(b)
    /\ UNCHANGED <<store, task, current, existed, creator, console, edits>>

Overwrite_OtherStatus(b) ==
    /\ at[b] = "put"
    /\ task[b].overwrite
    /\ Write(current[b], task[b].map[current[b]], b)
    /\ Report(b, current[b], IF existed[b] THEN "updated" ELSE "created")
    /\ UNCHANGED <<task, current, existed, console, edits>>

\* put_parameter(overwrite=True).
Overwrite(b) ==
    /\ at[b] = "put"
    /\ task[b].overwrite
    /\ Write(current[b], task[b].map[current[b]], b)
    /\ Report(b, current[b], IF existed[b] THEN "overwritten" ELSE "created")
    /\ UNCHANGED <<task, current, existed, console, edits>>

TryCreate_Overwrites(b) ==
    /\ at[b] = "put"
    /\ ~task[b].overwrite
    /\ Write(current[b], task[b].map[current[b]], b)
    /\ Report(b, current[b], "created")
    /\ UNCHANGED <<task, current, existed, console, edits>>

TryCreate_AlwaysCreated(b) ==
    /\ at[b] = "put"
    /\ ~task[b].overwrite
    /\ IF store[current[b]] = None
       THEN Write(current[b], task[b].map[current[b]], b)
       ELSE UNCHANGED <<store, creator>>
    /\ Report(b, current[b], "created")
    /\ UNCHANGED <<task, current, existed, console, edits>>

\* _try_create: ParameterAlreadyExists means "skipped".  It is also what
\* botocore gets when it repeats a put of its own whose reply was lost.
TryCreate(b) ==
    /\ at[b] = "put"
    /\ ~task[b].overwrite
    /\ \/ /\ store[current[b]] = None
          /\ Write(current[b], task[b].map[current[b]], b)
          /\ \E s \in {"created", "skipped"} : Report(b, current[b], s)
       \/ /\ store[current[b]] # None
          /\ Report(b, current[b], "skipped")
          /\ UNCHANGED <<store, creator>>
    /\ UNCHANGED <<task, current, existed, console, edits>>

\* Any other error of the put, which may have been carried out.
PutFails(b) ==
    /\ at[b] = "put"
    /\ Raise(b)
    /\ \/ UNCHANGED <<store, creator>>
       \/ /\ store[current[b]] = None \/ task[b].overwrite
          /\ Write(current[b], task[b].map[current[b]], b)
    /\ UNCHANGED <<task, current, existed, console, edits>>

Return(b) ==
    /\ at[b] = "loop"
    /\ todo[b] = {}
    /\ at' = [at EXCEPT ![b] = "returned"]
    /\ UNCHANGED <<store, task, todo, current, existed, status, creator, console, edits>>

\* aws ssm put-parameter --overwrite.
Edit(e) ==
    /\ edits < MaxEdits
    /\ Write(e[1], e[2], "operator")
    /\ console' = [console EXCEPT ![e[1]] = e[2]]
    /\ edits' = edits + 1
    /\ UNCHANGED bootVars

Bootstrap(b) ==
    \/ CheckNames(b) \/ CheckFails(b) \/ Overwrite(b) \/ TryCreate(b)
    \/ PutFails(b) \/ Return(b)
    \/ \E p \in Names : CheckExists(b, p)

StoreNext == (\E b \in Boots : Bootstrap(b)) \/ (\E e \in Edits : Edit(e))

----------------------------------------------------------------------------
StoreTypeOK ==
    /\ store \in [Names -> Values \cup {None}]
    /\ at \in [Boots -> {"start", "loop", "put", "returned", "raised"}]
    /\ task \in [Boots -> Tasks]
    /\ todo \in [Boots -> SUBSET Names]
    /\ current \in [Boots -> Names \cup {None}]
    /\ existed \in [Boots -> BOOLEAN]
    /\ status \in [Boots -> [Names -> {None, "created", "skipped", "overwritten"}]]
    /\ creator \in [Names -> Boots \cup {"operator", None}]
    /\ console \in [Names -> Values \cup {None}]
    /\ edits \in 0 .. MaxEdits

Overwriting(p) == \E b \in Boots : task[b].overwrite /\ task[b].map[p] # None

\* bootstrap_ssm.py: "Existing parameters are left untouched; this script never
\* overwrites".  What the operator has set stays, also when it was set between
\* the test and the put of a bootstrap.
OperatorValueStays ==
    \A p \in Names :
        console[p] # None /\ ~Overwriting(p) => store[p] = console[p]

\* bootstrap_agent_ids: a name reported "created" was created by this call,
\* and by no other; a "skipped" one exists.
StatusIsTrue ==
    \A b \in Boots, p \in Names :
        ~task[b].overwrite =>
            /\ status[b][p] = "created" => creator[p] = b
            /\ status[b][p] = "skipped" => store[p] # None

\* bootstrap_agent_ids: "other names raise SSMError before any writes occur".
AllNamesOrNothing ==
    \A b \in Boots :
        (\E p \in Names \ Prefixed : task[b].map[p] # None) =>
            /\ \A p \in Names : creator[p] # b /\ status[b][p] = None

\* test_ssm_service.py: "overwrite=True must not lie: fresh creates report
\* 'created', not 'overwritten'", and the docstring: the status "reflects
\* whether the parameter existed before the write".
OverwriteDoesNotLie ==
    \A b \in Boots, p \in Names :
        task[b].overwrite =>
            /\ status[b][p] = "created" => creator[p] = b
            /\ status[b][p] = "overwritten" => creator[p] # b
=============================================================================
