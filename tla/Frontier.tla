------------------------------ MODULE Frontier ------------------------------
(***************************************************************************)
(* The semantic frontier: generations, the work that is proposed for them, *)
(* and its admission as tasks (agentype-storage-sqlite frontier.rs and     *)
(* requirement.rs, with the agent types of catalog.rs).                    *)
(*                                                                         *)
(* Every operation is one transaction.  An operation that is refused rolls *)
(* back, and is disabled here.  Root decides on what it last read of a     *)
(* generation (view), which may be out of date; workers propose through    *)
(* the intents that their results carry.  A replay of an admission changes *)
(* nothing: Replays says which ones are answered with the task.            *)
(*                                                                         *)
(* The kernel runs a task in one step here: it goes from open to COMPLETED *)
(* (and has a result then) or CANCELLED, and stays there.  The partition   *)
(* that a task needs may be inactive at any moment; as an admission is     *)
(* never forced, that guard is left out.                                   *)
(***************************************************************************)
EXTENDS AgentContract

CONSTANTS
    Generations, Tasks, NoTask,
    Keys,         \* (source_kind, source_ref, raw_intent_key, compiler_version)
    Intents,      \* what Root may propose
    SourceTask,   \* per key, the task whose result carries the intent; NoTask for Root
    Carried,      \* per key, the intent that the result carries
    NoSpec, Specs,
    Policies,
    SeedPayload,  \* per generation, the seed references it can resolve
    TypeIds, MaxRevision,
    Contract,     \* per revision of a type, its content
    NoType, Base, \* per revision of a type, the one it is derived from, if any
    NoDraft, Drafts

Proposals == Generations \X Keys
TypeRefs == TypeIds \X (1..MaxRevision)
RootKeys == {k \in Keys : SourceTask[k] = NoTask}

\* A selector names a revision, or the latest one of a type.
Selectors == [kind : {"Exact"}, ref : TypeRefs] \cup [kind : {"Latest"}, ref : TypeIds \X {0}]

ASSUME FrontierAssumption ==
    /\ NoTask \notin Tasks
    /\ SourceTask \in [Keys -> Tasks \cup {NoTask}]
    /\ NoSpec \notin Specs
    /\ NoDraft \notin Drafts
    /\ NoPolicy \notin Policies
    /\ NoType \notin TypeRefs /\ Base \in [TypeRefs -> TypeRefs \cup {NoType}]
    /\ MaxRevision \in Nat

ASSUME ContentAssumption ==
    /\ \A intent \in Intents : intent.fn \in InformationFunction
    /\ \A k \in Keys \ RootKeys : Carried[k].fn \in InformationFunction
    /\ \A policy \in Policies :
          /\ policy.workspace \in WorkspaceMode /\ policy.network \in NetworkPolicy
          /\ policy.isolation \in BOOLEAN /\ policy.continuity \in ContinuityMode
          /\ policy.budget \in Nat
    /\ \A draft \in Drafts :
          draft.isolation \in BOOLEAN /\ draft.budget \in Nat /\ draft.selector \in Selectors

VARIABLES
    generations, proposals, tasks,
    bindings,      \* generation_task_bindings
    requirements,  \* task_agent_requirements
    types,         \* agent_type_dispositions
    outbox,        \* how often the changes of a generation were announced to Root
    view,          \* what Root last read of a generation
    issued         \* the command that admitted a proposal

vars == <<generations, proposals, tasks, bindings, requirements, types, outbox, view, issued>>

NoBinding == [proposal |-> "NONE", seq |-> 0, spec |-> "NONE"]
NoRequirement == [type |-> <<"NONE", 0>>, hard |-> "NONE"]
NoCommand == [override |-> "NONE", draft |-> "NONE"]
NoProposal == [state |-> "NONE", intent |-> "NONE", task |-> NoTask, reason |-> "NONE"]

GenerationState == {"OPEN", "FROZEN", "CLOSED"}
Terminal == {"COMPLETED", "CANCELLED"}
Bound(t) == bindings[t].seq > 0
TasksOf(g) == {t \in Tasks : Bound(t) /\ bindings[t].proposal[1] = g}
Published == {ref \in TypeRefs : types[ref] = "PUBLISHED"}

TypeOK ==
    /\ \A g \in Generations :
          /\ generations[g].state \in {"NONE"} \cup GenerationState
          /\ generations[g].revision \in 0..2
          /\ generations[g].admission_seq \in 0..Cardinality(Tasks)
          /\ generations[g].policy \in Policies \cup {NoPolicy}
          /\ view[g].state \in {"NONE"} \cup GenerationState /\ view[g].revision \in 0..2
    /\ \A p \in Proposals :
          /\ proposals[p].state \in {"NONE", "PENDING", "ADMITTED", "EXPIRED", "REJECTED"}
          /\ proposals[p].task \in Tasks \cup {NoTask}
          /\ proposals[p].reason \in {"NONE", "GENERATION_FROZEN", "GENERATION_CLOSED"}
    /\ \A t \in Tasks :
          /\ tasks[t].state \in {"NONE", "OPEN"} \cup Terminal
          /\ tasks[t].mode \in {"LEGACY", "TYPED"}
    /\ types \in [TypeRefs -> {"NONE", "PUBLISHED", "DEPRECATED"}]

Init ==
    /\ generations = [g \in Generations |->
          [state |-> "NONE", revision |-> 0, admission_seq |-> 0, policy |-> NoPolicy]]
    /\ proposals = [p \in Proposals |-> NoProposal]
    /\ tasks = [t \in Tasks |-> [state |-> "NONE", mode |-> "LEGACY"]]
    /\ bindings = [t \in Tasks |-> NoBinding]
    /\ requirements = [t \in Tasks |-> NoRequirement]
    /\ types = [ref \in TypeRefs |-> "NONE"]
    /\ outbox = [g \in Generations |-> [available |-> 0, frozen |-> 0, closed |-> 0]]
    /\ view = [g \in Generations |-> [state |-> "NONE", revision |-> 0]]
    /\ issued = [p \in Proposals |-> NoCommand]

----------------------------------------------------------------------------
(* Generations and proposals *)

\* Root gets the record of the generation in return.
create_generation_with_policy(g, policy) ==
    /\ generations[g].state = "NONE"
    /\ generations' = [generations EXCEPT ![g].state = "OPEN", ![g].policy = policy]
    /\ view' = [view EXCEPT ![g].state = "OPEN"]
    /\ UNCHANGED <<proposals, tasks, bindings, requirements, types, outbox, issued>>

get_generation_view(g) ==
    /\ generations[g].state # "NONE"
    /\ view' = [view EXCEPT ![g] = [state |-> generations[g].state,
                                    revision |-> generations[g].revision]]
    /\ UNCHANGED <<generations, proposals, tasks, bindings, requirements, types, outbox, issued>>

validate_semantic_input_set(g, intent) ==
    /\ \A t \in intent.results : tasks[t].state = "COMPLETED"
    /\ intent.seeds \subseteq SeedPayload[g]

\* Mutant: a FROZEN generation takes every intent.
AllowsCompileFrozen(state, fn) == state \in {"OPEN", "FROZEN"}

AllowsCompile(state, fn) == state = "OPEN" \/ (state = "FROZEN" /\ fn # "EXPAND")

\* Compiling an intent that is already compiled returns its proposal, or is refused if
\* the content differs.
NotCompiled(p) == proposals[p].state = "NONE"

compile_intent_inner(p, intent) ==
    LET g == p[1]
    IN  /\ NotCompiled(p)
        /\ AllowsCompile(generations[g].state, intent.fn)
        /\ validate_semantic_input_set(g, intent)
        /\ intent.spec # NoSpec => intent.spec.dependencies = {}
        /\ proposals' = [proposals EXCEPT ![p].state = "PENDING", ![p].intent = intent]
        /\ outbox' = [outbox EXCEPT ![g].available = @ + 1]
        /\ UNCHANGED <<generations, tasks, bindings, requirements, types, view, issued>>

compile_root_intent(p, intent) == p[2] \in RootKeys /\ compile_intent_inner(p, intent)

\* The intent is read from the result that carries it.
compile_result_intent(p) ==
    LET source == SourceTask[p[2]]
    IN  /\ p[2] \notin RootKeys
        /\ tasks[source].state = "COMPLETED"
        /\ compile_intent_inner(p, Carried[p[2]])

reject_proposal(p) ==
    /\ proposals[p].state = "PENDING"
    /\ proposals' = [proposals EXCEPT ![p].state = "REJECTED"]
    /\ UNCHANGED <<generations, tasks, bindings, requirements, types, outbox, view, issued>>

Expire(g, functions, reason) ==
    [p \in Proposals |->
        IF p[1] = g /\ proposals[p].state = "PENDING" /\ proposals[p].intent.fn \in functions
        THEN [proposals[p] EXCEPT !.state = "EXPIRED", !.reason = reason]
        ELSE proposals[p]]

\* Mutant: Root's view of the generation may be out of date.
AnyRevision(g, expected_revision) == TRUE

RevisionMatches(g, expected_revision) == generations[g].revision = expected_revision

freeze_generation(g, expected_revision) ==
    /\ generations[g].state = "OPEN"
    /\ RevisionMatches(g, expected_revision)
    /\ generations' = [generations EXCEPT ![g].state = "FROZEN", ![g].revision = @ + 1]
    /\ proposals' = Expire(g, {"EXPAND"}, "GENERATION_FROZEN")
    /\ outbox' = [outbox EXCEPT ![g].frozen = @ + 1]
    /\ UNCHANGED <<tasks, bindings, requirements, types, view, issued>>

is_generation_settled(g) == \A t \in TasksOf(g) : tasks[t].state \in Terminal

close_generation(g, expected_revision) ==
    /\ generations[g].state = "FROZEN"
    /\ RevisionMatches(g, expected_revision)
    /\ is_generation_settled(g)
    /\ generations' = [generations EXCEPT ![g].state = "CLOSED", ![g].revision = @ + 1]
    /\ proposals' = Expire(g, InformationFunction, "GENERATION_CLOSED")
    /\ outbox' = [outbox EXCEPT ![g].closed = @ + 1]
    /\ UNCHANGED <<tasks, bindings, requirements, types, view, issued>>

----------------------------------------------------------------------------
(* Requirements *)

derive_task_agent_requirement(policy, draft, fn, spec, ref) ==
    LET requirement == into_requirement(draft, ref, fn, spec)
    IN  {[requirement EXCEPT !.hard = hard] : hard \in
            {folded \in Folded(policy, requirement.hard) : WellShaped(folded.capabilities)}}

\* At admission the type must be published, and able to execute the task.
build_task_agent_requirement(policy, draft, fn, spec) ==
    {requirement \in UNION {derive_task_agent_requirement(policy, draft, fn, spec, ref) :
                               ref \in resolve_selector(draft.selector, Published)} :
        can_execute(Contract[requirement.type], requirement.hard)}

\* Mutant: a replay looks at the catalog as it is now.
ResolveAnew(selector, committed) == resolve_selector(selector, Published)

\* A selector of a replay that names the committed type is answered by the pin.
resolve_draft_selector(selector, committed) ==
    IF selector \in {[kind |-> "Exact", ref |-> committed],
                     [kind |-> "Latest", ref |-> <<committed[1], 0>>]}
    THEN {committed}
    ELSE resolve_selector(selector, Published)

\* The policy raises what the task's own preference asks for.
EffectiveContinuity(policy, spec) ==
    IF policy = NoPolicy \/ required_continuity(spec.continuity) >= policy.continuity
    THEN required_continuity(spec.continuity)
    ELSE policy.continuity

\* The read cross-checks the requirement with the task, its binding and the policy:
\* it must be the fixed point of the fold.
get_task_agent_requirement(t) ==
    LET requirement == requirements[t]
        p == bindings[t].proposal
    IN  /\ types[requirement.type] # "NONE"
        /\ requirement.hard.affinity = bindings[t].spec.affinity
        /\ requirement.hard.workspace = bindings[t].spec.workspace
        /\ requirement.hard.fn = proposals[p].intent.fn
        /\ requirement.hard.continuity =
              EffectiveContinuity(generations[p[1]].policy, bindings[t].spec)
        /\ Folded(generations[p[1]].policy, requirement.hard) = {requirement.hard}

----------------------------------------------------------------------------
(* Admission *)

generation_allows_admit(state, fn) ==
    \/ state = "OPEN"
    \/ state = "FROZEN" /\ fn \in {"COMPRESS_POSITIVE", "COMPRESS_NEGATIVE"}

\* Mutant: an untyped admission does not look for a policy.
PolicyIgnored(g, draft) == TRUE

\* The policy is a ceiling on requirements: what has none is not admitted under it.
PolicyAllows(g, draft) == draft = NoDraft => generations[g].policy = NoPolicy

\* The specification to admit: an override must agree with the compiled one.
ResolvedSpec(compiled, override) ==
    {spec \in {compiled, override} \ {NoSpec} :
        NoSpec \in {compiled, override} \/ compiled = override}

SequenceAdvances(g) == generations' = [generations EXCEPT ![g].admission_seq = @ + 1]

\* The task, its binding and its requirement are created together.
admit_proposal_core(p, expected_revision, override, draft) ==
    LET g == p[1]
        intent == proposals[p].intent
        policy == generations[g].policy
    IN  /\ proposals[p].state = "PENDING"
        /\ RevisionMatches(g, expected_revision)
        /\ generation_allows_admit(generations[g].state, intent.fn)
        /\ PolicyAllows(g, draft)
        /\ validate_semantic_input_set(g, intent)
        /\ \E spec \in ResolvedSpec(intent.spec, override), t \in Tasks :
              /\ spec.dependencies = {}
              /\ tasks[t].state = "NONE" /\ spec.task \in {NoTask, t}
              /\ \E requirement \in IF draft = NoDraft THEN {NoRequirement}
                     ELSE build_task_agent_requirement(policy, draft, intent.fn, spec) :
                    requirements' = [requirements EXCEPT ![t] = requirement]
              /\ tasks' = [tasks EXCEPT ![t] =
                    [state |-> "OPEN", mode |-> IF draft = NoDraft THEN "LEGACY" ELSE "TYPED"]]
              /\ bindings' = [bindings EXCEPT ![t] =
                    [proposal |-> p, seq |-> generations[g].admission_seq + 1, spec |-> spec]]
              /\ proposals' = [proposals EXCEPT ![p].state = "ADMITTED", ![p].task = t]
        /\ SequenceAdvances(g)
        /\ issued' = [issued EXCEPT ![p] = [override |-> override, draft |-> draft]]
        /\ UNCHANGED <<types, outbox, view>>

\* Whether the command, issued again, is answered with the task that was admitted.
Replays(p, override, draft) ==
    LET t == proposals[p].task
        spec == bindings[t].spec
    IN  /\ proposals[p].state = "ADMITTED"
        /\ tasks[t].mode = IF draft = NoDraft THEN "LEGACY" ELSE "TYPED"
        /\ override \in {NoSpec, spec}
        /\ draft # NoDraft =>
              /\ get_task_agent_requirement(t)
              /\ \E ref \in resolve_draft_selector(draft.selector, requirements[t].type) :
                    requirements[t] \in derive_task_agent_requirement(
                        generations[p[1]].policy, draft, proposals[p].intent.fn, spec, ref)

----------------------------------------------------------------------------
(* The catalog and the kernel *)

\* A revision is published once; publishing the same content again changes nothing.  One
\* that is derived from another must refine it.
publish_agent_type(ref) ==
    /\ types[ref] = "NONE"
    /\ validate(Contract[ref])
    /\ Base[ref] # NoType =>
          types[Base[ref]] # "NONE" /\ is_valid_refinement(Contract[Base[ref]], Contract[ref])
    /\ types' = [types EXCEPT ![ref] = "PUBLISHED"]
    /\ UNCHANGED <<generations, proposals, tasks, bindings, requirements, outbox, view, issued>>

set_agent_type_status(ref) ==
    /\ types[ref] = "PUBLISHED"
    /\ types' = [types EXCEPT ![ref] = "DEPRECATED"]
    /\ UNCHANGED <<generations, proposals, tasks, bindings, requirements, outbox, view, issued>>

\* A task that no generation admitted.
submit_batch(t) ==
    /\ tasks[t].state = "NONE"
    /\ tasks' = [tasks EXCEPT ![t].state = "OPEN"]
    /\ UNCHANGED <<generations, proposals, bindings, requirements, types, outbox, view, issued>>

TaskEnds(t) ==
    /\ tasks[t].state = "OPEN"
    /\ \E state \in Terminal : tasks' = [tasks EXCEPT ![t].state = state]
    /\ UNCHANGED <<generations, proposals, bindings, requirements, types, outbox, view, issued>>

----------------------------------------------------------------------------

Next ==
    \/ \E g \in Generations :
          \/ \E policy \in Policies \cup {NoPolicy} : create_generation_with_policy(g, policy)
          \/ get_generation_view(g)
          \/ freeze_generation(g, view[g].revision)
          \/ close_generation(g, view[g].revision)
    \/ \E p \in Proposals :
          \/ \E intent \in Intents : compile_root_intent(p, intent)
          \/ compile_result_intent(p)
          \/ reject_proposal(p)
          \/ \E override \in Specs \cup {NoSpec}, draft \in Drafts \cup {NoDraft} :
                admit_proposal_core(p, view[p[1]].revision, override, draft)
    \/ \E ref \in TypeRefs : publish_agent_type(ref) \/ set_agent_type_status(ref)
    \/ \E t \in Tasks : submit_batch(t) \/ TaskEnds(t)

Spec == Init /\ [][Next]_vars

----------------------------------------------------------------------------
(* What is checked *)

\* Nothing is stranded: however compiling and admitting race with freezing and closing,
\* nothing is PENDING that its generation can never admit, and every task of a CLOSED
\* generation has ended.
NothingIsStranded ==
    /\ \A p \in Proposals : proposals[p].state = "PENDING" =>
          generation_allows_admit(generations[p[1]].state, proposals[p].intent.fn)
    /\ \A g \in Generations : generations[g].state = "CLOSED" =>
          \A t \in TasksOf(g) : tasks[t].state \in Terminal

\* Root never admits into a generation that has been frozen or closed since Root read
\* it, even if the proposal could still be admitted; and a decision is final: a proposal
\* that was admitted, rejected or expired is not opened again by whoever compiles its
\* intent once more, and no freeze or close changes it.
DecidedAsSeen ==
    [][\A p \in Proposals :
          /\ proposals[p].state = "PENDING" /\ proposals'[p].state = "ADMITTED" =>
                generations[p[1]].state = view[p[1]].state
          /\ proposals[p].state \in {"ADMITTED", "REJECTED", "EXPIRED"} =>
                proposals'[p] = proposals[p]]_vars

\* The policy of a generation is a ceiling: whatever was asked for, the task that was
\* admitted is typed and within it.
PolicyIsCeiling ==
    \A g \in Generations, t \in Tasks :
        LET policy == generations[g].policy
            hard == requirements[t].hard
        IN  t \in TasksOf(g) /\ policy # NoPolicy =>
                /\ tasks[t].mode = "TYPED"
                /\ hard.fn \in policy.functions
                /\ policy.affinity # AnyTag => hard.affinity \subseteq policy.affinity
                /\ hard.workspace = "write" => policy.workspace = "write"
                /\ hard.network = "enabled" => policy.network = "enabled"
                /\ hard.continuity >= policy.continuity
                /\ policy.sandbox # NoSandbox => hard.sandbox = policy.sandbox
                /\ policy.isolation => hard.isolation
                /\ policy.anchor # NoAnchor => hard.anchor = policy.anchor
                /\ hard.budget <= policy.budget

\* A commitment stands, whatever happened to the generation and the catalogue since: the
\* requirement of an admitted task passes the cross-checks of the authoritative read, and
\* the command that admitted it, issued again, is answered with its task.
ReplayIdempotent ==
    \A p \in Proposals : proposals[p].state = "ADMITTED" =>
        /\ tasks[proposals[p].task].mode = "TYPED" =>
              get_task_agent_requirement(proposals[p].task)
        /\ Replays(p, issued[p].override, issued[p].draft)

=============================================================================
