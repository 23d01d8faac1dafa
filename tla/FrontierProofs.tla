--------------------------- MODULE FrontierProofs ---------------------------
(***************************************************************************)
(* What TLAPS proves about the semantic frontier, for every set of         *)
(* generations, keys, tasks, intents, policies, drafts and types: Root     *)
(* decides on what it saw, nothing is stranded, the policy is a ceiling    *)
(* and a commitment stands.                                                *)
(*                                                                         *)
(* The inductive invariant ties the rows of an admission together: the     *)
(* proposal, its task, the binding, the requirement and the command.       *)
(***************************************************************************)
EXTENDS Frontier, TLAPS

----------------------------------------------------------------------------
(* The fold of a policy *)

\* What the fold and the read of a requirement rely on.
Measured(hard) ==
    hard.isolation \in BOOLEAN /\ hard.continuity \in ContinuityMode /\ hard.budget \in Nat

\* A requirement within a policy.
Within(policy, hard) ==
    /\ hard.fn \in policy.functions
    /\ policy.affinity # AnyTag => hard.affinity \subseteq policy.affinity
    /\ hard.workspace = "write" => policy.workspace = "write"
    /\ hard.network = "enabled" => policy.network = "enabled"
    /\ hard.continuity >= policy.continuity
    /\ policy.sandbox # NoSandbox => hard.sandbox = policy.sandbox
    /\ policy.isolation => hard.isolation
    /\ policy.anchor # NoAnchor => hard.anchor = policy.anchor
    /\ hard.budget <= policy.budget

\* Stricter changes five dimensions only, and a second time none.
LEMMA StricterFacts ==
    ASSUME NEW policy \in Policies, NEW hard, Measured(hard)
    PROVE  LET folded == Stricter(policy, hard)
           IN  /\ Measured(folded)
               /\ folded.fn = hard.fn /\ folded.affinity = hard.affinity
               /\ folded.workspace = hard.workspace /\ folded.network = hard.network
               /\ folded.continuity >= policy.continuity
               /\ folded.continuity = IF hard.continuity >= policy.continuity
                                      THEN hard.continuity ELSE policy.continuity
               /\ folded.budget <= policy.budget
               /\ policy.isolation => folded.isolation
               /\ Stricter(policy, folded) = folded
<1> DEFINE folded == Stricter(policy, hard)
<1>1. /\ policy.isolation \in BOOLEAN /\ policy.continuity \in ContinuityMode
      /\ policy.budget \in Nat
    BY ContentAssumption
<1>2. /\ hard.isolation \in BOOLEAN /\ hard.continuity \in ContinuityMode
      /\ hard.budget \in Nat
    BY DEF Measured
<1>3. /\ folded.fn = hard.fn /\ folded.affinity = hard.affinity
      /\ folded.workspace = hard.workspace /\ folded.network = hard.network
      /\ folded.capabilities = hard.capabilities
    BY DEF Stricter
<1>4. folded.continuity = IF policy.continuity >= hard.continuity
                          THEN policy.continuity ELSE hard.continuity
    BY DEF Stricter
<1>5. folded.budget = IF policy.budget <= hard.budget THEN policy.budget ELSE hard.budget
    BY DEF Stricter
<1>6. folded.isolation = (hard.isolation \/ policy.isolation)
    BY DEF Stricter
<1>7. /\ folded.sandbox = Pinned(hard.sandbox, policy.sandbox, NoSandbox)
      /\ folded.anchor = Pinned(hard.anchor, policy.anchor, NoAnchor)
    BY DEF Stricter
<1>8. folded = [fn |-> folded.fn, affinity |-> folded.affinity, workspace |-> folded.workspace,
                continuity |-> folded.continuity, capabilities |-> folded.capabilities,
                network |-> folded.network, isolation |-> folded.isolation,
                sandbox |-> folded.sandbox, anchor |-> folded.anchor,
                budget |-> folded.budget]
    BY DEF Stricter
<1> HIDE DEF folded
<1>9. /\ folded.continuity \in ContinuityMode /\ folded.continuity >= policy.continuity
      /\ folded.continuity = IF hard.continuity >= policy.continuity
                             THEN hard.continuity ELSE policy.continuity
      /\ (IF policy.continuity >= folded.continuity
          THEN policy.continuity ELSE folded.continuity) = folded.continuity
    BY <1>1, <1>2, <1>4 DEF ContinuityMode
<1>10. /\ folded.budget \in Nat /\ folded.budget <= policy.budget
       /\ (IF policy.budget <= folded.budget
           THEN policy.budget ELSE folded.budget) = folded.budget
    BY <1>1, <1>2, <1>5
<1>11. /\ folded.isolation \in BOOLEAN /\ policy.isolation => folded.isolation
       /\ (folded.isolation \/ policy.isolation) = folded.isolation
    BY <1>1, <1>2, <1>6
<1>12. /\ Pinned(folded.sandbox, policy.sandbox, NoSandbox) = folded.sandbox
       /\ Pinned(folded.anchor, policy.anchor, NoAnchor) = folded.anchor
    BY <1>7 DEF Pinned
<1>13. Stricter(policy, folded) = folded
    BY <1>8, <1>9, <1>10, <1>11, <1>12, Zenon DEF Stricter
<1>14. Measured(folded)
    BY Zenon, <1>9, <1>10, <1>11 DEF Measured
<1> QED
    BY Zenon, <1>3, <1>9, <1>10, <1>11, <1>13, <1>14 DEF folded

\* What the fold lets through is within the policy, and a fixed point of the fold.
LEMMA FoldFacts ==
    ASSUME NEW policy \in Policies \cup {NoPolicy}, NEW hard, Measured(hard),
           NEW folded \in Folded(policy, hard)
    PROVE  /\ Measured(folded)
           /\ folded.fn = hard.fn /\ folded.affinity = hard.affinity
           /\ folded.workspace = hard.workspace
           /\ folded.continuity = IF policy = NoPolicy \/ hard.continuity >= policy.continuity
                                  THEN hard.continuity ELSE policy.continuity
           /\ policy # NoPolicy => Within(policy, folded)
           /\ Folded(policy, folded) = {folded}
<1>1. CASE policy = NoPolicy
    BY <1>1 DEF Folded
<1>2. CASE policy # NoPolicy
    <2>1. policy \in Policies
        BY <1>2
    <2>2. /\ folded = Stricter(policy, hard)
          /\ hard.fn \in policy.functions
          /\ policy.affinity = AnyTag \/ hard.affinity \subseteq policy.affinity
          /\ workspace_rank(hard.workspace) <= workspace_rank(policy.workspace)
          /\ network_rank(hard.network) <= network_rank(policy.network)
          /\ policy.sandbox \in {NoSandbox, folded.sandbox}
          /\ policy.anchor \in {NoAnchor, folded.anchor}
        BY <1>2 DEF Folded, fold_generation_policy
    <2>3. /\ Measured(folded)
          /\ folded.fn = hard.fn /\ folded.affinity = hard.affinity
          /\ folded.workspace = hard.workspace /\ folded.network = hard.network
          /\ folded.continuity >= policy.continuity
          /\ folded.continuity = IF hard.continuity >= policy.continuity
                                 THEN hard.continuity ELSE policy.continuity
          /\ folded.budget <= policy.budget
          /\ policy.isolation => folded.isolation
          /\ Stricter(policy, folded) = folded
        BY <2>1, <2>2, StricterFacts
    <2>4. hard.workspace = "write" => policy.workspace = "write"
        BY <2>1, <2>2, ContentAssumption DEF workspace_rank, WorkspaceMode
    <2>5. hard.network = "enabled" => policy.network = "enabled"
        BY <2>1, <2>2, ContentAssumption DEF network_rank, NetworkPolicy
    <2>6. Within(policy, folded)
        BY <2>2, <2>3, <2>4, <2>5 DEF Within
    <2>7. fold_generation_policy(policy, folded) = {folded}
        BY <2>2, <2>3, Zenon DEF fold_generation_policy
    <2> QED
        BY <1>2, <2>3, <2>6, <2>7 DEF Folded
<1> QED
    BY <1>1, <1>2

\* A derived requirement keeps what the specification owns, is within the policy and
\* passes the cross-check of the authoritative read.
Derived(requirement, policy, fn, spec, ref) ==
    /\ requirement.type = ref
    /\ requirement.hard.fn = fn /\ requirement.hard.affinity = spec.affinity
    /\ requirement.hard.workspace = spec.workspace
    /\ requirement.hard.continuity = EffectiveContinuity(policy, spec)
    /\ policy # NoPolicy => Within(policy, requirement.hard)
    /\ Folded(policy, requirement.hard) = {requirement.hard}

LEMMA DerivedFacts ==
    ASSUME NEW policy \in Policies \cup {NoPolicy}, NEW draft \in Drafts, NEW fn, NEW spec,
           NEW ref,
           NEW requirement \in derive_task_agent_requirement(policy, draft, fn, spec, ref)
    PROVE  Derived(requirement, policy, fn, spec, ref)
<1> DEFINE asked == into_requirement(draft, ref, fn, spec)
<1>1. PICK hard \in Folded(policy, asked.hard) : requirement = [asked EXCEPT !.hard = hard]
    BY DEF derive_task_agent_requirement
<1>2. requirement.type = ref /\ requirement.hard = hard
    BY <1>1 DEF into_requirement
<1>3. /\ asked.hard.fn = fn /\ asked.hard.affinity = spec.affinity
      /\ asked.hard.workspace = spec.workspace
      /\ asked.hard.continuity = required_continuity(spec.continuity)
      /\ asked.hard.isolation = draft.isolation /\ asked.hard.budget = draft.budget
    BY DEF into_requirement
<1>4. Measured(asked.hard)
    BY <1>3, ContentAssumption DEF Measured, required_continuity, ContinuityMode
<1> HIDE DEF asked
<1>5. /\ hard.fn = asked.hard.fn /\ hard.affinity = asked.hard.affinity
      /\ hard.workspace = asked.hard.workspace
      /\ hard.continuity = IF policy = NoPolicy \/ asked.hard.continuity >= policy.continuity
                           THEN asked.hard.continuity ELSE policy.continuity
      /\ policy # NoPolicy => Within(policy, hard)
      /\ Folded(policy, hard) = {hard}
    BY <1>4, FoldFacts
<1> QED
    BY <1>2, <1>3, <1>5 DEF EffectiveContinuity, Derived

----------------------------------------------------------------------------
(* The inductive invariant *)

Compilable == Intents \cup {Carried[k] : k \in Keys \ RootKeys}

GenerationRow ==
    [state : {"NONE"} \cup GenerationState, revision : Nat, admission_seq : Nat,
     policy : Policies \cup {NoPolicy}]

ViewRow == [state : {"NONE"} \cup GenerationState, revision : Nat]

ProposalState == {"NONE", "PENDING", "ADMITTED", "EXPIRED", "REJECTED"}

ProposalRow ==
    [state : ProposalState, intent : Compilable \cup {"NONE"}, task : Tasks \cup {NoTask},
     reason : {"NONE", "GENERATION_FROZEN", "GENERATION_CLOSED"}]

TaskRow == [state : {"NONE", "OPEN"} \cup Terminal, mode : {"LEGACY", "TYPED"}]

Tables ==
    /\ generations \in [Generations -> GenerationRow]
    /\ view \in [Generations -> ViewRow]
    /\ proposals \in [Proposals -> ProposalRow]
    /\ \A p \in Proposals : proposals[p].state # "NONE" => proposals[p].intent \in Compilable
    /\ tasks \in [Tasks -> TaskRow]
    /\ types \in [TypeRefs -> {"NONE", "PUBLISHED", "DEPRECATED"}]
    /\ DOMAIN bindings = Tasks /\ DOMAIN requirements = Tasks /\ DOMAIN issued = Proposals

\* A generation is frozen once and closed once, so its revision tells its state; what
\* Root holds is a state the generation was in.
RevisionOf(state) == IF state = "CLOSED" THEN 2 ELSE IF state = "FROZEN" THEN 1 ELSE 0

Seen ==
    \A g \in Generations :
        /\ generations[g].state = "NONE" <=> view[g].state = "NONE"
        /\ generations[g].revision = RevisionOf(generations[g].state)
        /\ view[g].revision = RevisionOf(view[g].state)

Askable ==
    \A p \in Proposals : proposals[p].state = "PENDING" =>
        generation_allows_admit(generations[p[1]].state, proposals[p].intent.fn)

Settled ==
    \A g \in Generations : generations[g].state = "CLOSED" =>
        \A t \in TasksOf(g) : tasks[t].state \in Terminal

\* The selector of the draft names the type that was committed.
Names(selector, ref) ==
    selector \in {[kind |-> "Exact", ref |-> ref], [kind |-> "Latest", ref |-> <<ref[1], 0>>]}

\* The rows of an admission belong together.
Commitment(p) ==
    LET t == proposals[p].task
        draft == issued[p].draft
        requirement == requirements[t]
        policy == generations[p[1]].policy
    IN  /\ t \in Tasks /\ tasks[t].state # "NONE" /\ generations[p[1]].state # "NONE"
        /\ Bound(t) /\ bindings[t].proposal = p
        /\ issued[p].override \in {NoSpec, bindings[t].spec}
        /\ tasks[t].mode = IF draft = NoDraft THEN "LEGACY" ELSE "TYPED"
        /\ draft = NoDraft => policy = NoPolicy
        /\ draft # NoDraft =>
              /\ draft \in Drafts
              /\ requirement.type \in TypeRefs /\ types[requirement.type] # "NONE"
              /\ Names(draft.selector, requirement.type)
              /\ requirement \in derive_task_agent_requirement(
                    policy, draft, proposals[p].intent.fn, bindings[t].spec, requirement.type)

Committed ==
    /\ \A t \in Tasks : Bound(t) =>
          /\ bindings[t].proposal \in Proposals
          /\ proposals[bindings[t].proposal].state = "ADMITTED"
          /\ proposals[bindings[t].proposal].task = t
    /\ \A p \in Proposals : proposals[p].state = "ADMITTED" => Commitment(p)

FrontierInv == Tables /\ Seen /\ Askable /\ Settled /\ Committed

\* What no step takes back.
Stands ==
    /\ \A g \in Generations : generations[g].state # "NONE" =>
          generations'[g].state # "NONE" /\ generations'[g].policy = generations[g].policy
    /\ \A t \in Tasks : tasks[t].state # "NONE" =>
          /\ tasks'[t].state # "NONE" /\ tasks'[t].mode = tasks[t].mode
          /\ tasks[t].state \in Terminal => tasks'[t].state = tasks[t].state
          /\ bindings'[t] = bindings[t] /\ requirements'[t] = requirements[t]
    /\ \A p \in Proposals : proposals[p].state = "ADMITTED" =>
          proposals'[p] = proposals[p] /\ issued'[p] = issued[p]
    /\ \A ref \in TypeRefs : types[ref] # "NONE" => types'[ref] # "NONE"

\* A step that admits nothing.
AdmitsNothing ==
    /\ \A p \in Proposals : proposals'[p].state = "ADMITTED" => proposals[p].state = "ADMITTED"
    /\ \A t \in Tasks : bindings'[t] = bindings[t]

----------------------------------------------------------------------------
(* What the invariant is kept by *)

\* The function of a proposal is one of the three.
LEMMA FunctionFacts ==
    ASSUME Tables, NEW p \in Proposals, proposals[p].state # "NONE"
    PROVE  proposals[p].intent.fn \in InformationFunction
BY ContentAssumption DEF Tables, Compilable

\* A commitment stands through every step.
LEMMA CommitmentStands ==
    ASSUME FrontierInv, Stands, NEW p \in Proposals, proposals[p].state = "ADMITTED"
    PROVE  Commitment(p)'
<1>1. Commitment(p)
    BY DEF FrontierInv, Committed
<1>2. PICK t \in Tasks : t = proposals[p].task
    BY <1>1 DEF Commitment
<1>3. PICK g \in Generations : g = p[1]
    BY DEF Proposals
<1>4. proposals'[p] = proposals[p] /\ issued'[p] = issued[p]
    BY DEF Stands
<1>5. tasks[t].state # "NONE" /\ generations[g].state # "NONE"
    BY <1>1, <1>2, <1>3 DEF Commitment
<1>6. /\ tasks'[t].state # "NONE" /\ tasks'[t].mode = tasks[t].mode
      /\ bindings'[t] = bindings[t] /\ requirements'[t] = requirements[t]
      /\ generations'[g].state # "NONE" /\ generations'[g].policy = generations[g].policy
    BY <1>5 DEF Stands
<1>7. issued[p].draft # NoDraft =>
          requirements[t].type \in TypeRefs /\ types'[requirements[t].type] # "NONE"
    BY <1>1, <1>2 DEF Commitment, Stands
<1> QED
    BY Zenon, <1>1, <1>2, <1>3, <1>4, <1>6, <1>7 DEF Commitment, Bound

\* A bound task exists.
LEMMA BoundExists ==
    ASSUME FrontierInv, NEW t \in Tasks, Bound(t)
    PROVE  tasks[t].state # "NONE"
BY DEF FrontierInv, Committed, Commitment

LEMMA CommittedKept ==
    ASSUME FrontierInv, Stands, AdmitsNothing
    PROVE  Committed'
<1>1. ASSUME NEW p \in Proposals, proposals'[p].state = "ADMITTED"
      PROVE  Commitment(p)'
    BY <1>1, CommitmentStands DEF AdmitsNothing
<1>2. ASSUME NEW t \in Tasks, Bound(t)'
      PROVE  /\ bindings'[t].proposal \in Proposals
             /\ proposals'[bindings'[t].proposal].state = "ADMITTED"
             /\ proposals'[bindings'[t].proposal].task = t
    <2>1. bindings'[t] = bindings[t] /\ Bound(t)
        BY <1>2 DEF AdmitsNothing, Bound
    <2>2. /\ bindings[t].proposal \in Proposals
          /\ proposals[bindings[t].proposal].state = "ADMITTED"
          /\ proposals[bindings[t].proposal].task = t
        BY <2>1 DEF FrontierInv, Committed
    <2> QED
        BY <2>1, <2>2 DEF Stands
<1> QED
    BY <1>1, <1>2 DEF Committed

\* A generation that was closed stays settled.
LEMMA SettledKept ==
    ASSUME FrontierInv, Stands, AdmitsNothing, NEW g \in Generations,
           generations[g].state = "CLOSED"
    PROVE  \A t \in TasksOf(g)' : tasks'[t].state \in Terminal
<1> SUFFICES ASSUME NEW t \in TasksOf(g)' PROVE tasks'[t].state \in Terminal
    OBVIOUS
<1>1. t \in TasksOf(g)
    BY DEF TasksOf, Bound, AdmitsNothing
<1>2. t \in Tasks /\ Bound(t) /\ tasks[t].state \in Terminal
    BY <1>1 DEF TasksOf, FrontierInv, Settled
<1> QED
    BY <1>2, BoundExists DEF Stands

LEMMA AllSettledKept ==
    ASSUME FrontierInv, Stands, AdmitsNothing,
           \A g \in Generations :
               generations'[g].state = "CLOSED" => generations[g].state = "CLOSED"
    PROVE  Settled'
BY SettledKept DEF Settled

LEMMA FrontierInit == Init => FrontierInv
<1> SUFFICES ASSUME Init PROVE FrontierInv
    OBVIOUS
<1>1. Tables
    BY DEF Init, Tables, GenerationState, NoProposal, GenerationRow, ViewRow, ProposalRow,
       ProposalState, TaskRow
<1>2. Seen
    BY DEF Init, Seen, RevisionOf
<1>3. \A p \in Proposals : proposals[p].state = "NONE"
    BY DEF Init, NoProposal
<1>4. \A t \in Tasks : ~Bound(t)
    BY DEF Init, NoBinding, Bound
<1>5. Askable /\ Settled /\ Committed
    BY <1>3, <1>4 DEF Askable, Settled, Committed, TasksOf
<1> QED
    BY <1>1, <1>2, <1>5 DEF FrontierInv

----------------------------------------------------------------------------
(* Rows *)

\* A row is replaced in a table.
LEMMA Replaced ==
    ASSUME NEW S, NEW R, NEW table \in [S -> R], NEW x \in S, NEW row \in R, NEW new,
           new = [table EXCEPT ![x] = row]
    PROVE  /\ new \in [S -> R] /\ new[x] = row
           /\ \A y \in S \ {x} : new[y] = table[y]
OBVIOUS

LEMMA CreatedRow ==
    ASSUME NEW old \in GenerationRow, NEW policy \in Policies \cup {NoPolicy}, NEW row,
           row = [old EXCEPT !.state = "OPEN", !.policy = policy]
    PROVE  row \in GenerationRow /\ row.state = "OPEN" /\ row.revision = old.revision
BY Zenon DEF GenerationRow, GenerationState

LEMMA RejectedRow ==
    ASSUME NEW old \in ProposalRow, NEW row, row = [old EXCEPT !.state = "REJECTED"]
    PROVE  row \in ProposalRow /\ row.state = "REJECTED" /\ row.intent = old.intent
BY Zenon DEF ProposalRow, ProposalState

LEMMA ExpiredRow ==
    ASSUME NEW old \in ProposalRow, NEW reason \in {"GENERATION_FROZEN", "GENERATION_CLOSED"},
           NEW row, row = [old EXCEPT !.state = "EXPIRED", !.reason = reason]
    PROVE  row \in ProposalRow /\ row.state = "EXPIRED" /\ row.intent = old.intent
BY Zenon DEF ProposalRow, ProposalState

----------------------------------------------------------------------------
(* The steps *)

\* create_generation_with_policy: the policy is given once, at creation.
LEMMA CreateKeeps ==
    ASSUME FrontierInv, NEW g \in Generations, NEW policy \in Policies \cup {NoPolicy},
           create_generation_with_policy(g, policy)
    PROVE  FrontierInv' /\ AdmitsNothing
<1>1. /\ generations[g].state = "NONE"
      /\ generations' = [generations EXCEPT ![g].state = "OPEN", ![g].policy = policy]
      /\ view' = [view EXCEPT ![g].state = "OPEN"]
      /\ UNCHANGED <<proposals, tasks, bindings, requirements, types, issued>>
    BY DEF create_generation_with_policy
<1>2. Tables
    BY DEF FrontierInv
<1>3. PICK row : row = [generations[g] EXCEPT !.state = "OPEN", !.policy = policy]
    BY Zenon
<1>4. PICK seen : seen = [view[g] EXCEPT !.state = "OPEN"]
    BY Zenon
<1>5. /\ generations' = [generations EXCEPT ![g] = row] /\ view' = [view EXCEPT ![g] = seen]
      /\ UNCHANGED <<proposals, tasks, bindings, requirements, types, issued>>
    BY Zenon, <1>1, <1>3, <1>4 DEF Tables
<1>6. row \in GenerationRow /\ row.state = "OPEN" /\ row.revision = generations[g].revision
    BY ZenonT(60), <1>2, <1>3, CreatedRow DEF Tables
<1>7. seen \in ViewRow /\ seen.state = "OPEN" /\ seen.revision = view[g].revision
    BY Zenon, <1>2, <1>4 DEF Tables, ViewRow, GenerationState
<1>8. /\ generations' \in [Generations -> GenerationRow] /\ generations'[g] = row
      /\ \A h \in Generations \ {g} : generations'[h] = generations[h]
    BY Zenon, <1>2, <1>5, <1>6, Replaced DEF Tables
<1>9. /\ view' \in [Generations -> ViewRow] /\ view'[g] = seen
      /\ \A h \in Generations \ {g} : view'[h] = view[h]
    BY Zenon, <1>2, <1>5, <1>7, Replaced DEF Tables
<1>10. Tables'
    BY Zenon, <1>2, <1>5, <1>8, <1>9 DEF Tables
<1>a. generations[g].state = "NONE"
    BY Zenon, <1>1
<1>11. Stands /\ AdmitsNothing
    BY Zenon, <1>a, <1>5, <1>8 DEF Stands, AdmitsNothing
<1>12. Seen'
    BY ZenonT(60), <1>a, <1>6, <1>7, <1>8, <1>9 DEF FrontierInv, Seen, RevisionOf
<1>13. Askable'
    BY Zenon, <1>a, <1>5, <1>6, <1>8 DEF FrontierInv, Askable, generation_allows_admit, Proposals
<1>14. \A h \in Generations :
          generations'[h].state = "CLOSED" => generations[h].state = "CLOSED"
    BY Zenon, <1>6, <1>8
<1> QED
    BY Zenon, <1>10, <1>11, <1>12, <1>13, <1>14, AllSettledKept, CommittedKept DEF FrontierInv

\* get_generation_view: Root holds what the generation is.
LEMMA ViewKeeps ==
    ASSUME FrontierInv, NEW g \in Generations, get_generation_view(g)
    PROVE  FrontierInv' /\ AdmitsNothing
<1>1. /\ view' = [view EXCEPT ![g] = [state |-> generations[g].state,
                                      revision |-> generations[g].revision]]
      /\ UNCHANGED <<generations, proposals, tasks, bindings, requirements, types, issued>>
    BY DEF get_generation_view
<1>2. Tables /\ generations[g].state \in {"NONE"} \cup GenerationState
      /\ generations[g].revision \in Nat
    BY Zenon DEF FrontierInv, Tables, GenerationRow
<1>3. Tables'
    BY <1>1, <1>2 DEF Tables, ViewRow
<1>4. /\ view'[g].state = generations[g].state /\ view'[g].revision = generations[g].revision
      /\ \A h \in Generations \ {g} : view'[h] = view[h]
    BY <1>1, <1>2 DEF Tables
<1>5. Stands /\ AdmitsNothing
    BY <1>1 DEF Stands, AdmitsNothing
<1>6. Seen'
    BY <1>1, <1>4 DEF FrontierInv, Seen
<1>7. Askable'
    BY <1>1 DEF FrontierInv, Askable
<1> QED
    BY <1>1, <1>3, <1>5, <1>6, <1>7, AllSettledKept, CommittedKept DEF FrontierInv

\* compile_intent_inner: what may be compiled may be admitted.
LEMMA CompileKeeps ==
    ASSUME FrontierInv, NEW p \in Proposals, NEW intent \in Compilable,
           compile_intent_inner(p, intent)
    PROVE  FrontierInv' /\ AdmitsNothing
<1>1. /\ proposals[p].state = "NONE" /\ AllowsCompile(generations[p[1]].state, intent.fn)
      /\ proposals' = [proposals EXCEPT ![p].state = "PENDING", ![p].intent = intent]
      /\ UNCHANGED <<generations, tasks, bindings, requirements, types, view, issued>>
    BY DEF compile_intent_inner, NotCompiled
<1>2. Tables
    BY DEF FrontierInv
<1>3. PICK row : row = [proposals[p] EXCEPT !.state = "PENDING", !.intent = intent]
    BY Zenon
<1>4. /\ proposals' = [proposals EXCEPT ![p] = row]
      /\ UNCHANGED <<generations, tasks, bindings, requirements, types, view, issued>>
    BY Zenon, <1>1, <1>3 DEF Tables
<1>o. proposals[p] \in ProposalRow
    BY Zenon, <1>2 DEF Tables
<1>5. row \in ProposalRow /\ row.state = "PENDING" /\ row.intent = intent
    BY Zenon, <1>o, <1>3 DEF ProposalRow, ProposalState
<1>6. /\ proposals' \in [Proposals -> ProposalRow] /\ proposals'[p] = row
      /\ \A q \in Proposals \ {p} : proposals'[q] = proposals[q]
    BY Zenon, <1>2, <1>4, <1>5, Replaced DEF Tables
<1>b. \A q \in Proposals : proposals'[q].state # "NONE" => proposals'[q].intent \in Compilable
    BY <1>2, <1>5, <1>6 DEF Tables
<1>7. Tables'
    BY Zenon, <1>2, <1>4, <1>6, <1>b DEF Tables
<1>a. proposals[p].state = "NONE" /\ AllowsCompile(generations[p[1]].state, intent.fn)
    BY Zenon, <1>1
<1>8. Stands /\ AdmitsNothing
    BY <1>a, <1>4, <1>5, <1>6 DEF Stands, AdmitsNothing
<1>9. Seen'
    BY Zenon, <1>4 DEF FrontierInv, Seen, RevisionOf
<1>10. intent.fn \in InformationFunction
    BY ContentAssumption DEF Compilable
<1>11. generation_allows_admit(generations[p[1]].state, intent.fn)
    BY <1>a, <1>10 DEF AllowsCompile, generation_allows_admit, InformationFunction
<1>12. Askable'
    BY <1>4, <1>5, <1>6, <1>11 DEF FrontierInv, Askable, generation_allows_admit
<1>13. \A g \in Generations :
          generations'[g].state = "CLOSED" => generations[g].state = "CLOSED"
    BY Zenon, <1>4
<1> QED
    BY Zenon, <1>7, <1>8, <1>9, <1>12, <1>13, AllSettledKept, CommittedKept DEF FrontierInv

\* reject_proposal
LEMMA RejectKeeps ==
    ASSUME FrontierInv, NEW p \in Proposals, reject_proposal(p)
    PROVE  FrontierInv' /\ AdmitsNothing
<1>1. /\ proposals[p].state = "PENDING"
      /\ proposals' = [proposals EXCEPT ![p].state = "REJECTED"]
      /\ UNCHANGED <<generations, tasks, bindings, requirements, types, view, issued>>
    BY DEF reject_proposal
<1>2. Tables
    BY DEF FrontierInv
<1>3. PICK row : row = [proposals[p] EXCEPT !.state = "REJECTED"]
    BY Zenon
<1>4. /\ proposals' = [proposals EXCEPT ![p] = row]
      /\ UNCHANGED <<generations, tasks, bindings, requirements, types, view, issued>>
    BY Zenon, <1>1, <1>3 DEF Tables
<1>5. row \in ProposalRow /\ row.state = "REJECTED" /\ row.intent = proposals[p].intent
    BY Zenon, <1>2, <1>3, RejectedRow DEF Tables
<1>6. /\ proposals' \in [Proposals -> ProposalRow] /\ proposals'[p] = row
      /\ \A q \in Proposals \ {p} : proposals'[q] = proposals[q]
    BY Zenon, <1>2, <1>4, <1>5, Replaced DEF Tables
<1>a. proposals[p].state = "PENDING"
    BY Zenon, <1>1
<1>b. \A q \in Proposals : proposals'[q].state # "NONE" => proposals'[q].intent \in Compilable
    BY <1>a, <1>2, <1>5, <1>6 DEF Tables
<1>7. Tables'
    BY Zenon, <1>2, <1>4, <1>6, <1>b DEF Tables
<1>8. Stands /\ AdmitsNothing
    BY <1>a, <1>4, <1>5, <1>6 DEF Stands, AdmitsNothing
<1>9. Seen'
    BY Zenon, <1>4 DEF FrontierInv, Seen, RevisionOf
<1>10. Askable'
    BY <1>4, <1>5, <1>6 DEF FrontierInv, Askable, generation_allows_admit
<1>11. \A g \in Generations :
          generations'[g].state = "CLOSED" => generations[g].state = "CLOSED"
    BY Zenon, <1>4
<1> QED
    BY Zenon, <1>7, <1>8, <1>9, <1>10, <1>11, AllSettledKept, CommittedKept DEF FrontierInv

\* Expiring proposals touches PENDING ones only.
LEMMA ExpireFacts ==
    ASSUME Tables, NEW g \in Generations, NEW functions,
           NEW reason \in {"GENERATION_FROZEN", "GENERATION_CLOSED"},
           proposals' = Expire(g, functions, reason)
    PROVE  /\ proposals' \in [Proposals -> ProposalRow]
           /\ \A p \in Proposals :
                 /\ proposals'[p].intent = proposals[p].intent
                 /\ proposals[p].state # "PENDING" => proposals'[p] = proposals[p]
                 /\ proposals[p].state = "PENDING" =>
                       proposals'[p].state = IF p[1] = g /\ proposals[p].intent.fn \in functions
                                             THEN "EXPIRED" ELSE "PENDING"
<1>1. /\ DOMAIN proposals' = Proposals
      /\ \A p \in Proposals :
            proposals'[p] = IF p[1] = g /\ proposals[p].state = "PENDING"
                                /\ proposals[p].intent.fn \in functions
                            THEN [proposals[p] EXCEPT !.state = "EXPIRED", !.reason = reason]
                            ELSE proposals[p]
    BY Zenon DEF Expire
<1>2. proposals' = [p \in Proposals |-> proposals'[p]]
    BY Zenon DEF Expire
<1>3. ASSUME NEW p \in Proposals
      PROVE  /\ proposals'[p] \in ProposalRow
             /\ proposals'[p].intent = proposals[p].intent
             /\ proposals[p].state # "PENDING" => proposals'[p] = proposals[p]
             /\ proposals[p].state = "PENDING" =>
                   proposals'[p].state = IF p[1] = g /\ proposals[p].intent.fn \in functions
                                         THEN "EXPIRED" ELSE "PENDING"
    <2>1. proposals[p] \in ProposalRow
        BY Zenon DEF Tables
    <2>2. PICK row : row = [proposals[p] EXCEPT !.state = "EXPIRED", !.reason = reason]
        BY Zenon
    <2>3. row \in ProposalRow /\ row.state = "EXPIRED" /\ row.intent = proposals[p].intent
        BY Zenon, <2>1, <2>2, ExpiredRow
    <2> QED
        BY Zenon, <1>1, <2>1, <2>2, <2>3
<1>4. proposals' \in [Proposals -> ProposalRow]
    BY Zenon, <1>2, <1>3
<1> QED
    BY Zenon, <1>3, <1>4

\* freeze_generation: what a FROZEN generation does not admit expires.
LEMMA FreezeKeeps ==
    ASSUME FrontierInv, NEW g \in Generations, NEW expected \in Nat,
           freeze_generation(g, expected)
    PROVE  FrontierInv' /\ AdmitsNothing
<1>1. /\ generations[g].state = "OPEN"
      /\ generations' = [generations EXCEPT ![g].state = "FROZEN", ![g].revision = @ + 1]
      /\ proposals' = Expire(g, {"EXPAND"}, "GENERATION_FROZEN")
      /\ UNCHANGED <<tasks, bindings, requirements, types, view, issued>>
    BY DEF freeze_generation
<1>2. Tables
    BY DEF FrontierInv
<1>3. /\ proposals' \in [Proposals -> ProposalRow]
      /\ \A p \in Proposals :
            /\ proposals'[p].intent = proposals[p].intent
            /\ proposals[p].state # "PENDING" => proposals'[p] = proposals[p]
            /\ proposals[p].state = "PENDING" =>
                  proposals'[p].state = IF p[1] = g /\ proposals[p].intent.fn \in {"EXPAND"}
                                        THEN "EXPIRED" ELSE "PENDING"
    BY <1>1, <1>2, ExpireFacts
<1>r. PICK row : row = [generations[g] EXCEPT !.state = "FROZEN",
                                             !.revision = generations[g].revision + 1]
    BY Zenon
<1>s. /\ generations' = [generations EXCEPT ![g] = row]
      /\ UNCHANGED <<tasks, bindings, requirements, types, view, issued>>
    BY Zenon, <1>1, <1>2, <1>r DEF Tables
<1>t. generations[g] \in GenerationRow /\ generations[g].revision + 1 \in Nat
    BY <1>2 DEF Tables, GenerationRow
<1>u. /\ row \in GenerationRow /\ row.state = "FROZEN"
      /\ row.revision = generations[g].revision + 1 /\ row.policy = generations[g].policy
    BY Zenon, <1>t, <1>r DEF GenerationRow, GenerationState
<1>5. generations' \in [Generations -> GenerationRow] /\ generations'[g] = row
      /\ \A h \in Generations \ {g} : generations'[h] = generations[h]
    BY Zenon, <1>2, <1>s, <1>u, Replaced DEF Tables
<1>4. /\ generations'[g].state = "FROZEN"
      /\ generations'[g].revision = generations[g].revision + 1
      /\ generations'[g].policy = generations[g].policy
      /\ \A h \in Generations \ {g} : generations'[h] = generations[h]
    BY Zenon, <1>5, <1>u
<1>a. generations[g].state = "OPEN"
    BY Zenon, <1>1
<1>b. \A q \in Proposals : proposals'[q].state # "NONE" => proposals'[q].intent \in Compilable
    BY <1>2, <1>3 DEF Tables
<1>6. Tables'
    BY Zenon, <1>2, <1>3, <1>5, <1>s, <1>b DEF Tables
<1>7. Stands /\ AdmitsNothing
    BY <1>a, <1>s, <1>3, <1>4 DEF Stands, AdmitsNothing
<1>8. Seen'
    BY <1>a, <1>s, <1>4 DEF FrontierInv, Seen, RevisionOf
<1>9. ASSUME NEW p \in Proposals, proposals'[p].state = "PENDING"
      PROVE  generation_allows_admit(generations'[p[1]].state, proposals'[p].intent.fn)
    <2>1. /\ proposals[p].state = "PENDING" /\ proposals'[p].intent = proposals[p].intent
          /\ p[1] = g => proposals[p].intent.fn # "EXPAND"
          /\ p[1] \in Generations
        BY <1>3, <1>9 DEF Proposals
    <2>2. proposals[p].intent.fn \in InformationFunction
        BY <1>2, <2>1, FunctionFacts
    <2> QED
        BY <1>4, <2>1, <2>2
        DEF FrontierInv, Askable, generation_allows_admit, InformationFunction
<1>10. Askable'
    BY <1>9 DEF Askable
<1>11. \A h \in Generations :
           generations'[h].state = "CLOSED" => generations[h].state = "CLOSED"
    BY <1>4
<1> QED
    BY <1>6, <1>7, <1>8, <1>10, <1>11, AllSettledKept, CommittedKept DEF FrontierInv

\* close_generation: the tasks have ended, and what was PENDING expires.
LEMMA CloseKeeps ==
    ASSUME FrontierInv, NEW g \in Generations, NEW expected \in Nat,
           close_generation(g, expected)
    PROVE  FrontierInv' /\ AdmitsNothing
<1>1. /\ generations[g].state = "FROZEN" /\ is_generation_settled(g)
      /\ generations' = [generations EXCEPT ![g].state = "CLOSED", ![g].revision = @ + 1]
      /\ proposals' = Expire(g, InformationFunction, "GENERATION_CLOSED")
      /\ UNCHANGED <<tasks, bindings, requirements, types, view, issued>>
    BY DEF close_generation
<1>2. Tables
    BY DEF FrontierInv
<1>3. /\ proposals' \in [Proposals -> ProposalRow]
      /\ \A p \in Proposals :
            /\ proposals'[p].intent = proposals[p].intent
            /\ proposals[p].state # "PENDING" => proposals'[p] = proposals[p]
            /\ proposals[p].state = "PENDING" =>
                  proposals'[p].state = IF p[1] = g
                                            /\ proposals[p].intent.fn \in InformationFunction
                                        THEN "EXPIRED" ELSE "PENDING"
    BY <1>1, <1>2, ExpireFacts
<1>r. PICK row : row = [generations[g] EXCEPT !.state = "CLOSED",
                                             !.revision = generations[g].revision + 1]
    BY Zenon
<1>s. /\ generations' = [generations EXCEPT ![g] = row]
      /\ UNCHANGED <<tasks, bindings, requirements, types, view, issued>>
    BY Zenon, <1>1, <1>2, <1>r DEF Tables
<1>t. generations[g] \in GenerationRow /\ generations[g].revision + 1 \in Nat
    BY <1>2 DEF Tables, GenerationRow
<1>u. /\ row \in GenerationRow /\ row.state = "CLOSED"
      /\ row.revision = generations[g].revision + 1 /\ row.policy = generations[g].policy
    BY Zenon, <1>t, <1>r DEF GenerationRow, GenerationState
<1>5. generations' \in [Generations -> GenerationRow] /\ generations'[g] = row
      /\ \A h \in Generations \ {g} : generations'[h] = generations[h]
    BY Zenon, <1>2, <1>s, <1>u, Replaced DEF Tables
<1>4. /\ generations'[g].state = "CLOSED"
      /\ generations'[g].revision = generations[g].revision + 1
      /\ generations'[g].policy = generations[g].policy
      /\ \A h \in Generations \ {g} : generations'[h] = generations[h]
    BY Zenon, <1>5, <1>u
<1>a. generations[g].state = "FROZEN"
    BY Zenon, <1>1
<1>b. \A q \in Proposals : proposals'[q].state # "NONE" => proposals'[q].intent \in Compilable
    BY <1>2, <1>3 DEF Tables
<1>6. Tables'
    BY Zenon, <1>2, <1>3, <1>5, <1>s, <1>b DEF Tables
<1>7. Stands /\ AdmitsNothing
    BY Zenon, <1>a, <1>s, <1>3, <1>4 DEF Stands, AdmitsNothing
<1>8. Seen'
    BY <1>a, <1>s, <1>4 DEF FrontierInv, Seen, RevisionOf
<1>9. ASSUME NEW p \in Proposals, proposals'[p].state = "PENDING"
      PROVE  generation_allows_admit(generations'[p[1]].state, proposals'[p].intent.fn)
    <2>1. proposals[p].state = "PENDING" /\ proposals'[p].intent = proposals[p].intent
        BY <1>3, <1>9
    <2>2. proposals[p].intent.fn \in InformationFunction
        BY <1>2, <2>1, FunctionFacts
    <2>3. p[1] \in Generations \ {g}
        BY <1>3, <1>9, <2>1, <2>2 DEF Proposals
    <2> QED
        BY <1>4, <2>1, <2>3 DEF FrontierInv, Askable
<1>10. Askable'
    BY <1>9 DEF Askable
<1>11. TasksOf(g)' = TasksOf(g)
    BY <1>1 DEF TasksOf, Bound
<1>12. Settled'
    <2> SUFFICES ASSUME NEW h \in Generations, generations'[h].state = "CLOSED"
                 PROVE  \A t \in TasksOf(h)' : tasks'[t].state \in Terminal
        BY DEF Settled
    <2>1. CASE h = g
        BY <1>1, <1>11, <2>1 DEF is_generation_settled
    <2>2. CASE h # g
        BY <1>4, <1>7, <2>2, SettledKept
    <2> QED
        BY <2>1, <2>2
<1> QED
    BY <1>6, <1>7, <1>8, <1>10, <1>12, CommittedKept DEF FrontierInv

\* The catalog changes under what was committed, and forgets no revision.
LEMMA CatalogKeeps ==
    ASSUME FrontierInv, NEW ref \in TypeRefs,
           publish_agent_type(ref) \/ set_agent_type_status(ref)
    PROVE  FrontierInv' /\ AdmitsNothing
<1>1. /\ types' \in {[types EXCEPT ![ref] = "PUBLISHED"], [types EXCEPT ![ref] = "DEPRECATED"]}
      /\ UNCHANGED <<generations, proposals, tasks, bindings, requirements, view, issued>>
    BY DEF publish_agent_type, set_agent_type_status
<1>2. Tables
    BY DEF FrontierInv
<1>3. /\ types' \in [TypeRefs -> {"NONE", "PUBLISHED", "DEPRECATED"}]
      /\ \A other \in TypeRefs : types[other] # "NONE" => types'[other] # "NONE"
    BY <1>1, <1>2 DEF Tables
<1>4. Tables'
    BY <1>1, <1>2, <1>3 DEF Tables
<1>5. Stands /\ AdmitsNothing
    BY Zenon, <1>1, <1>3 DEF Stands, AdmitsNothing
<1>6. Seen' /\ Askable'
    BY <1>1 DEF FrontierInv, Seen, Askable
<1> QED
    BY <1>1, <1>4, <1>5, <1>6, AllSettledKept, CommittedKept DEF FrontierInv

\* Tasks are submitted, and end.
LEMMA TaskKeeps ==
    ASSUME FrontierInv, NEW t \in Tasks, submit_batch(t) \/ TaskEnds(t)
    PROVE  FrontierInv' /\ AdmitsNothing
<1>1. PICK state \in {"OPEN"} \cup Terminal :
          /\ tasks' = [tasks EXCEPT ![t].state = state]
          /\ tasks[t].state \in {"NONE", "OPEN"}
    BY DEF submit_batch, TaskEnds
<1>2. UNCHANGED <<generations, proposals, bindings, requirements, types, view, issued>>
    BY DEF submit_batch, TaskEnds
<1>3. Tables
    BY DEF FrontierInv
<1>r. PICK row : row = [tasks[t] EXCEPT !.state = state]
    BY Zenon
<1>s. tasks[t] \in TaskRow /\ tasks' = [tasks EXCEPT ![t] = row]
    BY Zenon, <1>1, <1>3, <1>r DEF Tables
<1>u. row \in TaskRow /\ row.state = state /\ row.mode = tasks[t].mode
    BY Zenon, <1>r, <1>s DEF TaskRow
<1>v. /\ tasks' \in [Tasks -> TaskRow] /\ tasks'[t] = row
      /\ \A u \in Tasks \ {t} : tasks'[u] = tasks[u]
    BY Zenon, <1>3, <1>s, <1>u, Replaced DEF Tables
<1>4. /\ tasks' \in [Tasks -> TaskRow]
      /\ tasks'[t].state = state /\ tasks'[t].mode = tasks[t].mode
      /\ \A u \in Tasks \ {t} : tasks'[u] = tasks[u]
    BY Zenon, <1>u, <1>v
<1>5. Tables'
    BY <1>2, <1>3, <1>4 DEF Tables
<1>6. state # "NONE" /\ tasks[t].state \notin Terminal
    BY Zenon, <1>1 DEF Terminal
<1>7. Stands /\ AdmitsNothing
    BY Zenon, <1>2, <1>4, <1>6 DEF Stands, AdmitsNothing
<1>8. Seen' /\ Askable'
    BY <1>2 DEF FrontierInv, Seen, Askable
<1> QED
    BY <1>2, <1>5, <1>7, <1>8, AllSettledKept, CommittedKept DEF FrontierInv

\* A type that a selector was resolved to is published, and named by the selector.
LEMMA ResolvedFacts ==
    ASSUME Tables, NEW draft \in Drafts, NEW ref \in resolve_selector(draft.selector, Published)
    PROVE  ref \in TypeRefs /\ types[ref] # "NONE" /\ Names(draft.selector, ref)
<1>1. ref \in Published
    BY DEF resolve_selector, Revisions
<1>2. ref \in TypeRefs /\ types[ref] # "NONE"
    BY <1>1 DEF Published
<1>3. draft.selector \in Selectors
    BY ContentAssumption
<1>4. CASE draft.selector \in [kind : {"Exact"}, ref : TypeRefs]
    <2>1. draft.selector.kind = "Exact" /\ draft.selector.ref = ref
        BY <1>4 DEF resolve_selector
    <2>2. draft.selector = [kind |-> "Exact", ref |-> ref]
        BY <1>4, <2>1
    <2> QED
        BY <1>2, <2>2 DEF Names
<1>5. CASE draft.selector \in [kind : {"Latest"}, ref : TypeIds \X {0}]
    <2>1. draft.selector.kind = "Latest" /\ draft.selector.ref \in TypeIds \X {0}
        BY <1>5
    <2>2. ref[1] = draft.selector.ref[1]
        BY <2>1 DEF resolve_selector, Revisions
    <2>3. draft.selector.ref = <<ref[1], 0>>
        BY <2>1, <2>2
    <2>4. draft.selector = [kind |-> "Latest", ref |-> <<ref[1], 0>>]
        BY <1>5, <2>3
    <2> QED
        BY <1>2, <2>4 DEF Names
<1> QED
    BY <1>3, <1>4, <1>5 DEF Selectors

\* admit_proposal_core: task, binding, requirement, proposal and sequence together.
LEMMA AdmitKeeps ==
    ASSUME FrontierInv, NEW p \in Proposals, NEW expected \in Nat,
           NEW override \in Specs \cup {NoSpec}, NEW draft \in Drafts \cup {NoDraft},
           admit_proposal_core(p, expected, override, draft)
    PROVE  FrontierInv'
<1> DEFINE g == p[1]
           fn == proposals[p].intent.fn
           policy == generations[g].policy
<1>1. /\ proposals[p].state = "PENDING"
      /\ generation_allows_admit(generations[g].state, fn)
      /\ draft = NoDraft => policy = NoPolicy
      /\ generations' = [generations EXCEPT ![g].admission_seq = @ + 1]
      /\ issued' = [issued EXCEPT ![p] = [override |-> override, draft |-> draft]]
      /\ types' = types /\ view' = view
    BY DEF admit_proposal_core, PolicyAllows, SequenceAdvances
<1>2. PICK spec \in ResolvedSpec(proposals[p].intent.spec, override), t \in Tasks :
          /\ tasks[t].state = "NONE"
          /\ \E requirement \in IF draft = NoDraft THEN {NoRequirement}
                    ELSE build_task_agent_requirement(policy, draft, fn, spec) :
                requirements' = [requirements EXCEPT ![t] = requirement]
          /\ tasks' = [tasks EXCEPT ![t] =
                [state |-> "OPEN", mode |-> IF draft = NoDraft THEN "LEGACY" ELSE "TYPED"]]
          /\ bindings' = [bindings EXCEPT ![t] =
                [proposal |-> p, seq |-> generations[g].admission_seq + 1, spec |-> spec]]
          /\ proposals' = [proposals EXCEPT ![p].state = "ADMITTED", ![p].task = t]
    BY Zenon DEF admit_proposal_core
<1>3. PICK requirement \in IF draft = NoDraft THEN {NoRequirement}
                           ELSE build_task_agent_requirement(policy, draft, fn, spec) :
          requirements' = [requirements EXCEPT ![t] = requirement]
    BY Zenon, <1>2
<1>4. Tables /\ g \in Generations
    BY Zenon DEF FrontierInv, Proposals
<1>5. /\ generations[g] \in GenerationRow /\ proposals[p] \in ProposalRow
      /\ policy \in Policies \cup {NoPolicy} /\ generations[g].admission_seq \in Nat
      /\ generations[g].admission_seq + 1 \in Nat
    <2>1. generations[g] \in GenerationRow /\ proposals[p] \in ProposalRow
        BY Zenon, <1>4 DEF Tables
    <2> QED
        BY <2>1 DEF GenerationRow
<1>a. PICK grown : grown = [generations[g] EXCEPT !.admission_seq = generations[g].admission_seq + 1]
    BY Zenon
<1>b. PICK admitted : admitted = [proposals[p] EXCEPT !.state = "ADMITTED", !.task = t]
    BY Zenon
<1>c. /\ generations' = [generations EXCEPT ![g] = grown]
      /\ proposals' = [proposals EXCEPT ![p] = admitted]
    BY Zenon, <1>1, <1>2, <1>4, <1>a, <1>b DEF Tables
<1>d. /\ grown \in GenerationRow /\ grown.state = generations[g].state
      /\ grown.revision = generations[g].revision /\ grown.policy = generations[g].policy
    BY Zenon, <1>5, <1>a DEF GenerationRow
<1>e. /\ admitted \in ProposalRow /\ admitted.state = "ADMITTED" /\ admitted.task = t
      /\ admitted.intent = proposals[p].intent
    BY Zenon, <1>5, <1>b DEF ProposalRow, ProposalState
<1> HIDE DEF g, fn, policy
<1>6. /\ generations' \in [Generations -> GenerationRow]
      /\ \A h \in Generations :
            /\ generations'[h].state = generations[h].state
            /\ generations'[h].revision = generations[h].revision
            /\ generations'[h].policy = generations[h].policy
    <2>1. /\ generations' \in [Generations -> GenerationRow] /\ generations'[g] = grown
          /\ \A h \in Generations \ {g} : generations'[h] = generations[h]
        BY Zenon, <1>4, <1>c, <1>d, Replaced DEF Tables
    <2> QED
        BY Zenon, <1>d, <2>1
<1>7. /\ proposals' \in [Proposals -> ProposalRow]
      /\ proposals'[p].state = "ADMITTED" /\ proposals'[p].task = t
      /\ proposals'[p].intent = proposals[p].intent
      /\ \A q \in Proposals \ {p} : proposals'[q] = proposals[q]
    <2>1. /\ proposals' \in [Proposals -> ProposalRow] /\ proposals'[p] = admitted
          /\ \A q \in Proposals \ {p} : proposals'[q] = proposals[q]
        BY Zenon, <1>4, <1>c, <1>e, Replaced DEF Tables
    <2> QED
        BY Zenon, <1>e, <2>1
<1>8. /\ tasks' \in [Tasks -> TaskRow]
      /\ tasks'[t].state = "OPEN"
      /\ tasks'[t].mode = IF draft = NoDraft THEN "LEGACY" ELSE "TYPED"
      /\ \A u \in Tasks \ {t} : tasks'[u] = tasks[u]
    <2>1. PICK mode \in {"LEGACY", "TYPED"} : mode = IF draft = NoDraft THEN "LEGACY" ELSE "TYPED"
        BY Zenon
    <2>2. PICK row : row = [state |-> "OPEN", mode |-> mode]
        BY Zenon
    <2>3. tasks' = [tasks EXCEPT ![t] = row] /\ row.state = "OPEN" /\ row.mode = mode
        BY Zenon, <1>2, <2>1, <2>2
    <2>4. row \in TaskRow
        BY Zenon, <2>2 DEF TaskRow
    <2>5. /\ tasks' \in [Tasks -> TaskRow] /\ tasks'[t] = row
          /\ \A u \in Tasks \ {t} : tasks'[u] = tasks[u]
        BY Zenon, <1>4, <2>3, <2>4, Replaced DEF Tables
    <2> QED
        BY Zenon, <2>1, <2>3, <2>5
<1>9. /\ DOMAIN bindings' = Tasks
      /\ bindings'[t].proposal = p /\ bindings'[t].spec = spec
      /\ bindings'[t].seq = generations[g].admission_seq + 1
      /\ \A u \in Tasks \ {t} : bindings'[u] = bindings[u]
    BY <1>2, <1>4 DEF Tables
<1>10. /\ DOMAIN requirements' = Tasks /\ requirements'[t] = requirement
       /\ \A u \in Tasks \ {t} : requirements'[u] = requirements[u]
    BY <1>3, <1>4 DEF Tables
<1>11. /\ DOMAIN issued' = Proposals
       /\ issued'[p].override = override /\ issued'[p].draft = draft
       /\ \A q \in Proposals \ {p} : issued'[q] = issued[q]
    BY <1>1, <1>4 DEF Tables
<1>12. Tables'
    <2>1. \A q \in Proposals : proposals'[q].state # "NONE" => proposals'[q].intent \in Compilable
        BY <1>1, <1>4, <1>7 DEF Tables
    <2> QED
        BY <2>1, <1>1, <1>4, <1>6, <1>7, <1>8, <1>9, <1>10, <1>11 DEF Tables
<1>13. Stands
    BY <1>1, <1>2, <1>6, <1>7, <1>8, <1>9, <1>10, <1>11 DEF Stands
<1>14. Seen'
    BY <1>1, <1>6 DEF FrontierInv, Seen
<1>15. Askable'
    <2>1. \A q \in Proposals : q[1] \in Generations
        BY Zenon DEF Proposals
    <2> QED
        BY Zenon, <1>6, <1>7, <2>1 DEF FrontierInv, Askable
<1>16. Bound(t)'
    BY SMTT(30), <1>5, <1>9 DEF Bound
<1>17. Settled'
    <2> SUFFICES ASSUME NEW h \in Generations, generations'[h].state = "CLOSED",
                        NEW u \in TasksOf(h)'
                 PROVE  tasks'[u].state \in Terminal
        BY Zenon DEF Settled
    <2>1. generations[h].state = "CLOSED" /\ h # g
        BY Zenon, <1>1, <1>6 DEF generation_allows_admit
    <2>2. u \in Tasks /\ bindings'[u].proposal[1] = h /\ Bound(u)'
        BY Zenon DEF TasksOf
    <2>3. u # t
        BY <1>9, <2>1, <2>2 DEF g
    <2>4. u \in TasksOf(h)
        BY Zenon, <1>9, <2>2, <2>3 DEF TasksOf, Bound
    <2>5. tasks[u].state \in Terminal
        BY <2>1, <2>4 DEF FrontierInv, Settled
    <2> QED
        BY Zenon, <1>8, <2>2, <2>3, <2>5
<1>18. Commitment(p)'
    <2>1. override \in {NoSpec, spec}
        BY DEF ResolvedSpec
    <2>2. generations[g].state # "NONE"
        BY <1>1 DEF generation_allows_admit
    <2>3. draft # NoDraft =>
              /\ draft \in Drafts
              /\ requirement.type \in TypeRefs /\ types'[requirement.type] # "NONE"
              /\ Names(draft.selector, requirement.type)
              /\ requirement \in
                    derive_task_agent_requirement(policy, draft, fn, spec, requirement.type)
        <3> SUFFICES ASSUME draft # NoDraft
                     PROVE  /\ draft \in Drafts
                            /\ requirement.type \in TypeRefs
                            /\ types'[requirement.type] # "NONE"
                            /\ Names(draft.selector, requirement.type)
                            /\ requirement \in derive_task_agent_requirement(
                                  policy, draft, fn, spec, requirement.type)
            BY Zenon
        <3>1. draft \in Drafts
            OBVIOUS
        <3>2. requirement \in build_task_agent_requirement(policy, draft, fn, spec)
            BY <1>3
        <3>3. PICK ref \in resolve_selector(draft.selector, Published) :
                  requirement \in derive_task_agent_requirement(policy, draft, fn, spec, ref)
            BY Zenon, <3>2 DEF build_task_agent_requirement
        <3>4. requirement.type = ref
            BY <1>5, <3>1, <3>3, DerivedFacts DEF Derived
        <3>5. ref \in TypeRefs /\ types[ref] # "NONE" /\ Names(draft.selector, ref)
            BY <1>4, <3>1, ResolvedFacts
        <3> QED
            BY <1>1, <3>1, <3>3, <3>4, <3>5
    <2>4. /\ generations'[p[1]].state # "NONE" /\ generations'[p[1]].policy = policy
          /\ proposals'[p].intent.fn = fn
        BY Zenon, <1>4, <1>6, <1>7, <2>2 DEF g, fn, policy
    <2> QED
        BY <1>1, <1>7, <1>8, <1>9, <1>10, <1>11, <1>16, <2>1, <2>3, <2>4 DEF Commitment
<1>19. Committed'
    <2>1. ASSUME NEW q \in Proposals, proposals'[q].state = "ADMITTED"
          PROVE  Commitment(q)'
        <3>1. CASE q = p
            BY Zenon, <3>1, <1>18
        <3>2. CASE q # p
            BY Zenon, <3>2, <2>1, <1>7, <1>13, CommitmentStands
        <3> QED
            BY <3>1, <3>2
    <2>2. ASSUME NEW u \in Tasks, Bound(u)'
          PROVE  /\ bindings'[u].proposal \in Proposals
                 /\ proposals'[bindings'[u].proposal].state = "ADMITTED"
                 /\ proposals'[bindings'[u].proposal].task = u
        <3>1. CASE u = t
            BY <3>1, <1>7, <1>9
        <3>2. CASE u # t
            <4>1. bindings'[u] = bindings[u] /\ Bound(u)
                BY Zenon, <2>2, <3>2, <1>9 DEF Bound
            <4>2. /\ bindings[u].proposal \in Proposals
                  /\ proposals[bindings[u].proposal].state = "ADMITTED"
                  /\ proposals[bindings[u].proposal].task = u
                BY Zenon, <4>1 DEF FrontierInv, Committed
            <4> QED
                BY ZenonT(60), <4>1, <4>2, <1>13 DEF Stands
        <3> QED
            BY Zenon, <3>1, <3>2
    <2> QED
        BY Zenon, <2>1, <2>2 DEF Committed
<1> QED
    BY <1>12, <1>14, <1>15, <1>17, <1>19 DEF FrontierInv

\* A step keeps the invariant, and only Root's command admits.
LEMMA FrontierStep ==
    ASSUME FrontierInv, [Next]_vars
    PROVE  /\ FrontierInv'
           /\ \/ AdmitsNothing
              \/ \E p \in Proposals, override \in Specs \cup {NoSpec},
                    draft \in Drafts \cup {NoDraft} :
                    admit_proposal_core(p, view[p[1]].revision, override, draft)
<1>1. \A g \in Generations : view[g].revision \in Nat
    BY DEF FrontierInv, Tables, ViewRow
<1>2. \A p \in Proposals : p[1] \in Generations /\ p[2] \in Keys
    BY Zenon DEF Proposals
<1>3. CASE UNCHANGED vars
    <2>1. Tables' /\ Seen' /\ Askable' /\ Stands /\ AdmitsNothing
        BY Zenon, <1>3 DEF FrontierInv, Tables, Seen, Askable, Stands, AdmitsNothing, vars
    <2>2. Settled'
        BY <1>3, <2>1, AllSettledKept DEF vars
    <2> QED
        BY <2>1, <2>2, CommittedKept DEF FrontierInv
<1>4. ASSUME NEW g \in Generations, NEW policy \in Policies \cup {NoPolicy},
             create_generation_with_policy(g, policy)
      PROVE  FrontierInv' /\ AdmitsNothing
    BY <1>4, CreateKeeps
<1>5. ASSUME NEW g \in Generations,
             \/ get_generation_view(g)
             \/ freeze_generation(g, view[g].revision)
             \/ close_generation(g, view[g].revision)
      PROVE  FrontierInv' /\ AdmitsNothing
    BY Zenon, <1>1, <1>5, ViewKeeps, FreezeKeeps, CloseKeeps
<1>6. ASSUME NEW p \in Proposals, NEW intent \in Intents, compile_root_intent(p, intent)
      PROVE  FrontierInv' /\ AdmitsNothing
    <2>1. intent \in Compilable /\ compile_intent_inner(p, intent)
        BY Zenon, <1>6 DEF Compilable, compile_root_intent
    <2> QED
        BY <2>1, CompileKeeps
<1>7. ASSUME NEW p \in Proposals, compile_result_intent(p)
      PROVE  FrontierInv' /\ AdmitsNothing
    <2>1. p[2] \in Keys \ RootKeys /\ compile_intent_inner(p, Carried[p[2]])
        BY <1>2, <1>7 DEF compile_result_intent
    <2>2. Carried[p[2]] \in Compilable
        BY <2>1 DEF Compilable
    <2> QED
        BY Zenon, <2>1, <2>2, CompileKeeps
<1>8. ASSUME NEW p \in Proposals, reject_proposal(p)
      PROVE  FrontierInv' /\ AdmitsNothing
    BY Zenon, <1>8, RejectKeeps
<1>9. ASSUME NEW p \in Proposals, NEW override \in Specs \cup {NoSpec},
             NEW draft \in Drafts \cup {NoDraft},
             admit_proposal_core(p, view[p[1]].revision, override, draft)
      PROVE  FrontierInv'
    BY <1>1, <1>2, <1>9, AdmitKeeps
<1>10. ASSUME NEW ref \in TypeRefs, publish_agent_type(ref) \/ set_agent_type_status(ref)
       PROVE  FrontierInv' /\ AdmitsNothing
    BY <1>10, CatalogKeeps
<1>11. ASSUME NEW t \in Tasks, submit_batch(t) \/ TaskEnds(t)
       PROVE  FrontierInv' /\ AdmitsNothing
    BY <1>11, TaskKeeps
<1> QED
    BY <1>3, <1>4, <1>5, <1>6, <1>7, <1>8, <1>9, <1>10, <1>11, Zenon DEF Next

----------------------------------------------------------------------------
(* The theorems *)

\* The rows of the frontier belong together in every reachable state: a task that is bound
\* was admitted by the proposal that names it, with the command and the requirement
\* that Root asked for, and what Root holds of a generation is a state it was in.
THEOREM FrontierInvariant == Spec => []FrontierInv
<1>1. FrontierInv /\ [Next]_vars => FrontierInv'
    BY FrontierStep
<1> QED
    BY <1>1, FrontierInit, PTL DEF Spec

\* freeze_generation, close_generation, compiling and admitting in any order leave nothing
\* PENDING that can never be admitted, and no open task in a CLOSED generation.
THEOREM NothingStranded == Spec => []NothingIsStranded
<1>1. FrontierInv => NothingIsStranded
    BY DEF FrontierInv, Askable, Settled, NothingIsStranded
<1> QED
    BY <1>1, FrontierInvariant, PTL

\* compile_intent_inner writes only what was never compiled; reject_proposal, the expiry of
\* freeze_generation and close_generation, and admit_proposal_core only what is PENDING.
LEMMA DecisionsStay ==
    ASSUME FrontierInv, [Next]_vars, NEW p \in Proposals,
           proposals[p].state \in {"ADMITTED", "REJECTED", "EXPIRED"}
    PROVE  proposals'[p] = proposals[p]
<1> USE Zenon
<1>1. ASSUME NEW q \in Proposals, proposals[q].state \in {"NONE", "PENDING"}, NEW row,
             proposals' = [proposals EXCEPT ![q] = row]
      PROVE  proposals'[p] = proposals[p]
    <2>1. p # q
        BY <1>1
    <2> QED
        BY <1>1, <2>1 DEF FrontierInv, Tables
<1>2. ASSUME NEW g, NEW functions, NEW reason, proposals' = Expire(g, functions, reason)
      PROVE  proposals'[p] = proposals[p]
    BY <1>2 DEF Expire
<1>3. ASSUME NEW g \in Generations,
             \/ \E policy \in Policies \cup {NoPolicy} : create_generation_with_policy(g, policy)
             \/ get_generation_view(g)
             \/ freeze_generation(g, view[g].revision) \/ close_generation(g, view[g].revision)
      PROVE  proposals'[p] = proposals[p]
    <2>1. \/ UNCHANGED proposals
          \/ proposals' = Expire(g, {"EXPAND"}, "GENERATION_FROZEN")
          \/ proposals' = Expire(g, InformationFunction, "GENERATION_CLOSED")
        BY <1>3 DEF create_generation_with_policy, get_generation_view, freeze_generation,
            close_generation
    <2> QED
        BY <1>2, <2>1
<1>4. ASSUME NEW q \in Proposals, NEW intent, compile_intent_inner(q, intent)
      PROVE  proposals'[p] = proposals[p]
    <2>1. /\ proposals[q].state = "NONE"
          /\ proposals' = [proposals EXCEPT ![q].state = "PENDING", ![q].intent = intent]
        BY <1>4 DEF compile_intent_inner, NotCompiled
    <2>2. p # q
        BY <2>1
    <2> QED
        BY <2>1, <2>2 DEF FrontierInv, Tables
<1>5. ASSUME NEW q \in Proposals, reject_proposal(q)
      PROVE  proposals'[p] = proposals[p]
    BY <1>1, <1>5 DEF reject_proposal
<1>6. ASSUME NEW q \in Proposals, NEW override, NEW draft,
             admit_proposal_core(q, view[q[1]].revision, override, draft)
      PROVE  proposals'[p] = proposals[p]
    <2>1. /\ proposals[q].state = "PENDING"
          /\ \E t \in Tasks :
                proposals' = [proposals EXCEPT ![q].state = "ADMITTED", ![q].task = t]
        BY <1>6 DEF admit_proposal_core
    <2>2. p # q
        BY <2>1
    <2> QED
        BY <2>1, <2>2 DEF FrontierInv, Tables
<1>7. CASE \/ UNCHANGED vars
           \/ \E ref \in TypeRefs : publish_agent_type(ref) \/ set_agent_type_status(ref)
           \/ \E t \in Tasks : submit_batch(t) \/ TaskEnds(t)
    BY <1>7 DEF vars, publish_agent_type, set_agent_type_status, submit_batch, TaskEnds
<1> QED
    BY <1>3, <1>4, <1>5, <1>6, <1>7 DEF Next, compile_root_intent, compile_result_intent

\* admit_proposal_core admits only into the state of the generation that Root saw, and
\* what was decided stays decided.
THEOREM RootDecidesAsSeen == Spec => DecidedAsSeen
<1>1. ASSUME FrontierInv, [Next]_vars, NEW p \in Proposals,
             proposals[p].state = "PENDING", proposals'[p].state = "ADMITTED"
      PROVE  generations[p[1]].state = view[p[1]].state
    <2>1. ~AdmitsNothing
        BY <1>1 DEF AdmitsNothing
    <2>2. PICK q \in Proposals, override \in Specs \cup {NoSpec},
               draft \in Drafts \cup {NoDraft} :
              admit_proposal_core(q, view[q[1]].revision, override, draft)
        BY Zenon, <1>1, <2>1, FrontierStep
    <2>3. /\ generations[q[1]].revision = view[q[1]].revision
          /\ \E t \in Tasks :
                proposals' = [proposals EXCEPT ![q].state = "ADMITTED", ![q].task = t]
        BY Zenon, <2>2 DEF admit_proposal_core, RevisionMatches
    <2>4. p = q
        BY Zenon, <1>1, <2>3 DEF FrontierInv, Tables
    <2>5. PICK g \in Generations : g = p[1]
        BY DEF Proposals
    <2>6. /\ generations[g].state \in {"NONE"} \cup GenerationState
          /\ view[g].state \in {"NONE"} \cup GenerationState
        BY Zenon, <1>1 DEF FrontierInv, Tables, GenerationRow, ViewRow
    <2>7. RevisionOf(generations[g].state) = RevisionOf(view[g].state)
        BY SMTT(30), <1>1, <2>3, <2>4, <2>5 DEF FrontierInv, Seen
    <2> QED
        BY SMTT(30), <1>1, <2>5, <2>6, <2>7 DEF FrontierInv, Seen, RevisionOf, GenerationState
<1>2. FrontierInv /\ [Next]_vars =>
          [\A p \in Proposals :
              /\ proposals[p].state = "PENDING" /\ proposals'[p].state = "ADMITTED" =>
                    generations[p[1]].state = view[p[1]].state
              /\ proposals[p].state \in {"ADMITTED", "REJECTED", "EXPIRED"} =>
                    proposals'[p] = proposals[p]]_vars
    BY <1>1, DecisionsStay
<1> QED
    BY <1>2, FrontierInvariant, PTL DEF Spec, DecidedAsSeen

\* The policy of a generation is a ceiling on every task it admitted, whatever the draft
\* asked for and however often the catalog changed.
THEOREM PolicyIsACeiling == Spec => []PolicyIsCeiling
<1>1. ASSUME FrontierInv, NEW g \in Generations, NEW t \in TasksOf(g),
             generations[g].policy # NoPolicy
      PROVE  tasks[t].mode = "TYPED" /\ Within(generations[g].policy, requirements[t].hard)
    <2>1. t \in Tasks /\ Bound(t) /\ bindings[t].proposal[1] = g
        BY <1>1 DEF TasksOf
    <2>2. PICK p \in Proposals : p = bindings[t].proposal /\ proposals[p].state = "ADMITTED"
                                 /\ proposals[p].task = t
        BY Zenon, <1>1, <2>1 DEF FrontierInv, Committed
    <2>3. Commitment(p)
        BY Zenon, <1>1, <2>2 DEF FrontierInv, Committed
    <2>4. /\ issued[p].draft \in Drafts /\ tasks[t].mode = "TYPED"
          /\ requirements[t] \in derive_task_agent_requirement(
                generations[g].policy, issued[p].draft, proposals[p].intent.fn,
                bindings[t].spec, requirements[t].type)
        BY Zenon, <1>1, <2>1, <2>2, <2>3 DEF Commitment
    <2>5. generations[g].policy \in Policies \cup {NoPolicy}
        BY Zenon, <1>1 DEF FrontierInv, Tables, GenerationRow
    <2> QED
        BY Zenon, <1>1, <2>4, <2>5, DerivedFacts DEF Derived
<1>2. FrontierInv => PolicyIsCeiling
    BY Zenon, <1>1 DEF PolicyIsCeiling, Within
<1> QED
    BY <1>2, FrontierInvariant, PTL

\* What was committed stays readable through the cross-checks of
\* get_task_agent_requirement, and the command that admitted it can be repeated: the
\* draft's selector is answered by the pin, whatever the catalog says by then.
THEOREM CommitmentsStand == Spec => []ReplayIdempotent
<1>1. ASSUME FrontierInv, NEW p \in Proposals, proposals[p].state = "ADMITTED"
      PROVE  /\ tasks[proposals[p].task].mode = "TYPED" =>
                   get_task_agent_requirement(proposals[p].task)
             /\ Replays(p, issued[p].override, issued[p].draft)
    <2>1. Commitment(p)
        BY <1>1 DEF FrontierInv, Committed
    <2>2. PICK t \in Tasks : t = proposals[p].task
        BY Zenon, <2>1 DEF Commitment
    <2>3. PICK policy \in Policies \cup {NoPolicy} : policy = generations[p[1]].policy
        BY Zenon, <1>1 DEF FrontierInv, Tables, Proposals, GenerationRow
    <2>4. /\ bindings[t].proposal = p
          /\ issued[p].override \in {NoSpec, bindings[t].spec}
          /\ tasks[t].mode = IF issued[p].draft = NoDraft THEN "LEGACY" ELSE "TYPED"
        BY Zenon, <2>1, <2>2 DEF Commitment
    <2>5. CASE issued[p].draft = NoDraft
        BY Zenon, <1>1, <2>2, <2>4, <2>5 DEF Replays
    <2>6. CASE issued[p].draft # NoDraft
        <3>1. /\ issued[p].draft \in Drafts
              /\ types[requirements[t].type] # "NONE"
              /\ Names(issued[p].draft.selector, requirements[t].type)
              /\ requirements[t] \in derive_task_agent_requirement(
                    policy, issued[p].draft, proposals[p].intent.fn, bindings[t].spec,
                    requirements[t].type)
            BY Zenon, <2>1, <2>2, <2>3, <2>6 DEF Commitment
        <3>2. /\ requirements[t].hard.fn = proposals[p].intent.fn
              /\ requirements[t].hard.affinity = bindings[t].spec.affinity
              /\ requirements[t].hard.workspace = bindings[t].spec.workspace
              /\ requirements[t].hard.continuity = EffectiveContinuity(policy, bindings[t].spec)
              /\ Folded(policy, requirements[t].hard) = {requirements[t].hard}
            <4>1. PICK draft, fn, spec, ref, requirement :
                      /\ draft = issued[p].draft /\ fn = proposals[p].intent.fn /\ spec = bindings[t].spec
                      /\ requirement = requirements[t] /\ ref = requirements[t].type
                BY Zenon
            <4>2. requirement \in derive_task_agent_requirement(
                      policy, draft, fn, spec, ref)
                BY Zenon, <3>1, <4>1
            <4>3. draft \in Drafts
                BY Zenon, <3>1, <4>1
            <4>4. Derived(requirement, policy, fn, spec, ref)
                BY Zenon, <2>3, <4>2, <4>3, DerivedFacts
            <4> QED
                BY Zenon, <4>1, <4>4 DEF Derived
        <3>3. get_task_agent_requirement(t)
            BY <2>3, <2>4, <3>1, <3>2, Zenon DEF get_task_agent_requirement
        <3>4. requirements[t].type \in
                  resolve_draft_selector(issued[p].draft.selector, requirements[t].type)
            BY Zenon, <3>1 DEF Names, resolve_draft_selector
        <3> QED
            BY Zenon, <1>1, <2>2, <2>3, <2>4, <2>6, <3>1, <3>3, <3>4 DEF Replays
    <2> QED
        BY Zenon, <2>5, <2>6
<1>2. FrontierInv => ReplayIdempotent
    BY Zenon, <1>1 DEF ReplayIdempotent
<1> QED
    BY <1>2, FrontierInvariant, PTL

=============================================================================
