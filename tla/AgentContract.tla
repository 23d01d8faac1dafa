--------------------------- MODULE AgentContract ---------------------------
(***************************************************************************)
(* The pure relations of agentype-agent-contract: resolving a selector,    *)
(* folding the policy of a generation into the requirement of a task,      *)
(* whether a type can execute it, which type is more specific for it, what *)
(* refines what, and whether a source can provision it.                    *)
(*                                                                         *)
(* A relation that the code computes as Result<(), ContractError> is a     *)
(* predicate here; the kinds of refusal are told apart where a caller      *)
(* does.  A result that may fail is the set of its results: one or none.   *)
(***************************************************************************)
EXTENDS Naturals, FiniteSets

CONSTANTS
    NoAnchor, NoPolicy, NoSandbox,
    AnyTag,             \* AffinityConstraint::Any, no set of tags
    Inherited,          \* a SourceConfig that does not narrow its source's modes
    CapabilityCatalog   \* exact capability -> its definition

InformationFunction == {"EXPAND", "COMPRESS_POSITIVE", "COMPRESS_NEGATIVE"}
WorkspaceMode == {"read_only", "write"}
NetworkPolicy == {"disabled", "restricted", "enabled"}
LifecycleMode == {"EPHEMERAL", "RESIDENT", "REVIVABLE"}
ContinuityMode == 0..1          \* None < Logical

workspace_rank(mode) == IF mode = "read_only" THEN 0 ELSE 1

network_rank(policy) ==
    CASE policy = "disabled" -> 0 [] policy = "restricted" -> 1 [] OTHER -> 2

required_lifecycle(ephemeral) == IF ephemeral THEN "EPHEMERAL" ELSE "RESIDENT"

----------------------------------------------------------------------------
(* Capabilities.  A value is [kind |-> its shape, v |-> its content]; the catalog gives
   the shape, whether only imported evidence proves it, and which direction narrows. *)

MatcherKind == {"Bool", "Set", "Ordered", "Quantity", "Exact"}

CapabilityDefinition ==
    [matcher : MatcherKind, evidence : BOOLEAN, polarity : {"Ability", "Restriction"}]

\* Ranks and quantities are not negative; only their order is used.
Graded(value) ==
    /\ value.kind = "Ordered" => value.v.rank \in Nat
    /\ value.kind = "Quantity" => value.v \in Nat

\* The same of the budget, of a contract or of a requirement.
Sized(x) ==
    /\ x.budget \in Nat
    /\ \A c \in DOMAIN x.capabilities : Graded(x.capabilities[c])

\* Bool(false) is absence, and the same as no entry.
is_present(value) == value.kind = "Bool" => value.v

Present(capabilities) == {c \in DOMAIN capabilities : is_present(capabilities[c])}

\* The order that the match tables below read in one direction or the other.
AtLeast(matcher, low, high) ==
    /\ low.kind = matcher /\ high.kind = matcher
    /\ CASE matcher = "Bool" -> low.v => high.v
         [] matcher = "Set" -> low.v \subseteq high.v
         [] matcher = "Ordered" -> low.v.class = high.v.class /\ low.v.rank <= high.v.rank
         [] matcher = "Quantity" -> low.v <= high.v
         [] OTHER -> low.v = high.v

value_satisfies(matcher, required, provided) == AtLeast(matcher, required, provided)

value_within(ceiling, value) == AtLeast(ceiling.kind, value, ceiling)

\* Mutant: the two polarities narrow in the same direction.
AbilityMayGrow(matcher, base, derived) == AtLeast(matcher, base, derived)

ability_value_no_wider(matcher, base, derived) == AtLeast(matcher, derived, base)

restriction_value_no_wider(matcher, base, derived) == AtLeast(matcher, base, derived)

\* Mutant: the weaker of two quantities.
JoinWeaker(matcher, a, b) ==
    IF matcher = "Quantity" THEN {IF a.v <= b.v THEN a ELSE b} ELSE {a}

\* The stronger of two requirements, if they are compatible.
join_requirement_values(matcher, a, b) ==
    CASE matcher = "Bool" -> {[kind |-> matcher, v |-> a.v \/ b.v]}
      [] matcher = "Set" -> {[kind |-> matcher, v |-> a.v \cup b.v]}
      [] matcher = "Ordered" -> {x \in {IF a.v.rank >= b.v.rank THEN a ELSE b} :
                                    a.v.class = b.v.class}
      [] matcher = "Quantity" -> {IF a.v >= b.v THEN a ELSE b}
      [] OTHER -> {x \in {a} : a.v = b.v}

\* Every capability is known to the catalog, in the shape the catalog gives it.
WellShaped(capabilities) ==
    \A c \in DOMAIN capabilities :
        /\ c \in DOMAIN CapabilityCatalog
        /\ capabilities[c].kind = CapabilityCatalog[c].matcher

\* AgentTypeContract::validate
validate(contract) == contract.lifecycle # {} /\ WellShaped(contract.capabilities)

----------------------------------------------------------------------------
(* Selectors: [kind |-> "Exact", ref |-> <<type, revision>>] or
   [kind |-> "Latest", ref |-> <<type, 0>>] *)

Revisions(published, id) == {ref \in published : ref[1] = id}

\* The exact revisions that a selector stands for: one, or none.
resolve_selector(selector, published) ==
    IF selector.kind = "Exact"
    THEN {selector.ref} \cap published
    ELSE {ref \in Revisions(published, selector.ref[1]) :
             \A other \in Revisions(published, selector.ref[1]) : other[2] <= ref[2]}

----------------------------------------------------------------------------
(* Requirements *)

\* Only the preference "required" makes continuity a hard requirement.
required_continuity(preference) == IF preference = "required" THEN 1 ELSE 0

\* The dimensions that the task's specification owns come from it, the others from
\* the draft.
into_requirement(draft, type, fn, spec) ==
    [type |-> type,
     hard |-> [fn |-> fn, affinity |-> spec.affinity, workspace |-> spec.workspace,
               continuity |-> required_continuity(spec.continuity),
               capabilities |-> draft.capabilities,
               network |-> draft.network, isolation |-> draft.isolation,
               sandbox |-> draft.sandbox, anchor |-> draft.anchor, budget |-> draft.budget]]

\* An equality that the policy may add, and that the task must not contradict.
Pinned(ours, theirs, none) == IF ours = none THEN theirs ELSE ours

\* The stricter of the policy and the requirement, dimension by dimension.
Stricter(policy, hard) ==
    [fn |-> hard.fn, affinity |-> hard.affinity, workspace |-> hard.workspace,
     continuity |-> IF policy.continuity >= hard.continuity
                    THEN policy.continuity ELSE hard.continuity,
     capabilities |-> hard.capabilities, network |-> hard.network,
     isolation |-> hard.isolation \/ policy.isolation,
     sandbox |-> Pinned(hard.sandbox, policy.sandbox, NoSandbox),
     anchor |-> Pinned(hard.anchor, policy.anchor, NoAnchor),
     budget |-> IF policy.budget <= hard.budget THEN policy.budget ELSE hard.budget]

\* None if the task asks for more than the generation allows.
fold_generation_policy(policy, hard) ==
    {folded \in {Stricter(policy, hard)} :
        /\ hard.fn \in policy.functions
        /\ policy.affinity = AnyTag \/ hard.affinity \subseteq policy.affinity
        /\ workspace_rank(hard.workspace) <= workspace_rank(policy.workspace)
        /\ network_rank(hard.network) <= network_rank(policy.network)
        /\ policy.sandbox \in {NoSandbox, folded.sandbox}
        /\ policy.anchor \in {NoAnchor, folded.anchor}}

\* A generation without a policy leaves the requirement as it is.
Folded(policy, hard) ==
    IF policy = NoPolicy THEN {hard} ELSE fold_generation_policy(policy, hard)

----------------------------------------------------------------------------
(* Whether a type can execute a task *)

affinity_accepts(constraint, required) ==
    constraint = AnyTag \/ required \subseteq constraint

sandbox_policy_within(required, allowed) ==
    allowed = NoSandbox \/ required = NoSandbox \/ required = allowed

\* A restriction is policy that the task may add: the two need only be compatible.
CapabilityExecutable(c, contract, hard) ==
    IF CapabilityCatalog[c].polarity = "Restriction"
    THEN c \in Present(contract.capabilities) =>
            join_requirement_values(CapabilityCatalog[c].matcher, contract.capabilities[c],
                                    hard.capabilities[c]) # {}
    ELSE /\ c \in Present(contract.capabilities)
         /\ value_satisfies(CapabilityCatalog[c].matcher, hard.capabilities[c],
                            contract.capabilities[c])

can_execute(contract, hard) ==
    /\ validate(contract) /\ WellShaped(hard.capabilities)
    /\ hard.fn \in contract.functions
    /\ \A c \in Present(hard.capabilities) : CapabilityExecutable(c, contract, hard)
    /\ affinity_accepts(contract.affinity, hard.affinity)
    /\ workspace_rank(contract.workspace) >= workspace_rank(hard.workspace)
    /\ network_rank(contract.network) >= network_rank(hard.network)
    /\ contract.continuity >= hard.continuity
    /\ sandbox_policy_within(hard.sandbox, contract.sandbox)
    /\ hard.anchor = NoAnchor \/ contract.anchor \in {NoAnchor, hard.anchor}
    /\ hard.budget <= contract.budget

----------------------------------------------------------------------------
(* Refinement and specificity *)

affinity_no_wider(a, b) == b = AnyTag \/ (a # AnyTag /\ a \subseteq b)

\* An ability narrows by shrinking and may be dropped; a restriction narrows by
\* growing and may be added.
capability_provision_no_wider(derived, base) ==
    /\ \A c \in Present(derived.capabilities) \ Present(base.capabilities) :
          /\ c \in DOMAIN CapabilityCatalog
          /\ CapabilityCatalog[c].polarity = "Restriction"
    /\ \A c \in Present(base.capabilities) :
          /\ c \in DOMAIN CapabilityCatalog
          /\ IF c \notin Present(derived.capabilities)
             THEN CapabilityCatalog[c].polarity = "Ability"
             ELSE IF CapabilityCatalog[c].polarity = "Ability"
             THEN ability_value_no_wider(CapabilityCatalog[c].matcher,
                                         base.capabilities[c], derived.capabilities[c])
             ELSE restriction_value_no_wider(CapabilityCatalog[c].matcher,
                                             base.capabilities[c], derived.capabilities[c])

\* Continuity is no part of this order: a stronger guarantee executes more tasks.
authority_no_wider(a, b) ==
    /\ a.functions \subseteq b.functions
    /\ affinity_no_wider(a.affinity, b.affinity)
    /\ a.budget <= b.budget
    /\ a.lifecycle \subseteq b.lifecycle
    /\ workspace_rank(a.workspace) <= workspace_rank(b.workspace)
    /\ network_rank(a.network) <= network_rank(b.network)
    /\ b.isolation => a.isolation
    /\ b.sandbox \in {NoSandbox, a.sandbox}
    /\ b.anchor \in {NoAnchor, a.anchor}
    /\ capability_provision_no_wider(a, b)

more_specific_for(a, b, hard) ==
    /\ can_execute(a, hard) /\ can_execute(b, hard)
    /\ authority_no_wider(a, b) /\ ~authority_no_wider(b, a)

is_valid_refinement(base, derived) ==
    /\ validate(base) /\ validate(derived)
    /\ derived.continuity >= base.continuity
    /\ authority_no_wider(derived, base)

----------------------------------------------------------------------------
(* The semantic preselection of existing agents.  A candidate is
   [agent, ref, contract, same_workstream]. *)

\* Another revision of the pinned type is never a substitute for it.
is_cross_revision_of_pin(ref, pin) == ref # pin /\ ref[1] = pin[1]

\* Exact, Narrower, Broader, OtherCompatible
relation(ref, contract, pin, required, hard) ==
    CASE ref = pin -> 0
      [] ref # pin /\ more_specific_for(contract, required, hard) -> 1
      [] ref # pin /\ more_specific_for(required, contract, hard) -> 2
      [] OTHER -> 3

\* Within one relation, how many candidates are strictly more specific.
Domination(c, eligible, pin, required, hard) ==
    Cardinality({o \in eligible :
        /\ relation(o.ref, o.contract, pin, required, hard)
             = relation(c.ref, c.contract, pin, required, hard)
        /\ o.ref # c.ref
        /\ more_specific_for(o.contract, c.contract, hard)})

\* Whether c is sorted before d.  The last keys, how long an agent has been available
\* and its identity, break the remaining ties one way or the other.
Before(c, d, eligible, pin, required, hard, placement) ==
    LET rel(x) == relation(x.ref, x.contract, pin, required, hard)
        dom(x) == Domination(x, eligible, pin, required, hard)
        away(x) == IF placement.continuity # "none" /\ ~x.same_workstream THEN 1 ELSE 0
    IN  \/ rel(c) < rel(d)
        \/ rel(c) = rel(d) /\ dom(c) < dom(d)
        \/ rel(c) = rel(d) /\ dom(c) = dom(d) /\ away(c) < away(d)
        \/ /\ rel(c) = rel(d) /\ dom(c) = dom(d) /\ away(c) = away(d)
           /\ c.contract.continuity > d.contract.continuity

placement_eligible(c, placement) ==
    /\ c.partition = placement.partition
    /\ placement.tags \subseteq c.tags
    /\ placement.continuity = "required" => c.same_workstream

\* The candidates that may be tried, in no order; Before sorts them.
match_existing_agents(candidates, pin, hard, placement) ==
    {c \in candidates : /\ placement_eligible(c, placement)
                       /\ can_execute(c.contract, hard)
                       /\ ~is_cross_revision_of_pin(c.ref, pin)}

----------------------------------------------------------------------------
(* Whether a source and one of its configurations can provision a type.  A claim is
   [ref, value]; an envelope maps capabilities to values; evidence is what the adapter's
   imported binding enforces, bound to one exact source, configuration and policy. *)

PhysicalSafety ==
    [isolation : BOOLEAN, workspaces : SUBSET WorkspaceMode, networks : SUBSET NetworkPolicy]

GradedClaims(claims) == \A claim \in claims : Graded(claim.value)

GradedSource(source) ==
    /\ GradedClaims(source.claims)
    /\ \A c \in DOMAIN source.envelope : Graded(source.envelope[c])

\* What is claimed for a capability: nothing, one value, or conflicting ones.
resolve_claim(claims, c) == {claim.value : claim \in {x \in claims : x.ref = c /\ is_present(x.value)}}

validate_claims(claims) ==
    \A claim \in claims :
        /\ claim.ref \in DOMAIN CapabilityCatalog
        /\ claim.value.kind = CapabilityCatalog[claim.ref].matcher
        /\ \A v, w \in resolve_claim(claims, claim.ref) : v = w

\* Functional declarations stay within the provisionable envelope.
ClaimsWithin(claims, envelope) ==
    \A claim \in claims :
        is_present(claim.value) /\ ~CapabilityCatalog[claim.ref].evidence =>
            /\ claim.ref \in DOMAIN envelope
            /\ value_within(envelope[claim.ref], claim.value)

validate_spawn_source(source) ==
    /\ validate_claims(source.claims)
    /\ WellShaped(source.envelope)
    /\ ClaimsWithin(source.claims, source.envelope)

\* A configuration may narrow its source and never widen it.
validate_source_config(config, source) ==
    /\ config.lifecycle # Inherited => config.lifecycle \subseteq source.lifecycle
    /\ config.continuity # Inherited =>
          \A needed \in config.continuity : \E have \in source.continuity : have >= needed
    /\ validate_claims(config.claims)
    /\ ClaimsWithin(config.claims, source.envelope)

effective_lifecycle(config, source) ==
    IF config.lifecycle = Inherited THEN source.lifecycle ELSE config.lifecycle

effective_continuity(config, source) ==
    IF config.continuity = Inherited THEN source.continuity ELSE config.continuity

continuity_satisfies(modes, required) == \E mode \in modes : mode >= required

\* The value that a source and its configuration provide: the configuration's
\* declaration, else the source's, else the ceiling; none outside the envelope.
effective_functional_value(source, config, c) ==
    IF c \notin Present(source.envelope) THEN {}
    ELSE IF resolve_claim(config.claims, c) # {} THEN resolve_claim(config.claims, c)
    ELSE IF resolve_claim(source.claims, c) # {} THEN resolve_claim(source.claims, c)
    ELSE {source.envelope[c]}

\* A value of a capability is proved: by the imported evidence for a security class,
\* by what the source and the configuration provide otherwise.
Proved(c, value, source, config, evidence) ==
    \E provided \in IF CapabilityCatalog[c].evidence
                    THEN {evidence.enforced[x] : x \in {c} \cap DOMAIN evidence.enforced}
                    ELSE effective_functional_value(source, config, c) :
        value_satisfies(CapabilityCatalog[c].matcher, value, provided)

\* The environment can hold the work to this workspace, network, isolation and sandbox.
Enforceable(restrictions, evidence) ==
    /\ restrictions.workspace \in evidence.safety.workspaces
    /\ restrictions.network \in evidence.safety.networks
    /\ restrictions.isolation => evidence.safety.isolation
    /\ restrictions.sandbox \in {NoSandbox} \cup evidence.sandboxes

\* Evidence for one configuration never authorizes another.
EvidenceSubject(evidence, source, config) ==
    /\ evidence.policy = source.policy
    /\ evidence.source = source.ref /\ evidence.config = config.ref

can_provision(contract, source, config, evidence) ==
    /\ validate(contract)
    /\ validate_spawn_source(source) /\ validate_source_config(config, source)
    /\ EvidenceSubject(evidence, source, config)
    /\ contract.lifecycle \subseteq effective_lifecycle(config, source)
    /\ continuity_satisfies(effective_continuity(config, source), contract.continuity)
    /\ \A c \in Present(contract.capabilities) :
          Proved(c, contract.capabilities[c], source, config, evidence)
    /\ Enforceable(contract, evidence)

\* The restriction of the task joins the one of the type.
EffectiveRestriction(c, contract, hard) ==
    IF c \in Present(contract.capabilities)
    THEN join_requirement_values(CapabilityCatalog[c].matcher, contract.capabilities[c],
                                 hard.capabilities[c])
    ELSE {hard.capabilities[c]}

can_provision_task(contract, source, config, evidence, hard) ==
    /\ can_execute(contract, hard)
    /\ can_provision(contract, source, config, evidence)
    /\ Enforceable(hard, evidence)
    /\ continuity_satisfies(effective_continuity(config, source), hard.continuity)
    /\ \A c \in Present(hard.capabilities) :
          CapabilityCatalog[c].polarity = "Restriction" =>
              \E value \in EffectiveRestriction(c, contract, hard) :
                  Proved(c, value, source, config, evidence)

=============================================================================
