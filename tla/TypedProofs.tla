---------------------------- MODULE TypedProofs ----------------------------
(***************************************************************************)
(* What TLAPS proves about typed work: the laws of the contract relations  *)
(* for every contract and requirement, and the properties of the catalogue *)
(* and of the acquisition for every instance of TypedAcquisition.          *)
(***************************************************************************)
EXTENDS TypedAcquisition, FiniteSetTheorems, TLAPS

----------------------------------------------------------------------------
(* The order of capability values *)

\* Whichever the matcher, the order of values is transitive.
LEMMA AtLeastTransitive ==
    ASSUME NEW m, NEW x, NEW y, NEW z, Graded(x), Graded(y), Graded(z),
           AtLeast(m, x, y), AtLeast(m, y, z)
    PROVE  AtLeast(m, x, z)
<1> USE Zenon
<1>1. CASE m = "Bool"
    BY <1>1 DEF AtLeast
<1>2. CASE m = "Set"
    BY <1>2 DEF AtLeast
<1>3. CASE m = "Ordered"
    <2>1. /\ x.v.class = y.v.class /\ y.v.class = z.v.class
          /\ x.v.rank <= y.v.rank /\ y.v.rank <= z.v.rank
          /\ x.kind = m /\ z.kind = m
        BY <1>3 DEF AtLeast
    <2>2. x.v.rank \in Nat /\ y.v.rank \in Nat /\ z.v.rank \in Nat
        BY <1>3 DEF AtLeast, Graded
    <2>3. x.v.rank <= z.v.rank
        BY SMT, <2>1, <2>2
    <2> QED
        BY <1>3, <2>1, <2>3 DEF AtLeast
<1>4. CASE m = "Quantity"
    <2>1. x.v <= y.v /\ y.v <= z.v /\ x.kind = m /\ z.kind = m
        BY <1>4 DEF AtLeast
    <2>2. x.v \in Nat /\ y.v \in Nat /\ z.v \in Nat
        BY <1>4 DEF AtLeast, Graded
    <2>3. x.v <= z.v
        BY SMT, <2>1, <2>2
    <2> QED
        BY <1>4, <2>1, <2>3 DEF AtLeast
<1>5. CASE m \notin {"Bool", "Set", "Ordered", "Quantity"}
    BY <1>5 DEF AtLeast
<1> QED
    BY <1>1, <1>2, <1>3, <1>4, <1>5

\* A requirement that is compatible with the stronger of two restrictions is compatible
\* with the weaker one.
LEMMA JoinAntitone ==
    ASSUME NEW m, NEW x, NEW y, NEW h, AtLeast(m, x, y),
           join_requirement_values(m, y, h) # {}
    PROVE  join_requirement_values(m, x, h) # {}
<1> USE Zenon
<1>1. CASE m \in {"Bool", "Set", "Quantity"}
    BY <1>1 DEF join_requirement_values
<1>2. CASE m = "Ordered"
    BY <1>2 DEF join_requirement_values, AtLeast
<1>3. CASE m \notin {"Bool", "Set", "Ordered", "Quantity"}
    BY <1>3 DEF join_requirement_values, AtLeast
<1> QED
    BY <1>1, <1>2, <1>3

----------------------------------------------------------------------------
(* Refinement and specificity *)

LEMMA PolarityIsOneOfTwo ==
    ASSUME NEW c \in DOMAIN CapabilityCatalog
    PROVE  CapabilityCatalog[c].polarity = "Ability" \/ CapabilityCatalog[c].polarity = "Restriction"
BY Zenon, CatalogAssumption DEF CapabilityDefinition

LEMMA PresentIsGraded ==
    ASSUME NEW x, Sized(x), NEW c \in Present(x.capabilities)
    PROVE  Graded(x.capabilities[c])
BY Zenon DEF Sized, Present

\* What a requirement asks of one capability, and a refinement offers, its base offers.
LEMMA CapabilityNarrows ==
    ASSUME NEW base, NEW derived, NEW hard, Sized(base), Sized(derived), Sized(hard),
           capability_provision_no_wider(derived, base),
           NEW c \in Present(hard.capabilities),
           c \in DOMAIN CapabilityCatalog,
           CapabilityExecutable(c, derived, hard)
    PROVE  CapabilityExecutable(c, base, hard)
<1> USE Zenon
<1> DEFINE m == CapabilityCatalog[c].matcher
<1>1. CASE CapabilityCatalog[c].polarity = "Restriction"
    <2> SUFFICES ASSUME c \in Present(base.capabilities)
                 PROVE  join_requirement_values(m, base.capabilities[c], hard.capabilities[c]) # {}
        BY <1>1 DEF CapabilityExecutable
    <2>1. c \in Present(derived.capabilities)
        BY <1>1 DEF capability_provision_no_wider
    <2>2. AtLeast(m, base.capabilities[c], derived.capabilities[c])
        BY <1>1, <2>1 DEF capability_provision_no_wider, restriction_value_no_wider
    <2>3. join_requirement_values(m, derived.capabilities[c], hard.capabilities[c]) # {}
        BY <1>1, <2>1 DEF CapabilityExecutable
    <2> HIDE DEF m
    <2> QED
        BY <2>2, <2>3, JoinAntitone
<1>2. CASE CapabilityCatalog[c].polarity = "Ability"
    <2>1. /\ c \in Present(derived.capabilities)
          /\ AtLeast(m, hard.capabilities[c], derived.capabilities[c])
        BY <1>2 DEF CapabilityExecutable, value_satisfies
    <2>2. c \in Present(base.capabilities)
        BY <1>2, <2>1 DEF capability_provision_no_wider
    <2>3. AtLeast(m, derived.capabilities[c], base.capabilities[c])
        BY <1>2, <2>1, <2>2 DEF capability_provision_no_wider, ability_value_no_wider
    <2>4. AtLeast(m, hard.capabilities[c], base.capabilities[c])
        BY <2>1, <2>2, <2>3, PresentIsGraded, AtLeastTransitive
    <2> QED
        BY <1>2, <2>2, <2>4 DEF CapabilityExecutable, value_satisfies
<1> QED
    BY <1>1, <1>2, PolarityIsOneOfTwo

\* What is_valid_refinement accepts never widens what can_execute admits, for any two
\* contracts and any requirements: of the eleven dimensions of a contract, only a stronger
\* guarantee of continuity lets the refinement execute more.
THEOREM RefinementNarrows ==
    ASSUME NEW base, NEW derived, Sized(base), Sized(derived),
           is_valid_refinement(base, derived)
    PROVE  Narrows(base, derived)
<1> USE Zenon
<1> SUFFICES ASSUME NEW hard \in Requirements, can_execute(derived, hard),
                    base.continuity >= hard.continuity
             PROVE  can_execute(base, hard)
    BY DEF Narrows
<1> Sized(hard)
    BY RequirementsAssumption
<1>1. authority_no_wider(derived, base) /\ validate(base)
    BY DEF is_valid_refinement
<1>2. WellShaped(hard.capabilities) /\ hard.fn \in base.functions
    BY <1>1 DEF can_execute, authority_no_wider
<1>3. ASSUME NEW c \in Present(hard.capabilities)
      PROVE  CapabilityExecutable(c, base, hard)
    <2>1. CapabilityExecutable(c, derived, hard)
        BY DEF can_execute
    <2>2. c \in DOMAIN CapabilityCatalog
        BY <1>2 DEF WellShaped, Present
    <2>3. capability_provision_no_wider(derived, base)
        BY <1>1 DEF authority_no_wider
    <2> QED
        BY <2>1, <2>2, <2>3, CapabilityNarrows
<1>4. affinity_accepts(base.affinity, hard.affinity)
    BY <1>1 DEF can_execute, authority_no_wider, affinity_accepts, affinity_no_wider
<1>5. /\ workspace_rank(base.workspace) >= workspace_rank(hard.workspace)
      /\ network_rank(base.network) >= network_rank(hard.network)
    BY SMT, <1>1 DEF can_execute, authority_no_wider, workspace_rank, network_rank
<1>6. /\ sandbox_policy_within(hard.sandbox, base.sandbox)
      /\ hard.anchor = NoAnchor \/ base.anchor \in {NoAnchor, hard.anchor}
    BY <1>1 DEF can_execute, authority_no_wider, sandbox_policy_within
<1>7. hard.budget <= base.budget
    BY SMT, <1>1 DEF can_execute, authority_no_wider, Sized
<1> QED
    BY <1>1, <1>2, <1>3, <1>4, <1>5, <1>6, <1>7 DEF can_execute

LEMMA ProvisionTransitive ==
    ASSUME NEW a, NEW b, NEW c, Sized(a), Sized(b), Sized(c),
           capability_provision_no_wider(a, b), capability_provision_no_wider(b, c)
    PROVE  capability_provision_no_wider(a, c)
<1> USE Zenon
<1>1. ASSUME NEW x \in Present(a.capabilities) \ Present(c.capabilities)
      PROVE  x \in DOMAIN CapabilityCatalog /\ CapabilityCatalog[x].polarity = "Restriction"
    BY DEF capability_provision_no_wider
<1>2. ASSUME NEW x \in Present(c.capabilities)
      PROVE  x \in DOMAIN CapabilityCatalog
    BY DEF capability_provision_no_wider
<1>3. ASSUME NEW x \in Present(c.capabilities), x \notin Present(a.capabilities)
      PROVE  CapabilityCatalog[x].polarity = "Ability"
    BY <1>3 DEF capability_provision_no_wider
<1>4. ASSUME NEW x \in Present(c.capabilities), x \in Present(a.capabilities)
      PROVE  x \in Present(b.capabilities)
    BY <1>4 DEF capability_provision_no_wider
<1>5. ASSUME NEW x \in Present(c.capabilities), x \in Present(a.capabilities),
             CapabilityCatalog[x].polarity = "Ability"
      PROVE  AtLeast(CapabilityCatalog[x].matcher, a.capabilities[x], c.capabilities[x])
    <2>1. x \in Present(b.capabilities)
        BY <1>4, <1>5
    <2>2. /\ AtLeast(CapabilityCatalog[x].matcher, a.capabilities[x], b.capabilities[x])
          /\ AtLeast(CapabilityCatalog[x].matcher, b.capabilities[x], c.capabilities[x])
        BY <1>5, <2>1 DEF capability_provision_no_wider, ability_value_no_wider
    <2> QED
        BY SMT, <1>5, <2>1, <2>2, PresentIsGraded, AtLeastTransitive
<1>6. ASSUME NEW x \in Present(c.capabilities), x \in Present(a.capabilities),
             CapabilityCatalog[x].polarity # "Ability"
      PROVE  AtLeast(CapabilityCatalog[x].matcher, c.capabilities[x], a.capabilities[x])
    <2>1. x \in Present(b.capabilities)
        BY <1>4, <1>6
    <2>2. /\ AtLeast(CapabilityCatalog[x].matcher, b.capabilities[x], a.capabilities[x])
          /\ AtLeast(CapabilityCatalog[x].matcher, c.capabilities[x], b.capabilities[x])
        BY <1>6, <2>1 DEF capability_provision_no_wider, restriction_value_no_wider
    <2> QED
        BY <1>6, <2>1, <2>2, PresentIsGraded, AtLeastTransitive
<1> QED
    BY <1>1, <1>2, <1>3, <1>5, <1>6 DEF capability_provision_no_wider, ability_value_no_wider,
                                        restriction_value_no_wider

\* The order of authority that refinement and specificity read is transitive.
LEMMA AuthorityTransitive ==
    ASSUME NEW a, NEW b, NEW c, Sized(a), Sized(b), Sized(c),
           authority_no_wider(a, b), authority_no_wider(b, c)
    PROVE  authority_no_wider(a, c)
<1> USE Zenon
<1>1. a.functions \subseteq c.functions /\ a.lifecycle \subseteq c.lifecycle
    BY DEF authority_no_wider
<1>2. affinity_no_wider(a.affinity, c.affinity)
    BY DEF authority_no_wider, affinity_no_wider
<1>3. a.budget <= c.budget
    BY SMT DEF authority_no_wider, Sized
<1>4. /\ workspace_rank(a.workspace) <= workspace_rank(c.workspace)
      /\ network_rank(a.network) <= network_rank(c.network)
    BY SMT DEF authority_no_wider, workspace_rank, network_rank
<1>5. /\ c.isolation => a.isolation
      /\ c.sandbox \in {NoSandbox, a.sandbox}
      /\ c.anchor \in {NoAnchor, a.anchor}
    BY DEF authority_no_wider
<1>6. capability_provision_no_wider(a, c)
    BY ProvisionTransitive DEF authority_no_wider
<1> QED
    BY <1>1, <1>2, <1>3, <1>4, <1>5, <1>6 DEF authority_no_wider

LEMMA SpecificityTransitive ==
    ASSUME NEW a, NEW b, NEW c, NEW hard, Sized(a), Sized(b), Sized(c),
           more_specific_for(a, b, hard), more_specific_for(b, c, hard)
    PROVE  more_specific_for(a, c, hard)
<1> USE Zenon
<1>1. authority_no_wider(a, c)
    BY AuthorityTransitive DEF more_specific_for
<1>2. ~authority_no_wider(c, a)
    BY AuthorityTransitive DEF more_specific_for
<1> QED
    BY <1>1, <1>2 DEF more_specific_for

\* Candidates as match_existing_agents has them: finitely many, each with the contract of
\* its type.
Candidates(eligible) ==
    /\ IsFiniteSet(eligible)
    /\ \A c \in eligible : Sized(c.contract)
    /\ \A c, o \in eligible : c.ref = o.ref => c.contract = o.contract

\* The count of dominators that match_existing_agents sorts by never inverts
\* more_specific_for, which is a partial order only: among candidates in one relation to
\* the pin, what dominates a candidate dominates what that candidate dominates.
THEOREM CountingRespectsSpecificity ==
    ASSUME NEW eligible, Candidates(eligible), NEW pin, NEW required, NEW hard
    PROVE  RankedBySpecificity(eligible, pin, required, hard)
<1> USE Zenon
<1> DEFINE rel(x) == relation(x.ref, x.contract, pin, required, hard)
           above(x) == {o \in eligible : /\ rel(o) = rel(x) /\ o.ref # x.ref
                                         /\ more_specific_for(o.contract, x.contract, hard)}
<1> SUFFICES ASSUME NEW a \in eligible, NEW b \in eligible, rel(a) = rel(b),
                    more_specific_for(a.contract, b.contract, hard)
             PROVE  Cardinality(above(a)) < Cardinality(above(b))
    BY DEF RankedBySpecificity, Domination
<1> HIDE DEF rel
<1>1. a.ref # b.ref
    BY DEF Candidates, more_specific_for
<1>2. ASSUME NEW o \in above(a)
      PROVE  o \in above(b)
    <2>1. more_specific_for(o.contract, b.contract, hard)
        BY SpecificityTransitive DEF Candidates
    <2>2. o.ref # b.ref
        BY <2>1 DEF Candidates, more_specific_for
    <2> QED
        BY <2>1, <2>2
<1>3. a \in above(b) /\ a \notin above(a)
    BY <1>1
<1>4. IsFiniteSet(above(b))
    BY FS_Subset DEF Candidates
<1>5. above(a) \subseteq above(b) /\ above(a) # above(b)
    BY <1>2, <1>3
<1> HIDE DEF above
<1>6. /\ IsFiniteSet(above(a)) /\ Cardinality(above(a)) <= Cardinality(above(b))
      /\ Cardinality(above(a)) # Cardinality(above(b))
    BY <1>4, <1>5, FS_Subset
<1>7. Cardinality(above(a)) \in Nat /\ Cardinality(above(b)) \in Nat
    BY <1>4, <1>6, FS_CardinalityType
<1> QED
    BY SMT, <1>6, <1>7

----------------------------------------------------------------------------
(* The catalogue *)

Refs == Types \cup Policies \cup Sources \cup Configs

\* Nothing but an operator touches the catalogue.
LEMMA CatalogStep ==
    ASSUME [Next]_vars
    PROVE  CatalogOperator \/ UNCHANGED catalog
<1> USE Zenon
<1>1. CASE Operate
    BY <1>1 DEF Operate
<1>2. CASE Dispatch
    BY <1>2 DEF Dispatch, dispatch_typed_one, acquire_typed_task, prepare_selection,
        list_sources, attest_source, attest_fatal, no_eligible_source, selection_ambiguous,
        acquire_typed_task_existing, acquire_typed_task_new_agent, prepare_winner,
        preparation_unavailable, finalize_preparation, preparation_fault, launch_unavailable,
        prepare_typed_execution_launch, commit_outcome_unknown
<1>3. CASE Expire \/ Crash \/ Restart
    BY <1>3 DEF Expire, Crash, Restart
<1>4. CASE \E t \in Tasks : promote_retry_wait(t) \/ ExecutionEnds(t)
                             \/ cancel_task(t) \/ resolve_retry(t) \/ release_cancelled_writer(t)
    BY <1>4 DEF promote_retry_wait, ExecutionEnds, cancel_task, resolve_retry,
        release_cancelled_writer
<1>5. CASE \E id \in AttemptIds : Elapse(id)
    BY <1>5 DEF Elapse
<1>6. CASE \E a \in AllAgents : retire_logical_agent(a) \/ revive_agent(a)
                                \/ \E ref \in Types : bind_logical_agent_type(a, ref)
    BY <1>6 DEF retire_logical_agent, revive_agent, bind_logical_agent_type
<1>7. CASE UNCHANGED vars
    BY <1>7 DEF vars
<1> QED
    BY <1>1, <1>2, <1>3, <1>4, <1>5, <1>6, <1>7 DEF Next

\* The catalogue is a function of the revisions.
CatalogIsFunction == catalog = [ref \in Refs |-> catalog[ref]]

\* What one operation on one revision does to any other: publishing and disposing of it.
LEMMA PublishStep ==
    ASSUME CatalogIsFunction, NEW ref \in Refs, NEW status, status # "NONE",
           Publish(ref, status), NEW x \in Refs
    PROVE  /\ CatalogIsFunction'
           /\ Published(x) => catalog'[x] = catalog[x]
           /\ Published(x)' /\ ~Published(x) => x = ref
<1> USE Zenon
<1>1. CASE Published(ref)
    <2>1. catalog' = catalog
        BY <1>1 DEF Publish
    <2> QED
        BY <2>1 DEF CatalogIsFunction, Published
<1>2. CASE ~Published(ref)
    <2>1. catalog' = [catalog EXCEPT ![ref] = status]
        BY <1>2 DEF Publish
    <2>2. catalog' = [y \in Refs |-> IF y = ref THEN status ELSE catalog[y]]
        BY <2>1 DEF CatalogIsFunction
    <2> QED
        BY <1>2, <2>2 DEF CatalogIsFunction, Published
<1> QED
    BY <1>1, <1>2

LEMMA StatusStep ==
    ASSUME CatalogIsFunction, NEW ref \in Refs, NEW status, status # "NONE",
           Published(ref), catalog' = [catalog EXCEPT ![ref] = status],
           status = "ACTIVE" => catalog[ref] = "ACTIVE", NEW x \in Refs
    PROVE  /\ CatalogIsFunction'
           /\ Published(x) => Published(x)' /\ (catalog'[x] = "ACTIVE" => catalog[x] = "ACTIVE")
           /\ Published(x)' => Published(x)
<1> USE Zenon
<1>1. catalog' = [y \in Refs |-> IF y = ref THEN status ELSE catalog[y]]
    BY DEF CatalogIsFunction
<1> QED
    BY <1>1 DEF CatalogIsFunction, Published

LEMMA SetStatusAdvances ==
    ASSUME NEW ref, NEW status, SetStatus(ref, status)
    PROVE  /\ Published(ref) /\ catalog' = [catalog EXCEPT ![ref] = status]
           /\ status = "ACTIVE" => catalog[ref] = "ACTIVE"
BY DEF SetStatus, check_monotonic, status_rank

\* A published revision stays published, its disposition never becomes ACTIVE again, and
\* a type is only published as publish_agent_type does it.
LEMMA OperatorStep ==
    ASSUME CatalogIsFunction, CatalogOperator, NEW x \in Refs
    PROVE  /\ CatalogIsFunction'
           /\ Published(x) => Published(x)' /\ (catalog'[x] = "ACTIVE" => catalog[x] = "ACTIVE")
           /\ (x \in Types /\ Published(x)' /\ ~Published(x)) => publish_agent_type(x)
<1> USE Zenon
<1>1. ASSUME NEW ref \in Types, publish_agent_type(ref)
      PROVE  /\ CatalogIsFunction'
             /\ Published(x) => catalog'[x] = catalog[x]
             /\ Published(x)' /\ ~Published(x) => x = ref
    BY <1>1, PublishStep DEF publish_agent_type, Refs
<1>2. ASSUME NEW ref \in Types, set_agent_type_status(ref)
      PROVE  /\ CatalogIsFunction'
             /\ Published(x) => Published(x)' /\ (catalog'[x] = "ACTIVE" => catalog[x] = "ACTIVE")
             /\ Published(x)' => Published(x)
    BY <1>2, StatusStep DEF set_agent_type_status, Refs
<1>3. ASSUME NEW ref \in Policies \cup Sources \cup Configs, NEW status \in Dispositions,
             Publish(ref, status)
      PROVE  /\ CatalogIsFunction'
             /\ Published(x) => catalog'[x] = catalog[x]
             /\ (Published(x)' /\ ~Published(x)) => x \notin Types
    BY <1>3, PublishStep, CatalogAssumption DEF Refs
<1>4. ASSUME NEW ref \in Policies \cup Sources \cup Configs, NEW status \in Dispositions,
             SetStatus(ref, status)
      PROVE  /\ CatalogIsFunction'
             /\ Published(x) => Published(x)' /\ (catalog'[x] = "ACTIVE" => catalog[x] = "ACTIVE")
             /\ Published(x)' => Published(x)
    BY <1>4, SetStatusAdvances, StatusStep, CatalogAssumption DEF Refs
<1>5. \/ \E ref \in Types : publish_agent_type(ref)
      \/ \E ref \in Types : set_agent_type_status(ref)
      \/ \E ref \in Policies \cup Sources \cup Configs, status \in Dispositions : Publish(ref, status)
      \/ \E ref \in Policies \cup Sources \cup Configs, status \in Dispositions : SetStatus(ref, status)
    BY DEF CatalogOperator, publish_adapter_binding_policy, set_adapter_binding_policy_status,
        publish_spawn_source, set_spawn_source_status, publish_source_config,
        set_source_config_status
<1>6. Published(x) /\ catalog'[x] = catalog[x] => Published(x)'
    BY DEF Published
<1> QED
    BY <1>1, <1>2, <1>3, <1>4, <1>5, <1>6

LEMMA CatalogKept ==
    ASSUME CatalogIsFunction, [Next]_vars
    PROVE  CatalogIsFunction'
<1> USE Zenon
<1>1. CASE CatalogOperator
    <2>1. \E x : x \in Refs
        BY <1>1 DEF CatalogOperator, Refs
    <2> QED
        BY <1>1, <2>1, OperatorStep
<1>2. CASE UNCHANGED catalog
    BY <1>2 DEF CatalogIsFunction
<1> QED
    BY <1>1, <1>2, CatalogStep

\* Every type in the catalogue that names a base narrows it (publish_agent_type): no order
\* of publications and retirements gets a refinement in that widens what its base admits.
THEOREM RefinementsAreNarrow == Spec => PublishedNarrows
<1>1. Init => CatalogIsFunction
    BY Zenon DEF Init, CatalogIsFunction, Refs
<1>2. CatalogIsFunction /\ [Next]_vars => CatalogIsFunction'
    BY Zenon, CatalogKept
<1>3. ASSUME CatalogIsFunction, [Next]_vars, catalog' # catalog, NEW ref \in Types,
             ~Published(ref), Published(ref)', Base[ref] # NoType
      PROVE  Narrows(Contract[Base[ref]], Contract[ref])
    <2>1. publish_agent_type(ref)
        BY Zenon, <1>3, CatalogStep, OperatorStep DEF Refs
    <2>2. is_valid_refinement(Contract[Base[ref]], Contract[ref])
        BY Zenon, <1>3, <2>1 DEF publish_agent_type, get_agent_type
    <2> QED
        BY Zenon, <1>3, <2>2, RefinementNarrows, CatalogAssumption
<1>4. CatalogIsFunction /\ [Next]_vars =>
        [catalog' # catalog =>
         \A ref \in Types : ~Published(ref) /\ Published(ref)' /\ Base[ref] # NoType =>
             Narrows(Contract[Base[ref]], Contract[ref])]_catalog
    BY Zenon, <1>3
<1> QED
    BY <1>1, <1>2, <1>4, PTL DEF Spec, PublishedNarrows

\* Equal fingerprints mean equal active sources, policies and configurations.
LEMMA FrontierFixesSources ==
    ASSUME active_catalog_frontier_digest' = active_catalog_frontier_digest
    PROVE  /\ list_active_spawn_source_refs' = list_active_spawn_source_refs
           /\ \A s \in list_active_spawn_source_refs :
                 /\ catalog'[SourceContent[s].policy] = catalog[SourceContent[s].policy]
                 /\ list_active_source_config_refs(s)' = list_active_source_config_refs(s)
<1> USE Zenon
<1> DEFINE triples == {<<s, SourceContent[s].policy, catalog[SourceContent[s].policy]>> :
                          s \in list_active_spawn_source_refs}
           configs == UNION {list_active_source_config_refs(s) : s \in list_active_spawn_source_refs}
<1>1. triples' = triples /\ configs' = configs
    BY DEF active_catalog_frontier_digest
<1>2. ASSUME NEW s \in list_active_spawn_source_refs
      PROVE  s \in list_active_spawn_source_refs'
             /\ catalog'[SourceContent[s].policy] = catalog[SourceContent[s].policy]
    <2>1. <<s, SourceContent[s].policy, catalog[SourceContent[s].policy]>> \in triples'
        BY <1>1
    <2> QED
        BY SMT, <2>1
<1>3. ASSUME NEW s \in list_active_spawn_source_refs'
      PROVE  s \in list_active_spawn_source_refs
    <2>1. <<s, SourceContent[s].policy, catalog'[SourceContent[s].policy]>> \in triples
        BY <1>1
    <2> QED
        BY <2>1
<1>4. list_active_spawn_source_refs' = list_active_spawn_source_refs
    BY <1>2, <1>3
<1>5. ASSUME NEW s \in list_active_spawn_source_refs
      PROVE  list_active_source_config_refs(s)' = list_active_source_config_refs(s)
    <2>1. list_active_source_config_refs(s) = {c \in configs : ConfigContent[c].source = s}
        BY DEF list_active_source_config_refs
    <2>2. list_active_source_config_refs(s)' = {c \in configs' : ConfigContent[c].source = s}
        BY <1>4 DEF list_active_source_config_refs
    <2> QED
        BY <1>1, <2>1, <2>2
<1> QED
    BY <1>2, <1>4, <1>5

\* The fingerprint of the catalogue that the commit of a claim is fenced with
\* (active_catalog_frontier_digest) decides what any task could be provisioned from: two
\* catalogues with the same fingerprint have the same eligible configurations.
THEOREM FrontierIsFaithful == Spec => FrontierDecides
<1>1. ASSUME active_catalog_frontier_digest' = active_catalog_frontier_digest
      PROVE  EligibleNow' = EligibleNow
    <2>1. ASSUME NEW s \in list_active_spawn_source_refs,
                 NEW c \in list_active_source_config_refs(s)
          PROVE  produce_evidence(c)' = produce_evidence(c)
        <3>1. ConfigContent[c].source = s /\ catalog[c] = "ACTIVE" /\ catalog[s] = "ACTIVE"
            BY Zenon DEF list_active_source_config_refs, list_active_spawn_source_refs
        <3>2. catalog'[c] = "ACTIVE" /\ catalog'[s] = "ACTIVE"
            BY Zenon, <1>1, FrontierFixesSources DEF list_active_source_config_refs, list_active_spawn_source_refs
        <3>3. catalog'[SourceContent[s].policy] = catalog[SourceContent[s].policy]
            BY Zenon, <1>1, FrontierFixesSources
        <3> QED
            BY Zenon, <3>1, <3>2, <3>3 DEF produce_evidence
    <2>2. ASSUME NEW s \in list_active_spawn_source_refs, NEW ref \in Types, NEW t \in Tasks
          PROVE  enumerate_candidates(s, Contract[ref], t)' = enumerate_candidates(s, Contract[ref], t)
        <3>1. SourceEligible(s, Contract[ref], Requirement[t].hard)'
                = SourceEligible(s, Contract[ref], Requirement[t].hard)
            BY Zenon, <1>1, FrontierFixesSources DEF SourceEligible
        <3>2. ASSUME NEW c \in list_active_source_config_refs(s)
              PROVE  ConfigEligible(c, Contract[ref], t)' = ConfigEligible(c, Contract[ref], t)
            BY Zenon, <2>1 DEF ConfigEligible
        <3>3. list_active_source_config_refs(s)' = list_active_source_config_refs(s)
            BY Zenon, <1>1, FrontierFixesSources
        <3> QED
            BY Zenon, <3>1, <3>2, <3>3 DEF enumerate_candidates
    <2>3. ASSUME NEW t \in Tasks, NEW ref \in Types
          PROVE  UNION {enumerate_candidates(s, Contract[ref], t) : s \in list_active_spawn_source_refs}'
                 = UNION {enumerate_candidates(s, Contract[ref], t) : s \in list_active_spawn_source_refs}
        <3>1. list_active_spawn_source_refs' = list_active_spawn_source_refs
            BY Zenon, <1>1, FrontierFixesSources
        <3>2. \A s \in list_active_spawn_source_refs :
                 enumerate_candidates(s, Contract[ref], t)' = enumerate_candidates(s, Contract[ref], t)
            BY Zenon, <2>2
        <3> QED
            BY <3>1, <3>2, Zenon
    <2> QED
        BY <2>3, Zenon DEF EligibleNow
<1> QED
    BY <1>1, PTL DEF Spec, FrontierDecides

----------------------------------------------------------------------------
(* The store *)

StoreTypeOK ==
    /\ tasks \in [Tasks -> [state : {"QUEUED", "RETRY_WAIT", "LEASED", "RUNNING", "SUSPENDED",
                                     "COMPLETED", "CANCELLED"},
                            number : 0..MaxAttempts]]
    /\ attempts \in [AttemptIds -> AttemptRow]
    /\ agents \in [AllAgents -> [state : {"UNBORN", "READY", "ASSIGNED", "SUSPENDED", "REVIVING",
                                          "RETIRED"},
                                 type : Types \cup {NoType}, home : Home]]
    /\ hosts \in [AllAgents -> Host]

\* Task, attempt and agent agree: an ACTIVE attempt is the latest of its task, which is
\* LEASED or RUNNING, and the only one of its agent, which is ASSIGNED.  An Execution
\* excludes a fault.
Ledger ==
    /\ \A id \in AttemptIds :
          /\ attempts[id].state = "ACTIVE" =>
                /\ id[2] = tasks[id[1]].number
                /\ tasks[id[1]].state \in {"LEASED", "RUNNING"}
                /\ attempts[id].agent \in AllAgents
                /\ agents[attempts[id].agent].state = "ASSIGNED"
                /\ ~attempts[id].asked
          /\ attempts[id].state = "NONE" => ~attempts[id].fault
          /\ attempts[id].execution = "LIVE" => attempts[id].state = "ACTIVE" /\ ~attempts[id].fault
          /\ id[2] > tasks[id[1]].number => attempts[id].state = "NONE"
    /\ \A i, j \in AttemptIds :
          (/\ attempts[i].state = "ACTIVE" /\ attempts[j].state = "ACTIVE"
           /\ attempts[i].agent = attempts[j].agent) => i = j
    /\ \A t \in Tasks :
          /\ tasks[t].state \in {"QUEUED", "RETRY_WAIT"} => tasks[t].number < MaxAttempts
          /\ tasks[t].state \in {"LEASED", "RUNNING"} => Active(t)

\* A fault that closed without a question to Root is of the latest attempt, and the task
\* goes nowhere.
Settled ==
    \A id \in AttemptIds :
        attempts[id].state = "CLOSED" /\ attempts[id].fault /\ ~attempts[id].asked =>
            id[2] = tasks[id[1]].number /\ tasks[id[1]].state \in {"SUSPENDED", "CANCELLED"}

StoreInv == StoreTypeOK /\ Ledger /\ Settled

\* Some task is suspended over a fault that Root was not asked about.
Unasked ==
    \E id \in AttemptIds :
        /\ attempts[id].state = "CLOSED" /\ attempts[id].fault /\ ~attempts[id].asked
        /\ tasks[id[1]].state = "SUSPENDED"

\* What no transaction does: give work to a retired agent, put another configuration in
\* the place of a host that may run, rebind an agent, claim a task that is not queued,
\* suspend a task over a fault without asking.
Honest ==
    /\ \A a \in AllAgents :
          /\ agents[a].state = "RETIRED" => agents'[a].state = "RETIRED"
          /\ agents[a].state # "UNBORN" =>
                /\ agents'[a].state # "UNBORN"
                /\ agents[a].type # NoType => agents'[a].type = agents[a].type
          /\ incarnation_requires_physical_closure(hosts[a]) =>
                \/ hosts'[a] = NoHost
                \/ hosts'[a].binding = hosts[a].binding /\ hosts'[a].used
    /\ \A t \in Tasks :
          \/ tasks'[t].number = tasks[t].number
          \/ tasks[t].state = "QUEUED" /\ tasks'[t].number = tasks[t].number + 1
    /\ Unasked' => Unasked

\* No claim is made.
Quiet == Honest /\ \A t \in Tasks : tasks'[t].number = tasks[t].number

\* What becomes of the agent of a claim that closes, whether Root is asked, and which agent
\* is in quarantine.
Freed(id, unsafe) == IF id \in unsafe THEN "SUSPENDED" ELSE release_agent(id[1])
Asks(id, goes, unsafe) == goes[id] = "SUSPENDED" \/ id \in unsafe
Held(id, unsafe) == IF id \in unsafe THEN attempts[id].agent ELSE NoAgent

\* What the transactions that close claims have in common, row by row.
LEMMA CloseEffect ==
    ASSUME StoreTypeOK, Ledger, NEW rows, NEW ids \in SUBSET AttemptIds, NEW goes, NEW kept,
           NEW unsafe,
           \A id \in ids : attempts[id].state = "ACTIVE",
           Close(rows, ids, goes, kept, unsafe)
    PROVE  /\ \A id \in ids :
                 /\ tasks'[id[1]] = [tasks[id[1]] EXCEPT !.state = goes[id]]
                 /\ attempts'[id] = Closed(rows[id].fault, Asks(id, goes, unsafe), Held(id, unsafe))
                 /\ agents'[attempts[id].agent] =
                       [agents[attempts[id].agent] EXCEPT !.state = Freed(id, unsafe)]
                 /\ hosts'[attempts[id].agent] \in {NoHost, hosts[attempts[id].agent]}
           /\ \A t \in Tasks : (\A id \in ids : id[1] # t) => tasks'[t] = tasks[t]
           /\ \A a \in AllAgents : (\A id \in ids : attempts[id].agent # a) =>
                 agents'[a] = agents[a] /\ hosts'[a] = hosts[a]
           /\ tasks' = [t \in Tasks |-> tasks'[t]] /\ attempts' = [id \in AttemptIds |-> attempts'[id]]
           /\ agents' = [a \in AllAgents |-> agents'[a]] /\ hosts' = [a \in AllAgents |-> hosts'[a]]
<1> USE Zenon
<1> DEFINE ending == {id[1] : id \in ids}
           of(t) == CHOOSE id \in ids : id[1] = t
           held == {attempts[id].agent : id \in ids}
           by(a) == CHOOSE id \in ids : attempts[id].agent = a
           freed(a) == IF a \notin held THEN agents[a].state
                       ELSE IF by(a) \in unsafe THEN "SUSPENDED" ELSE release_agent(by(a)[1])
<1>1. /\ tasks' = [t \in Tasks |-> IF t \in ending THEN [tasks[t] EXCEPT !.state = goes[of(t)]]
                                     ELSE tasks[t]]
      /\ attempts' = [id \in AttemptIds |->
                           IF id \in ids
                           THEN Closed(rows[id].fault, Asks(id, goes, unsafe), Held(id, unsafe))
                           ELSE rows[id]]
      /\ agents' = [a \in AllAgents |-> [agents[a] EXCEPT !.state = freed(a)]]
      /\ hosts' = [a \in AllAgents |->
                        IF a \in held /\ (freed(a) = "RETIRED" \/ ~kept[by(a)]) THEN NoHost
                        ELSE hosts[a]]
    BY DEF Close, Asks, Held
<1>2. ASSUME NEW id \in ids
      PROVE  id[1] \in Tasks /\ attempts[id].agent \in AllAgents
    BY DEF Ledger, AttemptIds
<1>3. ASSUME NEW id \in ids
      PROVE  of(id[1]) = id
    <2>1. ASSUME NEW x \in ids, x[1] = id[1]
          PROVE  x = id
        BY SMT, <2>1 DEF Ledger, AttemptIds
    <2> QED
        BY <2>1
<1>4. ASSUME NEW id \in ids
      PROVE  by(attempts[id].agent) = id
    <2>1. ASSUME NEW x \in ids, attempts[x].agent = attempts[id].agent
          PROVE  x = id
        BY <2>1 DEF Ledger
    <2> QED
        BY <2>1
<1>5. ASSUME NEW id \in ids
      PROVE  tasks'[id[1]] = [tasks[id[1]] EXCEPT !.state = goes[id]]
    <2>1. id[1] \in ending
        OBVIOUS
    <2> QED
        BY <1>1, <1>2, <1>3, <2>1
<1>6. ASSUME NEW id \in ids
      PROVE  agents'[attempts[id].agent] =
                [agents[attempts[id].agent] EXCEPT !.state = Freed(id, unsafe)]
    <2>1. freed(attempts[id].agent) = Freed(id, unsafe)
        <3>1. attempts[id].agent \in held
            OBVIOUS
        <3>2. by(attempts[id].agent) = id
            BY <1>4
        <3> HIDE DEF held, by
        <3> QED
            BY <3>1, <3>2 DEF Freed
    <2> QED
        BY <1>1, <1>2, <2>1
<1>7. ASSUME NEW a \in AllAgents, \A id \in ids : attempts[id].agent # a
      PROVE  agents'[a] = agents[a] /\ hosts'[a] = hosts[a]
    <2>1. a \notin held
        BY <1>7
    <2>2. [agents[a] EXCEPT !.state = agents[a].state] = agents[a]
        BY DEF StoreTypeOK
    <2> QED
        BY <1>1, <2>1, <2>2
<1>8. ASSUME NEW t \in Tasks, \A id \in ids : id[1] # t
      PROVE  tasks'[t] = tasks[t]
    BY <1>1, <1>8
<1>9. ASSUME NEW id \in ids
      PROVE  hosts'[attempts[id].agent] \in {NoHost, hosts[attempts[id].agent]}
    BY <1>1, <1>2
<1> HIDE DEF ending, of, held, by, freed
<1>10. /\ tasks' = [t \in Tasks |-> tasks'[t]] /\ attempts' = [id \in AttemptIds |-> attempts'[id]]
       /\ agents' = [a \in AllAgents |-> agents'[a]] /\ hosts' = [a \in AllAgents |-> hosts'[a]]
    BY <1>1
<1>11. \A id \in ids : attempts'[id] = Closed(rows[id].fault, Asks(id, goes, unsafe), Held(id, unsafe))
    BY <1>1
<1> QED
    BY <1>5, <1>6, <1>7, <1>8, <1>9, <1>10, <1>11

\* The rows that expiry hands to Close: those of the store, with questions added.
RowsOf(rows) ==
    \A id \in AttemptIds :
        /\ rows[id] = [attempts[id] EXCEPT !.asked = rows[id].asked]
        /\ rows[id].asked \in BOOLEAN
        /\ attempts[id].asked => rows[id].asked
        /\ attempts[id].state # "CLOSED" => rows[id] = attempts[id]

\* Where a claim may leave its task.
GoesWell(rows, ids, goes) ==
    \A id \in ids :
        /\ goes[id] \in {"RETRY_WAIT", "SUSPENDED", "COMPLETED", "CANCELLED"}
        /\ goes[id] = "RETRY_WAIT" => id[2] < MaxAttempts
        /\ rows[id].fault => goes[id] \in {"SUSPENDED", "CANCELLED"}

LEMMA ClosedRow ==
    ASSUME NEW f \in BOOLEAN, NEW q \in BOOLEAN, NEW a \in AllAgents \cup {NoAgent}
    PROVE  /\ Closed(f, q, a) \in AttemptRow
           /\ Closed(f, q, a).state = "CLOSED" /\ Closed(f, q, a).execution = "NONE"
           /\ Closed(f, q, a).fault = f /\ Closed(f, q, a).asked = q
<1> USE Zenon
<1>1. Closed(f, q, a) \in AttemptRow
    BY DEF Closed, AttemptRow
<1>2. Closed(f, q, a).state = "CLOSED" /\ Closed(f, q, a).execution = "NONE"
    BY DEF Closed
<1>3. Closed(f, q, a).fault = f /\ Closed(f, q, a).asked = q
    BY DEF Closed
<1> QED
    BY <1>1, <1>2, <1>3

LEMMA CloseKeeps ==
    ASSUME StoreInv, NEW rows, NEW ids \in SUBSET AttemptIds, NEW goes, NEW kept, NEW unsafe,
           \A id \in ids : attempts[id].state = "ACTIVE",
           RowsOf(rows), GoesWell(rows, ids, goes), Close(rows, ids, goes, kept, unsafe)
    PROVE  StoreInv' /\ Quiet
<1> USE Zenon
<1> USE DEF StoreInv
<1>1. ASSUME NEW id \in ids
      PROVE  /\ tasks'[id[1]] = [tasks[id[1]] EXCEPT !.state = goes[id]]
             /\ attempts'[id] = Closed(rows[id].fault, Asks(id, goes, unsafe), Held(id, unsafe))
             /\ agents'[attempts[id].agent] =
                   [agents[attempts[id].agent] EXCEPT !.state = Freed(id, unsafe)]
             /\ hosts'[attempts[id].agent] \in {NoHost, hosts[attempts[id].agent]}
    BY CloseEffect
<1>2. ASSUME NEW t \in Tasks, \A id \in ids : id[1] # t
      PROVE  tasks'[t] = tasks[t]
    BY <1>2, CloseEffect
<1>3. ASSUME NEW id \in AttemptIds, id \notin ids
      PROVE  attempts'[id] = rows[id]
    <2>1. attempts' = [x \in AttemptIds |-> IF x \in ids
                                            THEN Closed(rows[x].fault, Asks(x, goes, unsafe), Held(x, unsafe))
                                            ELSE rows[x]]
        BY DEF Close, Asks, Held
    <2> QED
        BY <1>3, <2>1
<1>4. ASSUME NEW a \in AllAgents, \A id \in ids : attempts[id].agent # a
      PROVE  agents'[a] = agents[a] /\ hosts'[a] = hosts[a]
    BY <1>4, CloseEffect
<1>5. /\ tasks' = [t \in Tasks |-> tasks'[t]] /\ attempts' = [id \in AttemptIds |-> attempts'[id]]
      /\ agents' = [a \in AllAgents |-> agents'[a]] /\ hosts' = [a \in AllAgents |-> hosts'[a]]
    BY CloseEffect
<1>6. ASSUME NEW id \in ids
      PROVE  /\ id \in AttemptIds /\ id[1] \in Tasks /\ id[2] \in Nat
             /\ attempts[id].agent \in AllAgents
             /\ id[2] = tasks[id[1]].number /\ tasks[id[1]].state \in {"LEASED", "RUNNING"}
             /\ agents[attempts[id].agent].state = "ASSIGNED"
    BY SMT DEF Ledger, AttemptIds
<1>7. ASSUME NEW id \in ids
      PROVE  /\ rows[id].fault = attempts[id].fault
             /\ attempts'[id] \in AttemptRow
             /\ attempts'[id].state = "CLOSED" /\ attempts'[id].execution = "NONE"
             /\ attempts'[id].fault = attempts[id].fault
             /\ attempts'[id].asked = Asks(id, goes, unsafe)
    <2>1. attempts[id] \in AttemptRow
        BY <1>6 DEF StoreTypeOK
    <2>2. rows[id].fault = attempts[id].fault
        BY <1>6, <2>1 DEF RowsOf, AttemptRow
    <2>3. attempts[id].fault \in BOOLEAN
        BY <2>1 DEF AttemptRow
    <2>4. Asks(id, goes, unsafe) \in BOOLEAN /\ Held(id, unsafe) \in AllAgents \cup {NoAgent}
        BY <1>6 DEF Asks, Held
    <2>5. attempts'[id] = Closed(attempts[id].fault, Asks(id, goes, unsafe), Held(id, unsafe))
        BY <1>1, <2>2
    <2> HIDE DEF StoreInv
    <2>6. /\ Closed(attempts[id].fault, Asks(id, goes, unsafe), Held(id, unsafe)) \in AttemptRow
          /\ Closed(attempts[id].fault, Asks(id, goes, unsafe), Held(id, unsafe)).state = "CLOSED"
          /\ Closed(attempts[id].fault, Asks(id, goes, unsafe), Held(id, unsafe)).execution = "NONE"
          /\ Closed(attempts[id].fault, Asks(id, goes, unsafe), Held(id, unsafe)).fault = attempts[id].fault
          /\ Closed(attempts[id].fault, Asks(id, goes, unsafe), Held(id, unsafe)).asked
                = Asks(id, goes, unsafe)
        BY SMT, <2>3, <2>4, ClosedRow
    <2> QED
        BY <2>2, <2>5, <2>6
<1>8. ASSUME NEW id \in AttemptIds, id \notin ids
      PROVE  /\ attempts'[id] \in AttemptRow
             /\ attempts'[id].state = attempts[id].state
             /\ attempts'[id].agent = attempts[id].agent
             /\ attempts'[id].execution = attempts[id].execution
             /\ attempts'[id].fault = attempts[id].fault
             /\ attempts[id].asked => attempts'[id].asked
             /\ attempts[id].state # "CLOSED" => attempts'[id] = attempts[id]
    <2>1. attempts[id] \in AttemptRow
        BY DEF StoreTypeOK
    <2>2. attempts'[id] = [attempts[id] EXCEPT !.asked = rows[id].asked] /\ rows[id].asked \in BOOLEAN
        BY <1>3, <1>8 DEF RowsOf
    <2>3. attempts[id].asked => rows[id].asked
        BY DEF RowsOf
    <2>4. attempts[id].state # "CLOSED" => attempts'[id] = attempts[id]
        BY <1>3, <1>8 DEF RowsOf
    <2> QED
        BY <2>1, <2>2, <2>3, <2>4 DEF AttemptRow
<1>9. ASSUME NEW id \in ids
      PROVE  /\ tasks'[id[1]].state = goes[id]
             /\ tasks'[id[1]].number = tasks[id[1]].number
    BY ZenonT(60), <1>1, <1>6 DEF StoreTypeOK
<1>10. ASSUME NEW t \in Tasks
       PROVE  tasks'[t].number = tasks[t].number
    BY <1>2, <1>9
<1>11. ASSUME NEW id \in AttemptIds, id \notin ids,
              attempts[id].state = "ACTIVE" \/ tasks[id[1]].state \notin {"LEASED", "RUNNING"}
       PROVE  tasks'[id[1]] = tasks[id[1]]
    <2>1. ASSUME NEW x \in ids, x[1] = id[1]
          PROVE  FALSE
        BY SMT, <1>6, <1>11, <2>1 DEF Ledger, AttemptIds
    <2>2. id[1] \in Tasks
        BY DEF AttemptIds
    <2> QED
        BY <1>2, <2>1, <2>2
<1>12. StoreTypeOK'
    <2>1. ASSUME NEW t \in Tasks
          PROVE  tasks'[t] \in [state : {"QUEUED", "RETRY_WAIT", "LEASED", "RUNNING", "SUSPENDED",
                                         "COMPLETED", "CANCELLED"},
                                number : 0..MaxAttempts]
        <3>1. CASE \A id \in ids : id[1] # t
            BY <1>2, <3>1 DEF StoreTypeOK
        <3>2. ASSUME NEW id \in ids, id[1] = t
              PROVE  tasks'[t] \in [state : {"QUEUED", "RETRY_WAIT", "LEASED", "RUNNING", "SUSPENDED",
                                             "COMPLETED", "CANCELLED"},
                                    number : 0..MaxAttempts]
            <4>1. /\ tasks[t].number \in 0..MaxAttempts
                  /\ goes[id] \in {"RETRY_WAIT", "SUSPENDED", "COMPLETED", "CANCELLED"}
                BY DEF StoreTypeOK, GoesWell
            <4>2. tasks'[t] = [state |-> goes[id], number |-> tasks[t].number]
                <5>1. tasks[t] \in [state : {"QUEUED", "RETRY_WAIT", "LEASED", "RUNNING", "SUSPENDED",
                                             "COMPLETED", "CANCELLED"},
                                    number : 0..MaxAttempts]
                    BY DEF StoreTypeOK
                <5>2. tasks'[t] = [tasks[t] EXCEPT !.state = goes[id]]
                    BY <1>1, <3>2
                <5> QED
                    BY <5>1, <5>2
            <4> QED
                BY SMT, <4>1, <4>2
        <3> QED
            BY <3>1, <3>2
    <2>2. ASSUME NEW id \in AttemptIds
          PROVE  attempts'[id] \in AttemptRow
        BY <1>7, <1>8
    <2>3. ASSUME NEW a \in AllAgents
          PROVE  /\ agents'[a] \in [state : {"UNBORN", "READY", "ASSIGNED", "SUSPENDED", "REVIVING",
                                             "RETIRED"},
                                    type : Types \cup {NoType}, home : Home]
                 /\ hosts'[a] \in Host
        <3>1. NoHost \in Host
            BY DEF NoHost, Host
        <3>2. CASE \A id \in ids : attempts[id].agent # a
            BY <1>4, <3>2 DEF StoreTypeOK
        <3>3. ASSUME NEW id \in ids, attempts[id].agent = a
              PROVE  agents'[a] \in [state : {"UNBORN", "READY", "ASSIGNED", "SUSPENDED", "REVIVING",
                                             "RETIRED"},
                                    type : Types \cup {NoType}, home : Home]
            BY ZenonT(60), <1>1, <3>3 DEF StoreTypeOK, Freed, release_agent
        <3>4. ASSUME NEW id \in ids, attempts[id].agent = a
              PROVE  hosts'[a] \in Host
            BY <1>1, <3>1, <3>4 DEF StoreTypeOK
        <3> QED
            BY <3>2, <3>3, <3>4
    <2> QED
        BY <1>5, <2>1, <2>2, <2>3 DEF StoreTypeOK
<1>13. ASSUME NEW id \in AttemptIds, attempts'[id].state = "ACTIVE"
       PROVE  /\ id \notin ids /\ attempts'[id] = attempts[id] /\ tasks'[id[1]] = tasks[id[1]]
              /\ attempts[id].agent \in AllAgents
              /\ agents'[attempts[id].agent] = agents[attempts[id].agent]
    <2>1. id \notin ids
        BY <1>7, <1>13
    <2>2. attempts'[id] = attempts[id]
        BY <1>8, <1>13, <2>1
    <2>3. attempts[id].agent \in AllAgents
        BY <1>13, <2>2 DEF Ledger
    <2>4. \A x \in ids : attempts[x].agent # attempts[id].agent
        BY SMTT(30), <1>6, <1>13, <2>1, <2>2 DEF Ledger
    <2> QED
        BY <1>4, <1>11, <1>13, <2>1, <2>2, <2>3, <2>4
<1>14. Ledger'
    <2>1. ASSUME NEW id \in AttemptIds, attempts'[id].state = "ACTIVE"
          PROVE  /\ id[2] = tasks'[id[1]].number
                 /\ tasks'[id[1]].state \in {"LEASED", "RUNNING"}
                 /\ attempts'[id].agent \in AllAgents
                 /\ agents'[attempts'[id].agent].state = "ASSIGNED"
                 /\ ~attempts'[id].asked
        BY SMTT(30), <1>13, <2>1 DEF Ledger
    <2>2. ASSUME NEW id \in AttemptIds
          PROVE  /\ attempts'[id].state = "NONE" => ~attempts'[id].fault
                 /\ attempts'[id].execution = "LIVE" => attempts'[id].state = "ACTIVE" /\ ~attempts'[id].fault
        BY SMTT(30), <1>7, <1>8 DEF Ledger
    <2>3. ASSUME NEW id \in AttemptIds, id[2] > tasks'[id[1]].number
          PROVE  attempts'[id].state = "NONE"
        <3>1. id[1] \in Tasks /\ id[2] \in Nat
            BY SMTT(30) DEF AttemptIds
        <3>2. id[2] > tasks[id[1]].number
            BY <1>10, <2>3, <3>1
        <3>3. attempts[id].state = "NONE"
            BY <3>2 DEF Ledger
        <3>4. id \notin ids
            BY <3>3
        <3> QED
            BY <1>8, <3>3, <3>4
    <2>4. ASSUME NEW i \in AttemptIds, NEW j \in AttemptIds, attempts'[i].state = "ACTIVE",
                 attempts'[j].state = "ACTIVE", attempts'[i].agent = attempts'[j].agent
          PROVE  i = j
        BY SMTT(30), <1>13, <2>4 DEF Ledger
    <2>5. ASSUME NEW t \in Tasks, tasks'[t].state \in {"QUEUED", "RETRY_WAIT"}
          PROVE  tasks'[t].number < MaxAttempts
        <3>1. CASE \A id \in ids : id[1] # t
            BY <1>2, <2>5, <3>1 DEF Ledger
        <3>2. ASSUME NEW id \in ids, id[1] = t
              PROVE  tasks'[t].number < MaxAttempts
            BY <1>6, <1>9, <2>5, <3>2 DEF GoesWell
        <3> QED
            BY <3>1, <3>2
    <2>6. ASSUME NEW t \in Tasks, tasks'[t].state \in {"LEASED", "RUNNING"}
          PROVE  Active(t)'
        <3>1. \A id \in ids : id[1] # t
            BY <1>9, <2>6 DEF GoesWell
        <3>2. tasks'[t] = tasks[t]
            BY <1>2, <3>1
        <3>3. Active(t)
            BY <2>6, <3>2 DEF Ledger
        <3>4. tasks[t].number \in 1..MaxAttempts
            BY SMTT(30), <3>3, CountsAreNatural DEF Active, StoreTypeOK
        <3>5. Current(t) \in AttemptIds /\ Current(t) \notin ids
            BY <3>1, <3>4 DEF AttemptIds, Current
        <3>6. attempts'[Current(t)].state = "ACTIVE"
            BY <1>8, <3>3, <3>5 DEF Active
        <3> QED
            BY <3>2, <3>3, <3>6 DEF Active, Current
    <2> QED
        BY SMTT(30), <2>1, <2>2, <2>3, <2>4, <2>5, <2>6 DEF Ledger
<1>15. ASSUME NEW id \in AttemptIds, attempts'[id].state = "CLOSED", attempts'[id].fault,
              ~attempts'[id].asked
       PROVE  /\ id[2] = tasks'[id[1]].number
              /\ \/ tasks'[id[1]].state = "CANCELLED"
                 \/ /\ attempts[id].state = "CLOSED" /\ attempts[id].fault /\ ~attempts[id].asked
                    /\ tasks'[id[1]] = tasks[id[1]] /\ tasks[id[1]].state = "SUSPENDED"
    <2>1. CASE id \in ids
        <3>1. rows[id].fault = attempts[id].fault
            BY <1>7, <2>1
        <3>2. goes[id] = "CANCELLED"
            BY <1>7, <1>15, <2>1, <3>1 DEF GoesWell, Asks
        <3> QED
            BY <1>6, <1>9, <2>1, <3>2
    <2>2. CASE id \notin ids
        <3>1. attempts[id].state = "CLOSED" /\ attempts[id].fault /\ ~attempts[id].asked
            BY <1>8, <1>15, <2>2
        <3>2. id[2] = tasks[id[1]].number /\ tasks[id[1]].state \in {"SUSPENDED", "CANCELLED"}
            BY <3>1 DEF Settled
        <3>3. tasks'[id[1]] = tasks[id[1]]
            BY <1>11, <2>2, <3>2
        <3> QED
            BY <3>1, <3>2, <3>3
    <2> QED
        BY <2>1, <2>2
<1>16. Settled' /\ (Unasked' => Unasked)
    BY <1>15 DEF Settled, Unasked
<1>17. ASSUME NEW a \in AllAgents
       PROVE  /\ agents[a].state = "RETIRED" => agents'[a].state = "RETIRED"
              /\ agents[a].state # "UNBORN" =>
                    /\ agents'[a].state # "UNBORN"
                    /\ agents[a].type # NoType => agents'[a].type = agents[a].type
              /\ incarnation_requires_physical_closure(hosts[a]) =>
                    \/ hosts'[a] = NoHost
                    \/ hosts'[a].binding = hosts[a].binding /\ hosts'[a].used
    <2>1. CASE \A id \in ids : attempts[id].agent # a
        BY <1>4, <2>1 DEF incarnation_requires_physical_closure
    <2>2. ASSUME NEW id \in ids, attempts[id].agent = a
          PROVE  /\ agents[a].state # "RETIRED"
                 /\ agents'[a].state # "UNBORN" /\ agents'[a].type = agents[a].type
                 /\ hosts'[a] = NoHost \/ hosts'[a] = hosts[a]
        BY ZenonT(60), <1>1, <1>6, <2>2 DEF StoreTypeOK, Freed, release_agent
    <2> QED
        BY <2>1, <2>2 DEF incarnation_requires_physical_closure
<1> QED
    BY <1>10, <1>12, <1>14, <1>16, <1>17 DEF Quiet, Honest

\* One claim closes, as a NACK, an end or a cancellation does it.
LEMMA OneCloses ==
    ASSUME StoreInv, NEW id \in AttemptIds, attempts[id].state = "ACTIVE",
           NEW to \in {"RETRY_WAIT", "SUSPENDED", "COMPLETED", "CANCELLED"}, NEW keep,
           to = "RETRY_WAIT" => id[2] < MaxAttempts,
           attempts[id].fault => to \in {"SUSPENDED", "CANCELLED"},
           CloseOne(id, to, keep) \/ Quarantine(id, to)
    PROVE  StoreInv' /\ Quiet
<1>1. RowsOf(attempts)
    BY Zenon DEF RowsOf, StoreInv, StoreTypeOK, AttemptRow
<1>2. GoesWell(attempts, {id}, [x \in {id} |-> to])
    BY Zenon DEF GoesWell
<1>3. CASE CloseOne(id, to, keep)
    BY <1>1, <1>2, <1>3, CloseKeeps DEF CloseOne
<1>4. CASE Quarantine(id, to)
    BY <1>1, <1>2, <1>4, CloseKeeps DEF Quarantine
<1> QED
    BY <1>3, <1>4

LEMMA UnavailableKeeps ==
    ASSUME StoreInv, NEW id \in AttemptIds, report_configuration_unavailable(id)
    PROVE  (StoreInv' /\ Quiet) \/ UNCHANGED store
<1> USE Zenon
<1>1. CASE validate_authority(id)
    <2>1. attempts[id].state = "ACTIVE" /\ ~attempts[id].fault
        BY <1>1 DEF validate_authority
    <2>2. /\ RetryOrSuspend(id) \in {"RETRY_WAIT", "SUSPENDED", "COMPLETED", "CANCELLED"}
          /\ RetryOrSuspend(id) = "RETRY_WAIT" => id[2] < MaxAttempts
        BY DEF RetryOrSuspend
    <2> QED
        BY <1>1, <2>1, <2>2, OneCloses DEF report_configuration_unavailable
<1>2. CASE ~validate_authority(id)
    BY <1>2 DEF report_configuration_unavailable
<1> QED
    BY <1>1, <1>2

LEMMA EndKeeps ==
    ASSUME StoreInv, NEW t \in Tasks, ExecutionEnds(t)
    PROVE  StoreInv' /\ Quiet
<1> USE Zenon
<1> DEFINE id == Current(t)
<1>1. id \in AttemptIds /\ attempts[id].state = "ACTIVE" /\ ~attempts[id].fault
    <2>1. tasks[t].number \in 1..MaxAttempts
        BY SMT, CountsAreNatural DEF ExecutionEnds, Active, StoreInv, StoreTypeOK
    <2>2. id \in AttemptIds
        BY <2>1 DEF AttemptIds, Current
    <2> QED
        BY <2>2 DEF ExecutionEnds, Active, StoreInv, Ledger
<1>2. PICK goes \in {"COMPLETED", RetryOrSuspend(id), "SUSPENDED"}, kept \in BOOLEAN :
         CloseOne(id, goes, kept) \/ Quarantine(id, goes)
    BY DEF ExecutionEnds
<1>3. /\ goes \in {"RETRY_WAIT", "SUSPENDED", "COMPLETED", "CANCELLED"}
      /\ goes = "RETRY_WAIT" => id[2] < MaxAttempts
    BY DEF RetryOrSuspend
<1> HIDE DEF id
<1> QED
    BY <1>1, <1>2, <1>3, OneCloses

\* Only the state of one task changes, of a task without an ACTIVE attempt.
LEMMA TaskMoves ==
    ASSUME StoreInv, NEW t \in Tasks, NEW to \in {"QUEUED", "CANCELLED"},
           tasks[t].state \notin {"LEASED", "RUNNING"},
           to = "QUEUED" => /\ tasks[t].number < MaxAttempts
                            /\ \/ tasks[t].state \notin {"SUSPENDED", "CANCELLED"}
                               \/ attempts[Current(t)].asked,
           tasks' = [tasks EXCEPT ![t].state = to], UNCHANGED <<attempts, agents, hosts>>
    PROVE  StoreInv' /\ Quiet
<1> USE Zenon
<1> USE DEF StoreInv
<1>1. /\ tasks' \in [Tasks -> [state : {"QUEUED", "RETRY_WAIT", "LEASED", "RUNNING", "SUSPENDED",
                                        "COMPLETED", "CANCELLED"},
                               number : 0..MaxAttempts]]
      /\ \A u \in Tasks : tasks'[u].number = tasks[u].number
      /\ \A u \in Tasks : u # t => tasks'[u] = tasks[u]
      /\ tasks'[t].state = to
    BY DEF StoreTypeOK
<1>2. StoreTypeOK'
    BY <1>1 DEF StoreTypeOK
<1>3. \A id \in AttemptIds : id[1] \in Tasks
    BY DEF AttemptIds
<1>4. Ledger'
    BY SMT, <1>1, <1>3 DEF Ledger, Active, Current
<1>5. ASSUME NEW id \in AttemptIds, attempts'[id].state = "CLOSED", attempts'[id].fault,
             ~attempts'[id].asked
      PROVE  /\ id[2] = tasks'[id[1]].number /\ tasks'[id[1]].state \in {"SUSPENDED", "CANCELLED"}
             /\ tasks'[id[1]].state = "SUSPENDED" => tasks[id[1]].state = "SUSPENDED"
    <2>1. id[2] = tasks[id[1]].number /\ tasks[id[1]].state \in {"SUSPENDED", "CANCELLED"}
        BY <1>5 DEF Settled
    <2>2. CASE id[1] = t /\ to = "QUEUED"
        <3>1. id = Current(t)
            BY SMT, <2>1, <2>2 DEF Current, AttemptIds
        <3> QED
            BY <1>5, <2>1, <2>2, <3>1
    <2> QED
        BY <1>1, <1>3, <2>1, <2>2
<1>6. Settled' /\ (Unasked' => Unasked)
    BY <1>5 DEF Settled, Unasked
<1> QED
    BY <1>1, <1>2, <1>4, <1>6 DEF Quiet, Honest, incarnation_requires_physical_closure

LEMMA PromoteKeeps ==
    ASSUME StoreInv, NEW t \in Tasks, promote_retry_wait(t)
    PROVE  StoreInv' /\ Quiet
<1> USE Zenon
<1>1. tasks[t].number < MaxAttempts
    BY DEF promote_retry_wait, StoreInv, Ledger
<1> QED
    BY <1>1, TaskMoves DEF promote_retry_wait

\* Root accounts for a writer: the row of the latest attempt lets go of the agent, which
\* leaves its quarantine, and the task stays or is queued again.
LEMMA RevivalKeeps ==
    ASSUME StoreInv, NEW t \in Tasks, tasks[t].state \in {"SUSPENDED", "CANCELLED"},
           prepare_agent_revival_after_safety(Current(t)), UNCHANGED hosts,
           \/ UNCHANGED tasks
           \/ /\ tasks[t].number < MaxAttempts /\ attempts[Current(t)].asked
              /\ tasks' = [tasks EXCEPT ![t].state = "QUEUED"]
    PROVE  StoreInv' /\ Quiet
<1> USE Zenon
<1> USE DEF StoreInv
<1>1. /\ tasks' \in [Tasks -> [state : {"QUEUED", "RETRY_WAIT", "LEASED", "RUNNING", "SUSPENDED",
                                        "COMPLETED", "CANCELLED"},
                               number : 0..MaxAttempts]]
      /\ \A u \in Tasks : tasks'[u].number = tasks[u].number
      /\ \A u \in Tasks : u # t => tasks'[u] = tasks[u]
      /\ \/ tasks'[t] = tasks[t]
         \/ tasks'[t].state = "QUEUED" /\ tasks[t].number < MaxAttempts /\ attempts[Current(t)].asked
    <2>1. CASE UNCHANGED tasks
        BY <2>1 DEF StoreTypeOK
    <2>2. CASE /\ tasks[t].number < MaxAttempts /\ attempts[Current(t)].asked
               /\ tasks' = [tasks EXCEPT ![t].state = "QUEUED"]
        BY <2>2 DEF StoreTypeOK
    <2> QED
        BY <2>1, <2>2
<1>2. ASSUME NEW id \in AttemptIds
      PROVE  /\ attempts'[id] \in AttemptRow
             /\ attempts'[id].state = attempts[id].state
             /\ attempts'[id].execution = attempts[id].execution
             /\ attempts'[id].fault = attempts[id].fault
             /\ attempts'[id].asked = attempts[id].asked
             /\ id # Current(t) => attempts'[id] = attempts[id]
    <2>1. attempts[id] \in AttemptRow
        BY DEF StoreTypeOK
    <2>2. \/ attempts'[id] = attempts[id]
          \/ attempts'[id] = [attempts[id] EXCEPT !.agent = NoAgent] /\ id = Current(t)
        BY DEF prepare_agent_revival_after_safety, StoreTypeOK
    <2> QED
        BY <2>1, <2>2 DEF AttemptRow
<1>3. attempts' \in [AttemptIds -> AttemptRow]
    <2>1. attempts' = [id \in AttemptIds |-> attempts'[id]]
        BY DEF prepare_agent_revival_after_safety, StoreTypeOK
    <2> QED
        BY <1>2, <2>1
<1>4. ASSUME NEW a \in AllAgents
      PROVE  /\ agents'[a] \in [state : {"UNBORN", "READY", "ASSIGNED", "SUSPENDED", "REVIVING",
                                         "RETIRED"},
                                type : Types \cup {NoType}, home : Home]
             /\ agents'[a].type = agents[a].type
             /\ \/ agents'[a] = agents[a]
                \/ agents[a].state = "SUSPENDED" /\ agents'[a].state \in {"REVIVING", "RETIRED"}
    <2> DEFINE revived == IF release_agent(Current(t)[1]) = "READY" THEN "REVIVING" ELSE "RETIRED"
    <2>1. revived \in {"REVIVING", "RETIRED"}
        OBVIOUS
    <2>2. \/ agents'[a] = agents[a]
          \/ agents[a].state = "SUSPENDED" /\ agents'[a] = [agents[a] EXCEPT !.state = revived]
        BY DEF prepare_agent_revival_after_safety
    <2>3. agents[a] \in [state : {"UNBORN", "READY", "ASSIGNED", "SUSPENDED", "REVIVING", "RETIRED"},
                         type : Types \cup {NoType}, home : Home]
        BY DEF StoreTypeOK
    <2> HIDE DEF revived
    <2> QED
        BY <2>1, <2>2, <2>3
<1>5. agents' = [a \in AllAgents |-> agents'[a]]
    BY DEF prepare_agent_revival_after_safety
<1>6. StoreTypeOK'
    BY <1>1, <1>3, <1>4, <1>5 DEF StoreTypeOK
<1>7. \A id \in AttemptIds : id[1] \in Tasks
    BY DEF AttemptIds
<1>8. ASSUME NEW id \in AttemptIds, attempts'[id].state = "ACTIVE"
      PROVE  /\ attempts[id].state = "ACTIVE" /\ attempts'[id] = attempts[id]
             /\ tasks'[id[1]] = tasks[id[1]] /\ tasks[id[1]].state \in {"LEASED", "RUNNING"}
             /\ id[2] = tasks[id[1]].number /\ attempts[id].agent \in AllAgents
             /\ agents'[attempts[id].agent].state = "ASSIGNED" /\ ~attempts[id].asked
    <2>0. attempts[id].state = "ACTIVE"
        BY <1>2, <1>8
    <2>1. /\ attempts[id].state = "ACTIVE" /\ tasks[id[1]].state \in {"LEASED", "RUNNING"}
          /\ id[2] = tasks[id[1]].number /\ attempts[id].agent \in AllAgents
          /\ agents[attempts[id].agent].state = "ASSIGNED" /\ ~attempts[id].asked
        BY <2>0 DEF Ledger
    <2>2. id[1] # t
        BY <2>1
    <2>3. id # Current(t)
        BY SMT, <2>2 DEF Current, AttemptIds
    <2> QED
        BY <1>1, <1>2, <1>4, <1>7, <2>1, <2>2, <2>3
<1>9. Ledger'
    <2>1. ASSUME NEW id \in AttemptIds
          PROVE  /\ attempts'[id].state = "NONE" => ~attempts'[id].fault
                 /\ attempts'[id].execution = "LIVE" => attempts'[id].state = "ACTIVE" /\ ~attempts'[id].fault
                 /\ id[2] > tasks'[id[1]].number => attempts'[id].state = "NONE"
        <3>1. /\ attempts[id].state = "NONE" => ~attempts[id].fault
              /\ attempts[id].execution = "LIVE" => attempts[id].state = "ACTIVE" /\ ~attempts[id].fault
              /\ id[2] > tasks[id[1]].number => attempts[id].state = "NONE"
            BY DEF Ledger
        <3>2. tasks'[id[1]].number = tasks[id[1]].number
            BY <1>1, <1>7
        <3> QED
            BY <1>2, <3>1, <3>2
    <2>2. ASSUME NEW i \in AttemptIds, NEW j \in AttemptIds, attempts'[i].state = "ACTIVE",
                 attempts'[j].state = "ACTIVE", attempts'[i].agent = attempts'[j].agent
          PROVE  i = j
        <3>1. /\ attempts[i].state = "ACTIVE" /\ attempts'[i] = attempts[i]
              /\ attempts[j].state = "ACTIVE" /\ attempts'[j] = attempts[j]
            BY <1>8, <2>2
        <3>2. attempts[i].agent = attempts[j].agent
            BY <2>2, <3>1
        <3> QED
            BY SMT, <3>1, <3>2 DEF Ledger
    <2>3. ASSUME NEW u \in Tasks, tasks'[u].state \in {"QUEUED", "RETRY_WAIT"}
          PROVE  tasks'[u].number < MaxAttempts
        <3>1. CASE tasks'[u] = tasks[u]
            BY <2>3, <3>1 DEF Ledger
        <3>2. CASE u = t /\ tasks[t].number < MaxAttempts
            BY <1>1, <3>2
        <3> QED
            BY <1>1, <3>1, <3>2
    <2>4. ASSUME NEW u \in Tasks, tasks'[u].state \in {"LEASED", "RUNNING"}
          PROVE  Active(u)'
        <3>1. u # t /\ tasks'[u] = tasks[u]
            BY <1>1, <2>4
        <3>2. Active(u)
            BY <2>4, <3>1 DEF Ledger
        <3>3. tasks[u].number \in 1..MaxAttempts
            BY SMTT(30), <3>2, CountsAreNatural DEF Active, StoreTypeOK
        <3>4. Current(u) \in AttemptIds
            BY <3>3 DEF AttemptIds, Current
        <3> QED
            BY <1>2, <3>1, <3>2, <3>4 DEF Active, Current
    <2>5. ASSUME NEW id \in AttemptIds, attempts'[id].state = "ACTIVE"
          PROVE  /\ id[2] = tasks'[id[1]].number /\ tasks'[id[1]].state \in {"LEASED", "RUNNING"}
                 /\ attempts'[id].agent \in AllAgents
                 /\ agents'[attempts'[id].agent].state = "ASSIGNED" /\ ~attempts'[id].asked
        <3>1. /\ attempts'[id] = attempts[id] /\ tasks'[id[1]] = tasks[id[1]]
              /\ tasks[id[1]].state \in {"LEASED", "RUNNING"}
              /\ id[2] = tasks[id[1]].number /\ attempts[id].agent \in AllAgents
              /\ agents'[attempts[id].agent].state = "ASSIGNED" /\ ~attempts[id].asked
            BY <1>8, <2>5
        <3> QED
            BY <3>1
    <2> HIDE DEF StoreInv
    <2> QED
        BY ZenonT(60), <2>1, <2>2, <2>3, <2>4, <2>5 DEF Ledger
<1>10. ASSUME NEW id \in AttemptIds, attempts'[id].state = "CLOSED", attempts'[id].fault,
              ~attempts'[id].asked
       PROVE  /\ attempts[id].state = "CLOSED" /\ attempts[id].fault /\ ~attempts[id].asked
              /\ id[2] = tasks'[id[1]].number /\ tasks'[id[1]] = tasks[id[1]]
              /\ tasks[id[1]].state \in {"SUSPENDED", "CANCELLED"}
    <2>1. attempts[id].state = "CLOSED" /\ attempts[id].fault /\ ~attempts[id].asked
        BY <1>2, <1>10
    <2>2. id[2] = tasks[id[1]].number /\ tasks[id[1]].state \in {"SUSPENDED", "CANCELLED"}
        BY <2>1 DEF Settled
    <2>3. id[1] = t => id = Current(t)
        BY SMT, <2>2 DEF Current, AttemptIds
    <2> QED
        BY <1>1, <1>7, <2>1, <2>2, <2>3
<1>11. Settled' /\ (Unasked' => Unasked)
    BY <1>10 DEF Settled, Unasked
<1>12. ASSUME NEW a \in AllAgents
       PROVE  /\ agents[a].state = "RETIRED" => agents'[a].state = "RETIRED"
              /\ agents[a].state # "UNBORN" =>
                    /\ agents'[a].state # "UNBORN"
                    /\ agents[a].type # NoType => agents'[a].type = agents[a].type
    BY <1>4
<1> QED
    BY <1>1, <1>6, <1>9, <1>11, <1>12 DEF Quiet, Honest, incarnation_requires_physical_closure

LEMMA ResolveKeeps ==
    ASSUME StoreInv, NEW t \in Tasks, resolve_retry(t)
    PROVE  StoreInv' /\ Quiet
BY Zenon, RevivalKeeps DEF resolve_retry

LEMMA ReleaseKeeps ==
    ASSUME StoreInv, NEW t \in Tasks, release_cancelled_writer(t)
    PROVE  StoreInv' /\ Quiet
BY Zenon, RevivalKeeps DEF release_cancelled_writer

LEMMA CancelKeeps ==
    ASSUME StoreInv, NEW t \in Tasks, cancel_task(t)
    PROVE  StoreInv' /\ Quiet
<1> USE Zenon
<1>1. CASE Active(t)
    <2>1. tasks[t].number \in 1..MaxAttempts
        BY SMT, <1>1, CountsAreNatural DEF Active, StoreInv, StoreTypeOK
    <2>2. Current(t) \in AttemptIds
        BY <2>1 DEF AttemptIds, Current
    <2> QED
        BY <1>1, <2>2, OneCloses DEF cancel_task, Active
<1>2. CASE ~Active(t)
    <2>1. tasks[t].state \notin {"LEASED", "RUNNING"}
        BY <1>2 DEF StoreInv, Ledger
    <2> QED
        BY <1>2, <2>1, TaskMoves DEF cancel_task
<1> QED
    BY <1>1, <1>2

\* The row of an ACTIVE attempt changes and stays ACTIVE; its task runs or is leased.
LEMMA RowMoves ==
    ASSUME StoreInv, NEW id \in AttemptIds, attempts[id].state = "ACTIVE",
           NEW row \in AttemptRow, row.state = "ACTIVE", row.agent = attempts[id].agent,
           ~row.asked, row.execution = "LIVE" => ~row.fault,
           attempts' = [attempts EXCEPT ![id] = row],
           tasks' \in [Tasks -> [state : {"QUEUED", "RETRY_WAIT", "LEASED", "RUNNING", "SUSPENDED",
                                          "COMPLETED", "CANCELLED"},
                                 number : 0..MaxAttempts]],
           \A u \in Tasks : tasks'[u].number = tasks[u].number,
           \A u \in Tasks : u # id[1] => tasks'[u] = tasks[u],
           tasks'[id[1]].state \in {"LEASED", "RUNNING"},
           hosts' \in [AllAgents -> Host],
           \A a \in AllAgents :
               hosts'[a].binding = hosts[a].binding /\ (hosts[a].used => hosts'[a].used),
           UNCHANGED agents
    PROVE  StoreInv' /\ Quiet
<1> USE Zenon
<1> USE DEF StoreInv
<1>1. /\ attempts' \in [AttemptIds -> AttemptRow]
      /\ attempts'[id] = row
      /\ \A x \in AttemptIds : x # id => attempts'[x] = attempts[x]
    BY DEF StoreTypeOK
<1>2. StoreTypeOK'
    BY <1>1 DEF StoreTypeOK
<1>3. \A x \in AttemptIds : x[1] \in Tasks
    BY DEF AttemptIds
<1>4. tasks[id[1]].state \in {"LEASED", "RUNNING"} /\ id[2] = tasks[id[1]].number
    BY DEF Ledger
<1>5. \A x \in AttemptIds : x[1] = id[1] /\ x[2] = tasks[id[1]].number => x = id
    BY SMT, <1>4 DEF AttemptIds
<1>6. Ledger'
    <2>1. ASSUME NEW x \in AttemptIds, attempts'[x].state = "ACTIVE"
          PROVE  /\ x[2] = tasks'[x[1]].number
                 /\ tasks'[x[1]].state \in {"LEASED", "RUNNING"}
                 /\ attempts'[x].agent \in AllAgents
                 /\ agents'[attempts'[x].agent].state = "ASSIGNED"
                 /\ ~attempts'[x].asked
                 /\ attempts[x].state = "ACTIVE" /\ attempts'[x].agent = attempts[x].agent
        BY SMTT(30), <1>1, <1>3, <1>4, <2>1 DEF Ledger
    <2>2. ASSUME NEW x \in AttemptIds
          PROVE  /\ attempts'[x].state = "NONE" => ~attempts'[x].fault
                 /\ attempts'[x].execution = "LIVE" => attempts'[x].state = "ACTIVE" /\ ~attempts'[x].fault
                 /\ x[2] > tasks'[x[1]].number => attempts'[x].state = "NONE"
        <3>1. CASE x = id
            <4>1. id[2] \in Nat
                BY SMTT(30) DEF AttemptIds
            <4> QED
                BY SMTT(30), <1>1, <1>3, <1>4, <3>1, <4>1
        <3>2. CASE x # id
            BY SMTT(30), <1>1, <1>3, <3>2 DEF Ledger
        <3> QED
            BY <3>1, <3>2
    <2>3. ASSUME NEW i \in AttemptIds, NEW j \in AttemptIds, attempts'[i].state = "ACTIVE",
                 attempts'[j].state = "ACTIVE", attempts'[i].agent = attempts'[j].agent
          PROVE  i = j
        BY SMTT(30), <2>1, <2>3 DEF Ledger
    <2>4. ASSUME NEW t \in Tasks, tasks'[t].state \in {"QUEUED", "RETRY_WAIT"}
          PROVE  tasks'[t].number < MaxAttempts
        BY <1>4, <2>4 DEF Ledger
    <2>5. ASSUME NEW t \in Tasks, tasks'[t].state \in {"LEASED", "RUNNING"}
          PROVE  Active(t)'
        <3>1. Active(t)
            BY <1>4, <2>5 DEF Ledger
        <3>2. tasks[t].number \in 1..MaxAttempts
            BY SMTT(30), <3>1, CountsAreNatural DEF Active, StoreTypeOK
        <3>3. Current(t) \in AttemptIds
            BY <3>2 DEF AttemptIds, Current
        <3>4. attempts'[Current(t)].state = "ACTIVE"
            BY <1>1, <3>1, <3>3 DEF Active
        <3> QED
            BY <3>1, <3>4 DEF Active, Current
    <2> QED
        BY SMTT(30), <2>1, <2>2, <2>3, <2>4, <2>5 DEF Ledger
<1>7. ASSUME NEW x \in AttemptIds, attempts'[x].state = "CLOSED", attempts'[x].fault,
             ~attempts'[x].asked
      PROVE  /\ x[2] = tasks'[x[1]].number /\ tasks'[x[1]].state \in {"SUSPENDED", "CANCELLED"}
             /\ attempts'[x] = attempts[x] /\ tasks'[x[1]] = tasks[x[1]]
    <2>1. x # id /\ attempts'[x] = attempts[x]
        BY <1>1, <1>7
    <2>2. x[2] = tasks[x[1]].number /\ tasks[x[1]].state \in {"SUSPENDED", "CANCELLED"}
        BY <1>7, <2>1 DEF Settled
    <2>3. x[1] # id[1]
        BY <1>4, <2>2
    <2> QED
        BY <1>3, <2>1, <2>2, <2>3
<1>8. Settled' /\ (Unasked' => Unasked)
    BY SMTT(30), <1>7 DEF Settled, Unasked
<1>9. \A a \in AllAgents : incarnation_requires_physical_closure(hosts[a]) =>
         hosts'[a].binding = hosts[a].binding /\ hosts'[a].used
    BY DEF incarnation_requires_physical_closure
<1> QED
    BY <1>2, <1>6, <1>8, <1>9 DEF Quiet, Honest

LEMMA FaultKeeps ==
    ASSUME StoreInv, NEW id \in AttemptIds, record_fault(id)
    PROVE  (StoreInv' /\ Quiet) \/ UNCHANGED store
<1> USE Zenon
<1>1. CASE attempts[id].state = "ACTIVE" /\ attempts[id].execution = "NONE"
    <2> DEFINE row == [attempts[id] EXCEPT !.fault = TRUE]
    <2>1. attempts[id] \in AttemptRow
        BY DEF StoreInv, StoreTypeOK
    <2>2. /\ row \in AttemptRow /\ row.state = "ACTIVE" /\ row.agent = attempts[id].agent
          /\ row.asked = attempts[id].asked /\ row.execution = "NONE"
        BY <1>1, <2>1 DEF AttemptRow
    <2>3. ~row.asked
        BY <1>1, <2>2 DEF StoreInv, Ledger
    <2>4. attempts' = [attempts EXCEPT ![id] = row] /\ UNCHANGED <<tasks, agents, hosts>>
        BY <1>1 DEF record_fault
    <2>5. tasks[id[1]].state \in {"LEASED", "RUNNING"}
        BY <1>1 DEF StoreInv, Ledger
    <2>6. /\ tasks' \in [Tasks -> [state : {"QUEUED", "RETRY_WAIT", "LEASED", "RUNNING", "SUSPENDED",
                                            "COMPLETED", "CANCELLED"},
                                   number : 0..MaxAttempts]]
          /\ hosts' \in [AllAgents -> Host]
        BY <2>4 DEF StoreInv, StoreTypeOK
    <2> HIDE DEF row
    <2> QED
        BY <1>1, <2>2, <2>3, <2>4, <2>5, <2>6, RowMoves
<1>2. CASE ~(attempts[id].state = "ACTIVE" /\ attempts[id].execution = "NONE")
    BY <1>2 DEF record_fault, store
<1> QED
    BY <1>1, <1>2

LEMMA ElapseKeeps ==
    ASSUME StoreInv, NEW id \in AttemptIds, Elapse(id)
    PROVE  StoreInv' /\ Quiet
<1> USE Zenon
<1> DEFINE row == [attempts[id] EXCEPT !.elapsed = TRUE]
<1>1. attempts[id] \in AttemptRow /\ attempts[id].state = "ACTIVE"
    BY DEF StoreInv, StoreTypeOK, Elapse
<1>2. /\ row \in AttemptRow /\ row.state = "ACTIVE" /\ row.agent = attempts[id].agent
      /\ row.asked = attempts[id].asked /\ row.execution = attempts[id].execution
      /\ row.fault = attempts[id].fault
    BY <1>1 DEF AttemptRow
<1>3. ~row.asked /\ (row.execution = "LIVE" => ~row.fault)
    BY SMT, <1>1, <1>2 DEF StoreInv, Ledger
<1>4. attempts' = [attempts EXCEPT ![id] = row] /\ UNCHANGED <<tasks, agents, hosts>>
    BY DEF Elapse
<1>5. tasks[id[1]].state \in {"LEASED", "RUNNING"}
    BY <1>1 DEF StoreInv, Ledger
<1>6. /\ tasks' \in [Tasks -> [state : {"QUEUED", "RETRY_WAIT", "LEASED", "RUNNING", "SUSPENDED",
                                        "COMPLETED", "CANCELLED"},
                               number : 0..MaxAttempts]]
      /\ hosts' \in [AllAgents -> Host]
    BY <1>4 DEF StoreInv, StoreTypeOK
<1> HIDE DEF row
<1> QED
    BY <1>1, <1>2, <1>3, <1>4, <1>5, <1>6, RowMoves

LEMMA ExecutionKeeps ==
    ASSUME StoreInv, NEW id \in AttemptIds, create_execution_with_snapshot(id)
    PROVE  StoreInv' /\ Quiet
<1> USE Zenon
<1> DEFINE row == [attempts[id] EXCEPT !.execution = "LIVE"]
           a == attempts[id].agent
<1>1. attempts[id] \in AttemptRow /\ attempts[id].state = "ACTIVE" /\ ~attempts[id].fault
    BY DEF StoreInv, StoreTypeOK, create_execution_with_snapshot, validate_authority
<1>2. /\ row \in AttemptRow /\ row.state = "ACTIVE" /\ row.agent = attempts[id].agent
      /\ row.asked = attempts[id].asked /\ row.fault = attempts[id].fault
    BY <1>1 DEF AttemptRow
<1>3. ~row.asked /\ ~row.fault
    BY <1>1, <1>2 DEF StoreInv, Ledger
<1>4. attempts' = [attempts EXCEPT ![id] = row] /\ UNCHANGED agents
    BY DEF create_execution_with_snapshot
<1>5. id[1] \in Tasks
    BY DEF AttemptIds
<1>6. /\ tasks' \in [Tasks -> [state : {"QUEUED", "RETRY_WAIT", "LEASED", "RUNNING", "SUSPENDED",
                                        "COMPLETED", "CANCELLED"},
                               number : 0..MaxAttempts]]
      /\ \A u \in Tasks : tasks'[u].number = tasks[u].number
      /\ \A u \in Tasks : u # id[1] => tasks'[u] = tasks[u]
      /\ tasks'[id[1]].state \in {"LEASED", "RUNNING"}
    BY SMT, <1>5 DEF StoreInv, StoreTypeOK, create_execution_with_snapshot
<1>7. /\ hosts' \in [AllAgents -> Host]
      /\ \A x \in AllAgents :
             hosts'[x].binding = hosts[x].binding /\ (hosts[x].used => hosts'[x].used)
    <2>1. a \in AllAgents
        BY <1>1 DEF StoreInv, Ledger
    <2>2. hosts \in [AllAgents -> Host] /\ hosts' = [hosts EXCEPT ![a].used = TRUE]
        BY DEF StoreInv, StoreTypeOK, create_execution_with_snapshot
    <2> HIDE DEF a
    <2> QED
        BY <2>1, <2>2 DEF Host
<1> HIDE DEF row
<1> QED
    BY <1>1, <1>2, <1>3, <1>4, <1>6, <1>7, RowMoves

\* A claim that closes to a suspension asks, and no other row or task is touched.
LEMMA CloseAsks ==
    ASSUME StoreInv, NEW rows, NEW ids \in SUBSET AttemptIds, NEW goes, NEW kept, NEW unsafe,
           \A id \in ids : attempts[id].state = "ACTIVE",
           Close(rows, ids, goes, kept, unsafe)
    PROVE  /\ \A id \in ids : tasks'[id[1]].state = "SUSPENDED" => attempts'[id].asked
           /\ \A id \in AttemptIds : id \notin ids => attempts'[id] = rows[id]
           /\ \A t \in Tasks : (\A id \in ids : id[1] # t) => tasks'[t] = tasks[t]
<1> USE Zenon
<1>1. StoreTypeOK /\ Ledger
    BY DEF StoreInv
<1>2. ASSUME NEW id \in ids, tasks'[id[1]].state = "SUSPENDED"
      PROVE  attempts'[id].asked
    <2>1. id[1] \in Tasks
        BY DEF AttemptIds
    <2>2. /\ tasks'[id[1]] = [tasks[id[1]] EXCEPT !.state = goes[id]]
          /\ attempts'[id] = Closed(rows[id].fault, Asks(id, goes, unsafe), Held(id, unsafe))
          /\ agents'[attempts[id].agent] =
                [agents[attempts[id].agent] EXCEPT !.state = Freed(id, unsafe)]
          /\ hosts'[attempts[id].agent] \in {NoHost, hosts[attempts[id].agent]}
        BY <1>1, CloseEffect
    <2>3. goes[id] = "SUSPENDED"
        BY SMT, <1>1, <1>2, <2>1, <2>2 DEF StoreTypeOK
    <2>4. Closed(rows[id].fault, Asks(id, goes, unsafe), Held(id, unsafe)).asked
             = Asks(id, goes, unsafe)
        BY DEF Closed
    <2>5. attempts'[id].asked = Asks(id, goes, unsafe)
        BY <2>2, <2>4
    <2> QED
        BY <2>3, <2>5 DEF Asks
<1>3. attempts' = [x \in AttemptIds |-> IF x \in ids
                                        THEN Closed(rows[x].fault, Asks(x, goes, unsafe), Held(x, unsafe))
                                        ELSE rows[x]]
    BY DEF Close, Asks, Held
<1>4. \A id \in AttemptIds : id \notin ids => attempts'[id] = rows[id]
    BY <1>3
<1>5. ASSUME NEW t \in Tasks, \A id \in ids : id[1] # t
      PROVE  tasks'[t] = tasks[t]
    BY <1>1, <1>5, CloseEffect
<1> QED
    BY <1>2, <1>4, <1>5

\* Expiry closes what is due, and asks Root about every fault that suspends a task.
LEMMA ExpireKeeps ==
    ASSUME StoreInv, NEW b \in BOOLEAN, expire_leases(b)
    PROVE  StoreInv' /\ Quiet /\ ~Unasked'
<1> USE Zenon
<1> DEFINE due == Due(b)
           rows == restore_missing_escalations(attempts)
           goes == [id \in due |-> ExpiresTo(id)]
           kept == [id \in due |-> attempts[id].execution = "NONE"]
           unsafe == {id \in due : ~writer_is_safe_to_replace(id)}
<1>1. Close(rows, due, goes, kept, unsafe)
    BY DEF expire_leases
<1>2. due \in SUBSET AttemptIds /\ \A id \in due : attempts[id].state = "ACTIVE"
    BY DEF Due
<1>3. ASSUME NEW id \in AttemptIds
      PROVE  /\ attempts[id] \in AttemptRow
             /\ rows[id] = IF /\ attempts[id].fault /\ attempts[id].state = "CLOSED"
                              /\ tasks[id[1]].state = "SUSPENDED" /\ id = Current(id[1])
                           THEN [attempts[id] EXCEPT !.asked = TRUE] ELSE attempts[id]
    BY DEF StoreInv, StoreTypeOK, restore_missing_escalations
<1>4. RowsOf(rows)
    <2> HIDE DEF rows
    <2> SUFFICES ASSUME NEW id \in AttemptIds
                 PROVE  /\ rows[id] = [attempts[id] EXCEPT !.asked = rows[id].asked]
                        /\ rows[id].asked \in BOOLEAN
                        /\ attempts[id].asked => rows[id].asked
                        /\ attempts[id].state # "CLOSED" => rows[id] = attempts[id]
        BY DEF RowsOf
    <2>1. CASE rows[id] = attempts[id]
        BY <1>3, <2>1 DEF AttemptRow
    <2>2. CASE attempts[id].state = "CLOSED" /\ rows[id] = [attempts[id] EXCEPT !.asked = TRUE]
        BY <1>3, <2>2 DEF AttemptRow
    <2> QED
        BY <1>3, <2>1, <2>2
<1>5. ASSUME NEW id \in due
      PROVE  /\ goes[id] = ExpiresTo(id) /\ rows[id] = attempts[id]
             /\ ExpiresTo(id) \in {"RETRY_WAIT", "SUSPENDED"}
             /\ ExpiresTo(id) = "RETRY_WAIT" => id[2] < MaxAttempts /\ ~attempts[id].fault
    <2>1. rows[id] = attempts[id]
        BY <1>2, <1>3
    <2> QED
        BY <2>1 DEF ExpiresTo, RetryOrSuspend
<1> HIDE DEF rows, due, goes, kept, unsafe
<1>6. GoesWell(rows, due, goes)
    BY <1>5 DEF GoesWell
<1>7. StoreInv' /\ Quiet
    BY <1>1, <1>2, <1>4, <1>6, CloseKeeps
<1>8. ASSUME NEW id \in AttemptIds, attempts'[id].state = "CLOSED", attempts'[id].fault,
             ~attempts'[id].asked, tasks'[id[1]].state = "SUSPENDED"
      PROVE  FALSE
    <2>1. CASE id \in due
        BY <1>1, <1>2, <1>8, <2>1, CloseAsks
    <2>2. CASE id \notin due
        <3>1. attempts'[id] = rows[id]
            BY <1>1, <1>2, <2>2, CloseAsks
        <3>2. attempts[id].state = "CLOSED" /\ attempts[id].fault /\ ~attempts[id].asked
            BY <1>3, <1>8, <3>1 DEF AttemptRow
        <3>3. id[2] = tasks[id[1]].number /\ tasks[id[1]].state \in {"SUSPENDED", "CANCELLED"}
            BY <3>2 DEF StoreInv, Settled
        <3>4. id[1] \in Tasks /\ id = Current(id[1])
            BY SMTT(30), <3>3 DEF AttemptIds, Current
        <3>5. \A x \in due : x[1] # id[1]
            BY SMT, <1>2, <3>3 DEF StoreInv, Ledger
        <3>6. tasks'[id[1]] = tasks[id[1]]
            BY <1>1, <1>2, <3>4, <3>5, CloseAsks
        <3>7. rows[id] = [attempts[id] EXCEPT !.asked = TRUE]
            BY <1>3, <1>8, <3>2, <3>4, <3>6
        <3> QED
            BY <1>3, <1>8, <3>1, <3>7 DEF AttemptRow
    <2> QED
        BY <2>1, <2>2
<1> QED
    BY <1>7, <1>8 DEF Unasked

\* The pool: an agent is bound to a type, is revived, or retires.
LEMMA PoolKeeps ==
    ASSUME StoreInv, NEW a \in AllAgents,
           \/ retire_logical_agent(a) \/ revive_agent(a)
           \/ \E ref \in Types : bind_logical_agent_type(a, ref)
    PROVE  StoreInv' /\ Quiet
<1> USE Zenon
<1> USE DEF StoreInv
<1>1. NoHost \in Host
    BY DEF NoHost, Host
<1>2. /\ agents[a].state \in {"READY", "REVIVING"} /\ UNCHANGED <<tasks, attempts>>
      /\ agents' \in [AllAgents -> [state : {"UNBORN", "READY", "ASSIGNED", "SUSPENDED", "REVIVING",
                                             "RETIRED"},
                                    type : Types \cup {NoType}, home : Home]]
      /\ \A x \in AllAgents : x # a => agents'[x] = agents[x]
      /\ agents'[a].state \in {"READY", "RETIRED"}
      /\ agents[a].type # NoType => agents'[a].type = agents[a].type
    BY SMT DEF retire_logical_agent, revive_agent, bind_logical_agent_type, StoreTypeOK
<1>3. /\ hosts' \in [AllAgents -> Host]
      /\ \A x \in AllAgents : hosts'[x] \in {hosts[x], NoHost}
    BY ZenonT(60), <1>1 DEF retire_logical_agent, revive_agent, bind_logical_agent_type, StoreTypeOK
<1>4. StoreTypeOK'
    BY <1>2, <1>3 DEF StoreTypeOK
<1>5. \A id \in AttemptIds : attempts[id].state = "ACTIVE" =>
         agents'[attempts[id].agent].state = "ASSIGNED"
    BY SMT, <1>2 DEF Ledger
<1>6. Ledger'
    BY SMTT(30), <1>2, <1>5 DEF Ledger, Active, Current
<1>7. Settled' /\ (Unasked' => Unasked)
    BY <1>2 DEF Settled, Unasked
<1>8. ASSUME NEW x \in AllAgents
      PROVE  /\ agents[x].state = "RETIRED" => agents'[x].state = "RETIRED"
             /\ agents[x].state # "UNBORN" =>
                   /\ agents'[x].state # "UNBORN"
                   /\ agents[x].type # NoType => agents'[x].type = agents[x].type
             /\ incarnation_requires_physical_closure(hosts[x]) =>
                   \/ hosts'[x] = NoHost
                   \/ hosts'[x].binding = hosts[x].binding /\ hosts'[x].used
    BY <1>2, <1>3 DEF incarnation_requires_physical_closure
<1> QED
    BY <1>2, <1>4, <1>6, <1>7, <1>8 DEF Quiet, Honest

\* A step that leaves the store alone.
LEMMA StoreStutters ==
    ASSUME StoreInv, UNCHANGED store
    PROVE  StoreInv' /\ Quiet
<1> USE Zenon
<1>1. UNCHANGED <<tasks, attempts, agents, hosts>>
    BY DEF store
<1>2. StoreInv'
    BY SMT, <1>1 DEF StoreInv, StoreTypeOK, Ledger, Settled, Active, Current
<1>3. Quiet
    BY <1>1 DEF Quiet, Honest, Unasked, incarnation_requires_physical_closure
<1> QED
    BY <1>2, <1>3

\* The transaction is not refused: every one of its checks has passed.
LEMMA FinishPasses ==
    ASSUME NEW t, NEW a, NEW type, NEW winner, finish_acquisition(t, a, type, winner) = "none"
    PROVE  /\ claim_task_ready(t) /\ agents[a].state \in {"READY", "UNBORN"}
           /\ active_catalog_frontier_digest = d.frontier
           /\ Reproved(winner.config, Contract[type], t)
           /\ HostRefusal(hosts[a], [type |-> type, config |-> winner.config,
                                     digest |-> winner.digest]) = "none"
<1> USE Zenon
<1> DEFINE p1 == agents[a].state = "UNBORN" /\ catalog[type] # "PUBLISHED"
           p2 == ~claim_task_ready(t) \/ agents[a].state \notin {"READY", "UNBORN"}
           p3 == is_cross_revision_of_pin(type, Requirement[t].type) \/ ~placement_matches(a, t)
           p4 == ~can_execute(Contract[type], Requirement[t].hard)
           p5 == active_catalog_frontier_digest # d.frontier
           p6 == ~Reproved(winner.config, Contract[type], t)
           refused == HostRefusal(hosts[a], [type |-> type, config |-> winner.config,
                                             digest |-> winner.digest])
<1>1. "none" = CASE p1 -> "local" [] p2 -> "transition" [] p3 -> "local" [] p4 -> "local"
                 [] p5 -> "stale" [] p6 -> "local" [] OTHER -> refused
    BY DEF finish_acquisition
<1> HIDE DEF p1, p2, p3, p4, p5, p6, refused
<1>2. ~p2 /\ ~p5 /\ ~p6 /\ refused = "none"
    BY <1>1
<1> QED
    BY <1>2 DEF p2, p5, p6, refused

\* What the host of a claim becomes is a host with the binding of the claim; one that may
\* run is kept as it is.
LEMMA HostResolved ==
    ASSUME NEW host \in Host, NEW binding \in Binding, HostRefusal(host, binding) = "none"
    PROVE  /\ resolve_incarnation(host, binding) \in Host
           /\ resolve_incarnation(host, binding).binding = binding
           /\ incarnation_requires_physical_closure(host) =>
                 resolve_incarnation(host, binding) = host
<1> USE Zenon
<1>1. CASE host.binding = binding
    BY <1>1 DEF resolve_incarnation
<1>2. CASE host.binding # binding /\ Fresh(host)
    <2>1. resolve_incarnation(host, binding) = [host EXCEPT !.binding = binding]
        BY <1>2 DEF resolve_incarnation
    <2>2. ~incarnation_requires_physical_closure(host)
        BY <1>2 DEF incarnation_requires_physical_closure, Fresh
    <2> QED
        BY <2>1, <2>2 DEF Host
<1>3. CASE host.binding # binding /\ ~Fresh(host)
    <2>1. resolve_incarnation(host, binding) = [state |-> "STARTING", binding |-> binding, used |-> FALSE]
        BY <1>3 DEF resolve_incarnation
    <2>2. ~incarnation_requires_physical_closure(host)
        BY <1>3 DEF HostRefusal, fence_idle_incarnation, incarnation_requires_physical_closure
    <2>3. [state |-> "STARTING", binding |-> binding, used |-> FALSE] \in Host
        BY DEF Host
    <2> QED
        BY SMT, <2>1, <2>2, <2>3
<1> QED
    BY <1>1, <1>2, <1>3

\* A claim is committed.
Commits(t, a, type, binding) ==
    LET n == tasks[t].number + 1
    IN  /\ tasks' = [tasks EXCEPT ![t] = [state |-> "LEASED", number |-> n]]
        /\ attempts' = [attempts EXCEPT ![<<t, n>>] = Claimed(a)]
        /\ agents' = [agents EXCEPT ![a] =
                         [state |-> "ASSIGNED", type |-> type,
                          home |-> IF @.state = "UNBORN" THEN birth_agent(t) ELSE @.home]]
        /\ hosts' = [hosts EXCEPT ![a] = resolve_incarnation(@, binding)]

LEMMA ClaimKeeps ==
    ASSUME StoreInv, NEW t \in Tasks, NEW a \in AllAgents, NEW type \in Types,
           NEW binding \in Binding,
           tasks[t].state = "QUEUED", agents[a].state \in {"READY", "UNBORN"},
           agents[a].state = "READY" => agents[a].type \in {NoType, type},
           HostRefusal(hosts[a], binding) = "none", Commits(t, a, type, binding)
    PROVE  /\ StoreInv' /\ Honest
           /\ \A u \in Tasks : tasks'[u].number > tasks[u].number =>
                 u = t /\ hosts'[attempts'[<<u, tasks'[u].number>>].agent].binding = binding
<1> USE Zenon
<1> USE DEF StoreInv
<1> DEFINE n == tasks[t].number + 1
           id == <<t, n>>
<1>1. tasks[t].number \in 0..MaxAttempts /\ tasks[t].number < MaxAttempts
    BY DEF StoreTypeOK, Ledger
<1>2. n \in 1..MaxAttempts /\ id \in AttemptIds
    BY SMTT(30), <1>1, CountsAreNatural DEF AttemptIds
<1>3. /\ tasks' \in [Tasks -> [state : {"QUEUED", "RETRY_WAIT", "LEASED", "RUNNING", "SUSPENDED",
                                        "COMPLETED", "CANCELLED"},
                               number : 0..MaxAttempts]]
      /\ tasks'[t].state = "LEASED" /\ tasks'[t].number = n
      /\ \A u \in Tasks : u # t => tasks'[u] = tasks[u]
    BY SMTT(30), <1>2, CountsAreNatural DEF Commits, StoreTypeOK
<1>4. /\ Claimed(a) \in AttemptRow /\ Claimed(a).state = "ACTIVE" /\ Claimed(a).agent = a
      /\ ~Claimed(a).asked /\ ~Claimed(a).fault /\ Claimed(a).execution = "NONE"
    BY DEF Claimed, AttemptRow
<1>5. /\ attempts' \in [AttemptIds -> AttemptRow]
      /\ attempts'[id] = Claimed(a)
      /\ \A x \in AttemptIds : x # id => attempts'[x] = attempts[x]
    BY <1>2, <1>4 DEF Commits, StoreTypeOK
<1>6. /\ agents' \in [AllAgents -> [state : {"UNBORN", "READY", "ASSIGNED", "SUSPENDED", "REVIVING",
                                             "RETIRED"},
                                    type : Types \cup {NoType}, home : Home]]
      /\ agents'[a].state = "ASSIGNED" /\ agents'[a].type = type
      /\ \A x \in AllAgents : x # a => agents'[x] = agents[x]
    <2>1. birth_agent(t) \in Home
        BY DEF Home
    <2> QED
        BY <2>1 DEF Commits, StoreTypeOK
<1>7. hosts[a] \in Host
    BY DEF StoreTypeOK
<1>8. /\ resolve_incarnation(hosts[a], binding) \in Host
      /\ resolve_incarnation(hosts[a], binding).binding = binding
      /\ incarnation_requires_physical_closure(hosts[a]) =>
            resolve_incarnation(hosts[a], binding) = hosts[a]
    BY <1>7, HostResolved
<1>9. /\ hosts' \in [AllAgents -> Host]
      /\ hosts'[a].binding = binding
      /\ incarnation_requires_physical_closure(hosts[a]) => hosts'[a] = hosts[a]
      /\ \A x \in AllAgents : x # a => hosts'[x] = hosts[x]
    BY <1>8 DEF Commits, StoreTypeOK
<1>10. \A x \in AttemptIds : x[1] \in Tasks /\ x[2] \in Nat
    BY SMTT(30) DEF AttemptIds
<1> HIDE DEF n
<1>11. \A x \in AttemptIds : attempts[x].state = "ACTIVE" => attempts[x].agent # a /\ x[1] # t
    BY DEF Ledger
<1>12. n > tasks[t].number /\ n \in Nat /\ tasks[t].number \in Nat
    BY SMT, <1>1, CountsAreNatural DEF n
<1>13. attempts[id].state = "NONE"
    BY <1>2, <1>12 DEF Ledger
<1>14. \A x \in AttemptIds : x[1] = t /\ x[2] = n => x = id
    BY SMTT(30) DEF AttemptIds
<1>15. StoreTypeOK'
    BY ZenonT(60), <1>3, <1>5, <1>6, <1>9 DEF StoreTypeOK
<1>16. Ledger'
    <2>1. ASSUME NEW x \in AttemptIds, attempts'[x].state = "ACTIVE"
          PROVE  /\ x[2] = tasks'[x[1]].number
                 /\ tasks'[x[1]].state \in {"LEASED", "RUNNING"}
                 /\ attempts'[x].agent \in AllAgents
                 /\ agents'[attempts'[x].agent].state = "ASSIGNED"
                 /\ ~attempts'[x].asked
                 /\ x # id => /\ attempts[x].state = "ACTIVE" /\ attempts'[x].agent = attempts[x].agent
                              /\ attempts[x].agent # a
        <3>1. CASE x = id
            BY ZenonT(60), <1>3, <1>4, <1>5, <1>6, <3>1
        <3>2. CASE x # id
            BY SMTT(30), <1>3, <1>5, <1>6, <1>10, <1>11, <2>1, <3>2 DEF Ledger
        <3> QED
            BY <3>1, <3>2
    <2>2. ASSUME NEW x \in AttemptIds
          PROVE  /\ attempts'[x].state = "NONE" => ~attempts'[x].fault
                 /\ attempts'[x].execution = "LIVE" => attempts'[x].state = "ACTIVE" /\ ~attempts'[x].fault
                 /\ x[2] > tasks'[x[1]].number => attempts'[x].state = "NONE"
        <3>1. CASE x = id
            BY SMTT(30), <1>3, <1>4, <1>5, <1>12, <3>1
        <3>2. CASE x # id /\ x[1] = t
            BY SMTT(30), <1>3, <1>5, <1>10, <1>12, <3>2 DEF Ledger
        <3>3. CASE x # id /\ x[1] # t
            BY SMTT(30), <1>3, <1>5, <1>10, <3>3 DEF Ledger
        <3> QED
            BY <3>1, <3>2, <3>3
    <2>3. ASSUME NEW i \in AttemptIds, NEW j \in AttemptIds, attempts'[i].state = "ACTIVE",
                 attempts'[j].state = "ACTIVE", attempts'[i].agent = attempts'[j].agent
          PROVE  i = j
        <3>1. attempts'[id].agent = a
            BY <1>4, <1>5
        <3>2. CASE i = id \/ j = id
            BY SMTT(30), <2>1, <2>3, <3>1, <3>2
        <3>3. CASE i # id /\ j # id
            BY SMTT(30), <2>1, <2>3, <3>3 DEF Ledger
        <3> QED
            BY <3>2, <3>3
    <2>4. ASSUME NEW u \in Tasks, tasks'[u].state \in {"QUEUED", "RETRY_WAIT"}
          PROVE  tasks'[u].number < MaxAttempts
        BY <1>3, <2>4 DEF Ledger
    <2>5. ASSUME NEW u \in Tasks, tasks'[u].state \in {"LEASED", "RUNNING"}
          PROVE  Active(u)'
        <3>1. CASE u = t
            BY SMTT(30), <1>3, <1>4, <1>5, <1>12, <3>1 DEF Active, Current
        <3>2. CASE u # t
            <4>1. Active(u) /\ tasks'[u] = tasks[u]
                BY <1>3, <2>5, <3>2 DEF Ledger
            <4>2. tasks[u].number \in 1..MaxAttempts
                BY SMTT(30), <4>1, CountsAreNatural DEF Active, StoreTypeOK
            <4>3. Current(u) \in AttemptIds /\ Current(u) # id
                BY <3>2, <4>2 DEF AttemptIds, Current
            <4> QED
                BY <1>5, <4>1, <4>3 DEF Active, Current
        <3> QED
            BY <3>1, <3>2
    <2> QED
        BY SMTT(30), <2>1, <2>2, <2>3, <2>4, <2>5 DEF Ledger
<1>17. ASSUME NEW x \in AttemptIds, attempts'[x].state = "CLOSED", attempts'[x].fault,
              ~attempts'[x].asked
       PROVE  /\ x[2] = tasks'[x[1]].number /\ tasks'[x[1]].state \in {"SUSPENDED", "CANCELLED"}
              /\ attempts'[x] = attempts[x] /\ tasks'[x[1]] = tasks[x[1]]
    <2>1. x # id /\ attempts'[x] = attempts[x]
        BY <1>4, <1>5, <1>17
    <2>2. x[2] = tasks[x[1]].number /\ tasks[x[1]].state \in {"SUSPENDED", "CANCELLED"}
        BY ZenonT(60), <1>17, <2>1 DEF Settled
    <2> QED
        BY <1>3, <1>10, <2>1, <2>2
<1>18. Settled' /\ (Unasked' => Unasked)
    BY SMTT(30), <1>17 DEF Settled, Unasked
<1>19. ASSUME NEW x \in AllAgents
       PROVE  /\ agents[x].state = "RETIRED" => agents'[x].state = "RETIRED"
              /\ agents[x].state # "UNBORN" =>
                    /\ agents'[x].state # "UNBORN"
                    /\ agents[x].type # NoType => agents'[x].type = agents[x].type
              /\ incarnation_requires_physical_closure(hosts[x]) =>
                    \/ hosts'[x] = NoHost
                    \/ hosts'[x].binding = hosts[x].binding /\ hosts'[x].used
    <2>1. CASE x = a
        BY <1>6, <1>9, <2>1 DEF incarnation_requires_physical_closure
    <2>2. CASE x # a
        BY <1>6, <1>9, <2>2 DEF incarnation_requires_physical_closure
    <2> QED
        BY <2>1, <2>2
<1>20. ASSUME NEW u \in Tasks
       PROVE  \/ tasks'[u].number = tasks[u].number
              \/ tasks[u].state = "QUEUED" /\ tasks'[u].number = tasks[u].number + 1
    BY <1>3 DEF n
<1>21. ASSUME NEW u \in Tasks, tasks'[u].number > tasks[u].number
       PROVE  u = t /\ hosts'[attempts'[<<u, tasks'[u].number>>].agent].binding = binding
    <2>1. u = t
        <3>1. tasks[u].number \in Nat
            BY SMT, CountsAreNatural DEF StoreTypeOK
        <3> QED
            BY SMTT(30), <1>3, <1>21, <3>1
    <2> QED
        BY <1>3, <1>4, <1>5, <1>9, <2>1
<1> QED
    BY <1>15, <1>16, <1>18, <1>19, <1>20, <1>21 DEF Honest

----------------------------------------------------------------------------
(* The dispatch of the control thread *)

LEMMA CatalogTyped ==
    ASSUME CatalogTypeOK, [Next]_vars
    PROVE  CatalogTypeOK'
<1> USE Zenon
<1>1. CASE CatalogOperator
    <2>1. \/ UNCHANGED catalog
          \/ \E ref \in Types, status \in {"PUBLISHED", "DEPRECATED"} :
                catalog' = [catalog EXCEPT ![ref] = status]
          \/ \E ref \in Policies \cup Sources \cup Configs, status \in Dispositions :
                catalog' = [catalog EXCEPT ![ref] = status]
        BY <1>1 DEF CatalogOperator, publish_agent_type, set_agent_type_status,
            publish_adapter_binding_policy, set_adapter_binding_policy_status,
            publish_spawn_source, set_spawn_source_status, publish_source_config,
            set_source_config_status, Publish, SetStatus
    <2>2. CASE UNCHANGED catalog
        BY <2>2 DEF CatalogTypeOK
    <2>3. ASSUME NEW ref \in Types, NEW status \in {"PUBLISHED", "DEPRECATED"},
                 catalog' = [catalog EXCEPT ![ref] = status]
          PROVE  CatalogTypeOK'
        BY <2>3 DEF CatalogTypeOK
    <2>4. ASSUME NEW ref \in Policies \cup Sources \cup Configs, NEW status \in Dispositions,
                 catalog' = [catalog EXCEPT ![ref] = status]
          PROVE  CatalogTypeOK'
        <3>1. ref \notin Types /\ status \in Disposition
            BY CatalogAssumption DEF Disposition
        <3> QED
            BY <2>4, <3>1 DEF CatalogTypeOK
    <2> QED
        BY <2>1, <2>2, <2>3, <2>4
<1>2. CASE UNCHANGED catalog
    BY <1>2 DEF CatalogTypeOK
<1> QED
    BY <1>1, <1>2, CatalogStep

LEMMA FrontierTyped ==
    ASSUME CatalogTypeOK
    PROVE  active_catalog_frontier_digest \in Digests
<1> USE Zenon
<1>1. ASSUME NEW s \in list_active_spawn_source_refs
      PROVE  <<s, SourceContent[s].policy, catalog[SourceContent[s].policy]>>
                \in Sources \X Policies \X ({"NONE"} \cup Disposition)
    <2>1. s \in Sources /\ SourceContent[s].policy \in Policies
        BY CatalogAssumption DEF list_active_spawn_source_refs
    <2>2. SourceContent[s].policy \notin Types
        BY <2>1, CatalogAssumption
    <2> QED
        BY <2>1, <2>2 DEF CatalogTypeOK
<1>2. UNION {list_active_source_config_refs(s) : s \in list_active_spawn_source_refs} \in SUBSET Configs
    BY DEF list_active_source_config_refs
<1> QED
    BY <1>1, <1>2 DEF active_catalog_frontier_digest, Digests

DispatchType ==
    d \in [pc : {"idle", "cycle", "probe", "select", "list", "attest", "prepare", "preparing",
                 "launch", "failed", "down"},
           task : Tasks \cup {NoTask}, queue : SUBSET Tasks, eligible : SUBSET Candidate,
           ranked : SUBSET Candidate, agent : AllAgents \cup {NoAgent}, frontier : Digests,
           sources : SUBSET Sources, seen : SUBSET Configs, found : SUBSET Attestation]

\* An agent that exists and is bound to a type, which it keeps.
Bound(a) == a \in AllAgents /\ agents[a].state # "UNBORN" /\ agents[a].type \in Types

\* What the dispatch has in hand exists: its task, the claim it has committed, the agents
\* it has matched.
Carrying ==
    /\ d.pc \in {"select", "list", "attest", "prepare", "preparing", "launch"} => d.task \in Tasks
    /\ d.pc \in {"prepare", "preparing", "launch"} => tasks[d.task].number > 0
    /\ \A c \in d.ranked : Bound(c.agent)
    /\ d.agent # NoAgent => Bound(d.agent)

\* Once a cycle has begun, nothing is suspended over a fault that Root was not asked about.
Asked == Unasked => d.pc \in {"idle", "down", "failed"}

\* The dispatch has nothing in hand.
Resting ==
    /\ DispatchType /\ d.pc \in {"idle", "cycle", "probe", "failed", "down"}
    /\ d.ranked = {} /\ d.agent = NoAgent

LEMMA RestingCarries ==
    ASSUME Resting
    PROVE  DispatchType /\ Carrying
BY Zenon DEF Resting, Carrying

LEMMA AtRests ==
    ASSUME NEW pc \in {"idle", "cycle", "probe", "failed", "down"}, d' = At(pc)
    PROVE  Resting' /\ d'.pc = pc
<1> USE Zenon
<1>1. NoFrontier \in Digests
    BY DEF NoFrontier, Digests
<1> QED
    BY <1>1 DEF At, Resting, DispatchType

LEMMA DeferRests ==
    ASSUME DispatchType, NEW queue \in SUBSET Tasks, d' = Resume(queue)
    PROVE  Resting' /\ d'.pc \in {"idle", "probe"}
<1> USE Zenon
<1>1. NoFrontier \in Digests
    BY DEF NoFrontier, Digests
<1>2. CASE queue = {}
    BY <1>2, AtRests DEF Resume
<1>3. CASE queue # {}
    BY <1>1, <1>3 DEF Resume, At, Resting, DispatchType
<1> QED
    BY <1>2, <1>3

LEMMA BoundStays ==
    ASSUME StoreInv, StoreInv', Honest, NEW a, Bound(a)
    PROVE  Bound(a)' /\ agents'[a].type = agents[a].type
<1> USE Zenon
<1>1. a \in AllAgents /\ agents[a].state # "UNBORN" /\ agents[a].type # NoType
    BY InstanceAssumption DEF Bound
<1> QED
    BY <1>1 DEF Bound, Honest

LEMMA NumberStays ==
    ASSUME StoreInv, Honest, NEW t \in Tasks, tasks[t].number > 0
    PROVE  tasks'[t].number > 0
BY CountsAreNatural DEF StoreInv, StoreTypeOK, Honest

\* The dispatch waits while the others work.
LEMMA CarryingStays ==
    ASSUME StoreInv, StoreInv', Honest, DispatchType, Carrying, UNCHANGED d
    PROVE  DispatchType' /\ Carrying'
<1> USE Zenon
<1>1. DispatchType'
    BY DEF DispatchType
<1>2. d.pc \in {"prepare", "preparing", "launch"} => tasks'[d.task].number > 0
    BY NumberStays DEF Carrying
<1>3. \A c \in d.ranked : Bound(c.agent)'
    BY BoundStays DEF Carrying
<1>4. d.agent # NoAgent => Bound(d.agent)'
    BY BoundStays DEF Carrying
<1>5. d'.pc = d.pc /\ d'.task = d.task /\ d'.ranked = d.ranked /\ d'.agent = d.agent
    OBVIOUS
<1> QED
    BY <1>1, <1>2, <1>3, <1>4, <1>5 DEF Carrying, Bound

\* The next agent, or none: the task is deferred.
LEMMA NextAgentCarries ==
    ASSUME DispatchType, Carrying, d.pc = "attest", NextAgent, UNCHANGED store
    PROVE  /\ DispatchType' /\ Carrying'
           /\ d'.pc \in {"idle", "probe", "select"}
<1> USE Zenon
<1>1. CASE d.agent = NoAgent
    <2>1. d.queue \ {d.task} \in SUBSET Tasks
        BY DEF DispatchType
    <2>2. Resting' /\ d'.pc \in {"idle", "probe"}
        BY <1>1, <2>1, DeferRests DEF NextAgent, defer_or_fail_typed
    <2>3. DispatchType' /\ Carrying'
        BY <2>2 DEF Resting, Carrying
    <2> QED
        BY <2>2, <2>3
<1>2. CASE d.agent # NoAgent
    <2>1. d' = [d EXCEPT !.pc = "select"]
        BY <1>2 DEF NextAgent
    <2>2. DispatchType' /\ d'.pc = "select" /\ d'.task = d.task /\ d'.ranked = d.ranked /\ d'.agent = d.agent
        BY <2>1 DEF DispatchType
    <2> QED
        BY <2>2 DEF Carrying, Bound, store
<1> QED
    BY <1>1, <1>2

\* The authority transaction: refused, with the store as it was, or all of its checks hold
\* and the claim is committed with the binding of the winner.
LEMMA AcquireKeeps ==
    ASSUME StoreInv, DispatchType, Carrying, d.pc = "attest",
           NEW a \in AllAgents, NEW type \in Types, NEW winner \in Attestation,
           agents[a].state # "UNBORN" => agents[a].type = type,
           acquire_with(a, type, winner)
    PROVE  /\ DispatchType' /\ Carrying' /\ StoreInv' /\ Honest
           /\ d'.pc \in {"idle", "probe", "select", "prepare", "failed"}
           /\ \A u \in Tasks : tasks'[u].number > tasks[u].number =>
                 /\ u = d.task
                 /\ hosts'[attempts'[<<u, tasks'[u].number>>].agent].binding =
                       [type |-> type, config |-> winner.config, digest |-> winner.digest]
                 /\ active_catalog_frontier_digest = d.frontier
                 /\ Reproved(winner.config, Contract[type], d.task)
<1> USE Zenon
<1> DEFINE t == d.task
           binding == [type |-> type, config |-> winner.config, digest |-> winner.digest]
           refusal == finish_acquisition(t, a, type, winner)
<1>1. t \in Tasks
    BY DEF Carrying
<1>2. CASE refusal = "none" /\ Commits(t, a, type, binding)
           /\ d' = [At("prepare") EXCEPT !.task = t, !.queue = d.queue]
    <2>1. /\ claim_task_ready(t) /\ agents[a].state \in {"READY", "UNBORN"}
          /\ active_catalog_frontier_digest = d.frontier
          /\ Reproved(winner.config, Contract[type], t)
          /\ HostRefusal(hosts[a], binding) = "none"
        BY SMT, <1>2, FinishPasses
    <2>2. binding \in Binding
        BY DEF Binding, Attestation
    <2> HIDE DEF binding, refusal
    <2>3. /\ StoreInv' /\ Honest
          /\ \A u \in Tasks : tasks'[u].number > tasks[u].number =>
                u = t /\ hosts'[attempts'[<<u, tasks'[u].number>>].agent].binding = binding
        BY SMT, <1>1, <1>2, <2>1, <2>2, ClaimKeeps DEF claim_task_ready
    <2>4. /\ d'.pc = "prepare" /\ d'.task = t /\ d'.ranked = {} /\ d'.agent = NoAgent
          /\ DispatchType'
        <3>1. NoFrontier \in Digests
            BY DEF NoFrontier, Digests
        <3> QED
            BY <1>1, <1>2, <3>1 DEF At, DispatchType
    <2>5. tasks'[t].number > 0
        <3>1. tasks'[t].number = tasks[t].number + 1 /\ tasks[t].number \in Nat
            BY SMTT(30), <1>1, <1>2, CountsAreNatural DEF Commits, StoreInv, StoreTypeOK
        <3> QED
            BY SMTT(30), <3>1
    <2>6. Carrying'
        BY <1>1, <2>4, <2>5 DEF Carrying
    <2> QED
        BY <2>1, <2>3, <2>4, <2>6 DEF binding
<1>3. CASE NextAgent /\ UNCHANGED store
    <2>1. StoreInv' /\ Honest
        BY <1>3, StoreStutters DEF Quiet
    <2>2. \A u \in Tasks : ~(tasks'[u].number > tasks[u].number)
        BY SMT, <1>3, CountsAreNatural DEF store, StoreInv, StoreTypeOK
    <2> QED
        BY <1>3, <2>1, <2>2, NextAgentCarries
<1>4. CASE (defer_or_fail_typed(t) \/ d' = At("failed")) /\ UNCHANGED store
    <2>1. StoreInv' /\ Honest
        BY <1>4, StoreStutters DEF Quiet
    <2>2. \A u \in Tasks : ~(tasks'[u].number > tasks[u].number)
        BY SMT, <1>4, CountsAreNatural DEF store, StoreInv, StoreTypeOK
    <2>3. Resting' /\ d'.pc \in {"idle", "probe", "failed"}
        <3>1. d.queue \ {d.task} \in SUBSET Tasks
            BY DEF DispatchType
        <3>2. CASE defer_or_fail_typed(t)
            BY <3>1, <3>2, DeferRests DEF defer_or_fail_typed
        <3>3. CASE d' = At("failed")
            BY <3>3, AtRests
        <3> QED
            BY <1>4, <3>2, <3>3
    <2>4. DispatchType' /\ Carrying'
        BY <2>3 DEF Resting, Carrying
    <2> QED
        BY <2>1, <2>2, <2>3, <2>4
<1>5. \/ refusal = "none" /\ Commits(t, a, type, binding)
         /\ d' = [At("prepare") EXCEPT !.task = t, !.queue = d.queue]
      \/ NextAgent /\ UNCHANGED store
      \/ (defer_or_fail_typed(t) \/ d' = At("failed")) /\ UNCHANGED store
    BY DEF acquire_with, Commits, store
<1> QED
    BY <1>2, <1>3, <1>4, <1>5

\* The claim in hand is a row of the store.
LEMMA InHandIsARow ==
    ASSUME StoreInv, Carrying, d.pc \in {"prepare", "preparing", "launch"}
    PROVE  InHand \in AttemptIds
<1>1. d.task \in Tasks /\ tasks[d.task].number > 0
    BY Zenon DEF Carrying
<1>2. tasks[d.task].number \in 1..MaxAttempts
    BY <1>1, CountsAreNatural DEF StoreInv, StoreTypeOK
<1> QED
    BY Zenon, <1>1, <1>2 DEF InHand, Current, AttemptIds

\* What a step of the dispatch leaves.
Kept == StoreInv' /\ Honest /\ DispatchType' /\ Carrying'

LEMMA CandidatesAreBound ==
    ASSUME StoreInv, NEW t \in Tasks
    PROVE  \A c \in match_existing_agents_for_task(t) : c \in Candidate /\ Bound(c.agent)
<1> USE Zenon
<1> DEFINE pool == {x \in AllAgents : agents[x].state = "READY" /\ agents[x].type # NoType}
<1>1. match_existing_agents_for_task(t) \subseteq {CandidateOf(a, t) : a \in pool}
    BY DEF match_existing_agents_for_task, match_existing_agents
<1>2. ASSUME NEW a \in pool
      PROVE  CandidateOf(a, t) \in Candidate /\ Bound(CandidateOf(a, t).agent)
    <2>1. a \in AllAgents /\ agents[a].type \in Types /\ agents[a].home \in Home
          /\ agents[a].state # "UNBORN"
        BY DEF StoreInv, StoreTypeOK
    <2>2. (Placement[t].workstream # "" /\ agents[a].home.workstream = Placement[t].workstream)
             \in BOOLEAN
        OBVIOUS
    <2>3. CandidateOf(a, t).agent = a
        BY DEF CandidateOf
    <2>4. /\ Contract[agents[a].type] \in {Contract[ref] : ref \in Types}
          /\ agents[a].home.partition \in {home.partition : home \in Home}
          /\ agents[a].home.tags \in {home.tags : home \in Home}
        BY <2>1
    <2>5. CandidateOf(a, t) \in Candidate
        BY <2>1, <2>2, <2>4 DEF CandidateOf, Candidate
    <2> QED
        BY <2>1, <2>3, <2>5 DEF Bound
<1> QED
    BY <1>1, <1>2

LEMMA ProbingKeeps ==
    ASSUME StoreInv, DispatchType, Carrying,
           dispatch_typed_one \/ \E t \in Tasks : acquire_typed_task(t)
    PROVE  Kept /\ Quiet
<1> USE Zenon
<1>1. UNCHANGED store
    BY DEF dispatch_typed_one, acquire_typed_task
<1>2. StoreInv' /\ Honest /\ Quiet
    BY <1>1, StoreStutters DEF Quiet
<1>3. CASE dispatch_typed_one
    <2>1. \A excluded : list_typed_dispatch_candidates_excluding(excluded) \in SUBSET Tasks
        BY DEF list_typed_dispatch_candidates_excluding
    <2>2. Resting'
        BY <1>3, <2>1, DeferRests DEF dispatch_typed_one
    <2>3. DispatchType' /\ Carrying'
        BY <2>2 DEF Resting, Carrying
    <2> QED
        BY <1>2, <2>3 DEF Kept
<1>4. ASSUME NEW t \in Tasks, acquire_typed_task(t)
      PROVE  Kept /\ Quiet
    <2>1. CASE ~claim_task_ready(t)
        <3>1. d.queue \ {t} \in SUBSET Tasks
            BY DEF DispatchType
        <3>2. Resting'
            BY <1>4, <2>1, <3>1, DeferRests DEF acquire_typed_task, defer_or_fail_typed
        <3>3. DispatchType' /\ Carrying'
            BY <3>2 DEF Resting, Carrying
        <3> QED
            BY <1>2, <3>3 DEF Kept
    <2>2. CASE claim_task_ready(t)
        <3> DEFINE matched == match_existing_agents_for_task(t)
        <3>1. d' = [d EXCEPT !.pc = "select", !.task = t, !.queue = @ \ {t},
                             !.eligible = matched, !.ranked = matched]
            BY <1>4, <2>2 DEF acquire_typed_task
        <3>2. \A c \in matched : c \in Candidate /\ Bound(c.agent)'
            BY <1>1, CandidatesAreBound DEF Bound, store
        <3> HIDE DEF matched
        <3>3. /\ DispatchType' /\ d'.pc = "select" /\ d'.task = t /\ d'.ranked = matched
              /\ d'.agent = d.agent
            BY ZenonT(60), <3>1, <3>2 DEF DispatchType
        <3>4. Carrying'
            BY <1>1, <3>2, <3>3 DEF Carrying, Bound, store
        <3> QED
            BY <1>2, <3>3, <3>4 DEF Kept
    <2> QED
        BY <2>1, <2>2
<1> QED
    BY <1>3, <1>4

LEMMA PrepareSelectionKeeps ==
    ASSUME CatalogTypeOK, StoreInv, DispatchType, Carrying, prepare_selection
    PROVE  Kept /\ Quiet
<1> USE Zenon
<1>1. UNCHANGED store
    BY DEF prepare_selection
<1>2. StoreInv' /\ Honest /\ Quiet
    BY <1>1, StoreStutters DEF Quiet
<1> DEFINE frontier == active_catalog_frontier_digest
<1>3. frontier \in Digests
    BY FrontierTyped
<1>4. PICK c \in IF d.ranked = {} THEN {[agent |-> NoAgent]}
               ELSE FirstOf(d.ranked, d.eligible, d.task) :
         d' = [d EXCEPT !.pc = "list", !.agent = c.agent, !.ranked = @ \ {c},
                        !.frontier = frontier, !.seen = {}, !.found = {}]
    BY DEF prepare_selection
<1>5. c.agent = NoAgent \/ (c \in d.ranked /\ c.agent \in AllAgents /\ Bound(c.agent)')
    <2>1. CASE d.ranked = {}
        BY SMT, <2>1
    <2>2. CASE d.ranked # {}
        <3>1. c \in d.ranked
            BY <2>2 DEF FirstOf
        <3> QED
            BY <1>1, <3>1 DEF Carrying, Bound, store
    <2> QED
        BY <2>1, <2>2
<1> HIDE DEF frontier
<1>6. /\ DispatchType' /\ d'.pc = "list" /\ d'.task = d.task /\ d'.ranked = d.ranked \ {c}
      /\ d'.agent = c.agent
    BY <1>3, <1>4, <1>5 DEF DispatchType
<1>7. d.pc = "select"
    BY DEF prepare_selection
<1>8. Carrying'
    BY <1>1, <1>5, <1>6, <1>7 DEF Carrying, Bound, store
<1> QED
    BY <1>2, <1>6, <1>8 DEF Kept

LEMMA ListingKeeps ==
    ASSUME StoreInv, DispatchType, Carrying,
           list_sources \/ \E s \in Sources : attest_source(s) \/ attest_fatal(s)
    PROVE  Kept /\ Quiet
<1> USE Zenon
<1>1. UNCHANGED store
    BY DEF list_sources, attest_source, attest_fatal
<1>2. StoreInv' /\ Honest /\ Quiet
    BY <1>1, StoreStutters DEF Quiet
<1>3. d.pc \in {"list", "attest"}
    BY DEF list_sources, attest_source, attest_fatal
<1>4. CASE /\ DispatchType' /\ d'.pc = "attest" /\ d'.task = d.task /\ d'.ranked = d.ranked
           /\ d'.agent = d.agent
    <2>1. Carrying'
        BY SMT, <1>1, <1>3, <1>4 DEF Carrying, Bound, store
    <2> QED
        BY <1>2, <1>4, <2>1 DEF Kept
<1>5. CASE Resting'
    <2>1. DispatchType' /\ Carrying'
        BY <1>5 DEF Resting, Carrying
    <2> QED
        BY <1>2, <2>1 DEF Kept
<1>6. CASE list_sources
    <2>1. CASE claim_task_ready(d.task)
        <3>1. d' = [d EXCEPT !.pc = "attest", !.sources = list_active_spawn_source_refs]
            BY <1>6, <2>1 DEF list_sources
        <3>2. list_active_spawn_source_refs \in SUBSET Sources
            BY DEF list_active_spawn_source_refs
        <3> QED
            BY <1>4, <3>1, <3>2 DEF DispatchType
    <2>2. CASE ~claim_task_ready(d.task)
        <3>1. d.queue \ {d.task} \in SUBSET Tasks
            BY DEF DispatchType
        <3> QED
            BY SMT, <1>5, <1>6, <2>2, <3>1, DeferRests DEF list_sources, defer_or_fail_typed
    <2> QED
        BY SMT, <2>1, <2>2
<1>7. ASSUME NEW s \in Sources, attest_source(s)
      PROVE  Kept /\ Quiet
    <2> DEFINE eligible == enumerate_candidates(s, ContractInHand, d.task)
    <2>1. PICK made \in SUBSET {x \in Attestation : x.config \in eligible} :
             d' = [d EXCEPT !.sources = @ \ {s}, !.seen = @ \cup eligible, !.found = @ \cup made]
        BY <1>7 DEF attest_source
    <2>2. eligible \in SUBSET Configs
        BY DEF enumerate_candidates, list_active_source_config_refs
    <2>3. d.pc = "attest"
        BY <1>7 DEF attest_source
    <2> HIDE DEF eligible
    <2>4. made \in SUBSET Attestation
        OBVIOUS
    <2> QED
        BY <1>4, <2>1, <2>2, <2>3, <2>4 DEF DispatchType
<1>8. ASSUME NEW s \in Sources, attest_fatal(s)
      PROVE  Kept /\ Quiet
    BY <1>5, <1>8, AtRests DEF attest_fatal
<1> QED
    BY <1>6, <1>7, <1>8

LEMMA SelectingKeeps ==
    ASSUME StoreInv, DispatchType, Carrying, no_eligible_source \/ selection_ambiguous
    PROVE  Kept /\ Quiet
<1> USE Zenon
<1>1. UNCHANGED store /\ d.pc = "attest"
    BY DEF no_eligible_source, selection_ambiguous, Selecting
<1>2. StoreInv' /\ Honest /\ Quiet
    BY <1>1, StoreStutters DEF Quiet
<1>3. CASE no_eligible_source
    BY <1>1, <1>2, <1>3, NextAgentCarries DEF no_eligible_source, Kept
<1>4. CASE selection_ambiguous
    <2>1. d.queue \ {d.task} \in SUBSET Tasks
        BY DEF DispatchType
    <2>2. Resting'
        BY <1>4, <2>1, DeferRests DEF selection_ambiguous, defer_or_fail_typed
    <2>3. DispatchType' /\ Carrying'
        BY <2>2 DEF Resting, Carrying
    <2> QED
        BY <1>2, <2>3 DEF Kept
<1> QED
    BY <1>3, <1>4

\* Who the claim in question would be for, and under which type.
TypeInHand == IF d.agent = NoAgent THEN Requirement[d.task].type ELSE agents[d.agent].type

\* A claim is only committed for the task in hand, with a winner of the selection, against
\* the catalogue that the selection was made from and after its proofs were made again.
Committed(u) ==
    \E winner \in select_candidate(d.found) :
        /\ Selecting /\ u = d.task /\ UNCHANGED catalog
        /\ hosts'[attempts'[<<u, tasks'[u].number>>].agent].binding =
              [type |-> TypeInHand, config |-> winner.config, digest |-> winner.digest]
        /\ active_catalog_frontier_digest = d.frontier
        /\ Reproved(winner.config, Contract[TypeInHand], u)

LEMMA AcquiringKeeps ==
    ASSUME StoreInv, DispatchType, Carrying,
           acquire_typed_task_existing \/ acquire_typed_task_new_agent
    PROVE  /\ Kept
           /\ \A u \in Tasks : tasks'[u].number > tasks[u].number => Committed(u)
<1> USE Zenon
<1>1. d.pc = "attest" /\ Selecting /\ UNCHANGED catalog /\ d.task \in Tasks
    BY DEF acquire_typed_task_existing, acquire_typed_task_new_agent, Selecting, Carrying
<1>2. ASSUME NEW winner \in select_candidate(d.found), NEW a \in AllAgents,
             TypeInHand \in Types, agents[a].state # "UNBORN" => agents[a].type = TypeInHand,
             acquire_with(a, TypeInHand, winner)
      PROVE  /\ Kept
             /\ \A u \in Tasks : tasks'[u].number > tasks[u].number => Committed(u)
    <2>1. winner \in Attestation
        BY DEF select_candidate, DispatchType
    <2>2. /\ DispatchType' /\ Carrying' /\ StoreInv' /\ Honest
          /\ \A u \in Tasks : tasks'[u].number > tasks[u].number =>
                /\ u = d.task
                /\ hosts'[attempts'[<<u, tasks'[u].number>>].agent].binding =
                      [type |-> TypeInHand, config |-> winner.config, digest |-> winner.digest]
                /\ active_catalog_frontier_digest = d.frontier
                /\ Reproved(winner.config, Contract[TypeInHand], d.task)
        BY <1>1, <1>2, <2>1, AcquireKeeps
    <2>3. Kept
        BY <2>2 DEF Kept
    <2>4. ASSUME NEW u \in Tasks, tasks'[u].number > tasks[u].number
          PROVE  Committed(u)
        <3>1. /\ u = d.task
              /\ hosts'[attempts'[<<u, tasks'[u].number>>].agent].binding =
                    [type |-> TypeInHand, config |-> winner.config, digest |-> winner.digest]
              /\ active_catalog_frontier_digest = d.frontier
              /\ Reproved(winner.config, Contract[TypeInHand], u)
            BY <2>2, <2>4
        <3> QED
            BY <1>1, <3>1 DEF Committed
    <2> QED
        BY <2>3, <2>4
<1>3. CASE acquire_typed_task_existing
    <2>1. d.agent # NoAgent /\ Bound(d.agent)
        BY <1>3 DEF acquire_typed_task_existing, Carrying
    <2>2. TypeInHand = agents[d.agent].type /\ TypeInHand \in Types /\ d.agent \in AllAgents
        BY <2>1 DEF TypeInHand, Bound
    <2>3. \E winner \in select_candidate(d.found) : acquire_with(d.agent, TypeInHand, winner)
        BY <1>3, <2>2 DEF acquire_typed_task_existing
    <2> QED
        BY <1>2, <2>2, <2>3
<1>4. CASE acquire_typed_task_new_agent
    <2> DEFINE a == CHOOSE x \in Unborn : TRUE
    <2>0. CASE Unborn = {}
        <3>1. defer_or_fail_typed(d.task) /\ UNCHANGED store
            BY <1>4, <2>0 DEF acquire_typed_task_new_agent
        <3>2. StoreInv' /\ Quiet
            BY <3>1, StoreStutters
        <3>3. \A u \in Tasks : ~(tasks'[u].number > tasks[u].number)
            BY SMT, <3>1, CountsAreNatural DEF store, StoreInv, StoreTypeOK
        <3>4. d.queue \ {d.task} \in SUBSET Tasks
            BY DEF DispatchType
        <3>5. Resting'
            BY <3>1, <3>4, DeferRests DEF defer_or_fail_typed
        <3>6. DispatchType' /\ Carrying'
            BY <3>5 DEF Resting, Carrying
        <3> QED
            BY <3>2, <3>3, <3>6 DEF Kept, Quiet
    <2> SUFFICES ASSUME Unborn # {}
                 PROVE  /\ Kept
                        /\ \A u \in Tasks : tasks'[u].number > tasks[u].number => Committed(u)
        BY <2>0
    <2>1. a \in AllAgents /\ agents[a].state = "UNBORN"
        BY DEF Unborn, AllAgents
    <2>2. TypeInHand = Requirement[d.task].type /\ TypeInHand \in Types
        BY <1>1, <1>4, InstanceAssumption DEF TypeInHand, acquire_typed_task_new_agent
    <2>3. \E winner \in select_candidate(d.found) : acquire_with(a, TypeInHand, winner)
        BY <1>4, <2>2 DEF acquire_typed_task_new_agent
    <2> HIDE DEF a
    <2> QED
        BY <1>2, <2>1, <2>2, <2>3
<1> QED
    BY <1>3, <1>4

\* The steps after a claim: they touch no number of a task.
LEMMA PreparingKeeps ==
    ASSUME StoreInv, DispatchType, Carrying,
           \/ prepare_winner \/ preparation_unavailable \/ finalize_preparation
           \/ preparation_fault \/ launch_unavailable
           \/ prepare_typed_execution_launch \/ commit_outcome_unknown
    PROVE  Kept /\ Quiet
<1> USE Zenon
<1>1. d.pc \in {"prepare", "preparing", "launch"}
    BY DEF prepare_winner, preparation_unavailable, finalize_preparation, preparation_fault,
        launch_unavailable, prepare_typed_execution_launch, commit_outcome_unknown
<1>2. InHand \in AttemptIds /\ d.task \in Tasks /\ tasks[d.task].number > 0
    BY <1>1, InHandIsARow DEF Carrying
<1>3. \/ UNCHANGED store
      \/ report_configuration_unavailable(InHand)
      \/ record_fault(InHand)
      \/ create_execution_with_snapshot(InHand)
    BY DEF prepare_winner, preparation_unavailable, finalize_preparation, preparation_fault,
        launch_unavailable, prepare_typed_execution_launch, commit_outcome_unknown
<1>4. StoreInv' /\ Honest /\ Quiet
    BY SMT, <1>2, <1>3, StoreStutters, UnavailableKeeps, FaultKeeps, ExecutionKeeps DEF Quiet
<1>5. \/ defer_or_fail_typed(d.task)
      \/ d' = At("idle") \/ d' = At("failed")
      \/ d' = [d EXCEPT !.pc = "preparing"] \/ d' = [d EXCEPT !.pc = "launch"]
    BY DEF prepare_winner, preparation_unavailable, finalize_preparation, preparation_fault,
        launch_unavailable, prepare_typed_execution_launch, commit_outcome_unknown
<1>6. CASE Resting'
    <2>1. DispatchType' /\ Carrying'
        BY <1>6 DEF Resting, Carrying
    <2> QED
        BY <1>4, <2>1 DEF Kept
<1>7. CASE defer_or_fail_typed(d.task)
    <2>1. d.queue \ {d.task} \in SUBSET Tasks
        BY DEF DispatchType
    <2> QED
        BY <1>6, <1>7, <2>1, DeferRests DEF defer_or_fail_typed
<1>8. CASE d' = At("idle") \/ d' = At("failed")
    BY <1>6, <1>8, AtRests
<1>9. CASE d' = [d EXCEPT !.pc = "preparing"] \/ d' = [d EXCEPT !.pc = "launch"]
    <2>1. /\ DispatchType' /\ d'.pc \in {"preparing", "launch"} /\ d'.task = d.task
          /\ d'.ranked = d.ranked /\ d'.agent = d.agent
        BY <1>9 DEF DispatchType
    <2>2. tasks'[d.task].number > 0
        BY <1>2, <1>4, NumberStays
    <2>3. \A a : Bound(a) => Bound(a)'
        BY <1>4, BoundStays
    <2>4. /\ \A c \in d'.ranked : Bound(c.agent)
          /\ d'.agent # NoAgent => Bound(d.agent)
        BY <2>1 DEF Carrying
    <2>5. /\ \A c \in d'.ranked : Bound(c.agent)'
          /\ d'.agent # NoAgent => Bound(d.agent)'
        BY <2>1, <2>3, <2>4
    <2>6. Carrying'
        BY <1>2, <2>1, <2>2, <2>5 DEF Carrying
    <2> QED
        BY <1>4, <2>1, <2>6 DEF Kept
<1> QED
    BY <1>5, <1>7, <1>8, <1>9

----------------------------------------------------------------------------
(* The inductive invariant, and what follows from it *)

TypedInv ==
    /\ CatalogTypeOK /\ changes \in 0..MaxChanges
    /\ StoreInv /\ DispatchType /\ Carrying /\ Asked

LEMMA TypedInit ==
    ASSUME Init
    PROVE  TypedInv
<1> USE Zenon
<1>1. CatalogTypeOK /\ changes \in 0..MaxChanges
    BY SMTT(30), CountsAreNatural DEF Init, CatalogTypeOK, Disposition
<1>2. PICK old \in SUBSET Tasks :
         /\ tasks = [t \in Tasks |-> IF t \in old THEN [state |-> "SUSPENDED", number |-> 1]
                                     ELSE [state |-> "QUEUED", number |-> 0]]
         /\ attempts = [id \in AttemptIds |->
                           IF id[1] \in old /\ id[2] = 1 THEN Closed(TRUE, FALSE, NoAgent) ELSE NoAttempt]
    BY DEF Init
<1>3. /\ NoAttempt \in AttemptRow /\ NoAttempt.state = "NONE" /\ NoAttempt.execution = "NONE"
      /\ ~NoAttempt.fault
    BY DEF NoAttempt, AttemptRow
<1>4. /\ Closed(TRUE, FALSE, NoAgent) \in AttemptRow /\ Closed(TRUE, FALSE, NoAgent).state = "CLOSED"
      /\ Closed(TRUE, FALSE, NoAgent).execution = "NONE"
    BY DEF Closed, AttemptRow
<1>5. \A id \in AttemptIds : id[1] \in Tasks /\ id[2] \in 1..MaxAttempts
    BY DEF AttemptIds
<1>6. \A id \in AttemptIds :
         \/ /\ id[1] \in old /\ id[2] = 1 /\ attempts[id] = Closed(TRUE, FALSE, NoAgent)
            /\ tasks[id[1]].state = "SUSPENDED" /\ tasks[id[1]].number = 1
         \/ attempts[id] = NoAttempt
    BY <1>2, <1>5
<1>7. StoreTypeOK
    <2>1. tasks \in [Tasks -> [state : {"QUEUED", "RETRY_WAIT", "LEASED", "RUNNING", "SUSPENDED",
                                        "COMPLETED", "CANCELLED"},
                               number : 0..MaxAttempts]]
        BY SMT, <1>2, CountsAreNatural
    <2>2. attempts \in [AttemptIds -> AttemptRow]
        BY <1>2, <1>3, <1>4
    <2>3. agents \in [AllAgents -> [state : {"UNBORN", "READY", "ASSIGNED", "SUSPENDED", "REVIVING",
                                             "RETIRED"},
                                    type : Types \cup {NoType}, home : Home]]
        BY DEF Init, Home
    <2>4. hosts \in [AllAgents -> Host]
        <3>1. NoHost \in Host
            BY DEF NoHost, Host
        <3> QED
            BY ZenonT(60), <3>1, InstanceAssumption DEF Init
    <2> QED
        BY SMT, <2>1, <2>2, <2>3, <2>4 DEF StoreTypeOK
<1>8. Ledger
    <2>1. ASSUME NEW id \in AttemptIds
          PROVE  /\ attempts[id].state # "ACTIVE" /\ attempts[id].execution = "NONE"
                 /\ attempts[id].state = "NONE" => ~attempts[id].fault
                 /\ id[2] > tasks[id[1]].number => attempts[id].state = "NONE"
        <3>1. CASE attempts[id] = NoAttempt
            BY <1>3, <3>1
        <3>2. CASE attempts[id] = Closed(TRUE, FALSE, NoAgent) /\ id[2] = 1 /\ tasks[id[1]].number = 1
            <4>1. ~(id[2] > tasks[id[1]].number)
                BY SMT, <3>2
            <4>2. attempts[id].state = "CLOSED" /\ attempts[id].execution = "NONE"
                BY <1>4, <3>2
            <4> QED
                BY <4>1, <4>2
        <3> QED
            BY <1>6, <3>1, <3>2
    <2>2. ASSUME NEW t \in Tasks
          PROVE  /\ tasks[t].state \in {"QUEUED", "RETRY_WAIT"} => tasks[t].number < MaxAttempts
                 /\ tasks[t].state \notin {"LEASED", "RUNNING"}
        BY SMTT(30), <1>2, CountsAreNatural
    <2> QED
        BY <2>1, <2>2 DEF Ledger
<1>9. Settled
    BY <1>3, <1>6 DEF Settled
<1>10. d = At("idle")
    BY DEF Init
<1>11. DispatchType /\ Carrying /\ d.pc = "idle"
    <2>1. NoFrontier \in Digests
        BY DEF NoFrontier, Digests
    <2> QED
        BY <1>10, <2>1 DEF At, DispatchType, Carrying
<1> QED
    BY ZenonT(60), <1>1, <1>7, <1>8, <1>9, <1>11 DEF TypedInv, StoreInv, Asked

\* Every step of Dispatch begins after an expiry of the same process.
LEMMA DispatchIsUnderWay ==
    ASSUME Dispatch
    PROVE  d.pc \notin {"idle", "down", "failed"}
BY Zenon DEF Dispatch, dispatch_typed_one, acquire_typed_task, prepare_selection,
    list_sources, attest_source, attest_fatal, no_eligible_source, selection_ambiguous,
    acquire_typed_task_existing, acquire_typed_task_new_agent, prepare_winner, Selecting,
    preparation_unavailable, finalize_preparation, preparation_fault, launch_unavailable,
    prepare_typed_execution_launch, commit_outcome_unknown

LEMMA TypedStep ==
    ASSUME TypedInv, [Next]_vars
    PROVE  /\ TypedInv' /\ Honest
           /\ \A u \in Tasks : tasks'[u].number > tasks[u].number => Committed(u)
<1> USE Zenon
<1> USE DEF TypedInv
<1>1. CatalogTypeOK'
    BY CatalogTyped
<1>2. changes' \in 0..MaxChanges
    <2>1. CASE Operate
        BY SMT, <2>1, CountsAreNatural DEF Operate
    <2>2. CASE Dispatch
        BY <2>2 DEF Dispatch, dispatch_typed_one, acquire_typed_task, prepare_selection,
            list_sources, attest_source, attest_fatal, no_eligible_source, selection_ambiguous,
            acquire_typed_task_existing, acquire_typed_task_new_agent, prepare_winner,
            preparation_unavailable, finalize_preparation, preparation_fault, launch_unavailable,
            prepare_typed_execution_launch, commit_outcome_unknown
    <2>3. CASE Expire \/ Crash \/ Restart \/ UNCHANGED vars
        BY <2>3 DEF Expire, Crash, Restart, vars
    <2>4. CASE \E t \in Tasks : promote_retry_wait(t) \/ ExecutionEnds(t)
                                 \/ cancel_task(t) \/ resolve_retry(t)
                                 \/ release_cancelled_writer(t)
        BY <2>4 DEF promote_retry_wait, ExecutionEnds, cancel_task, resolve_retry,
            release_cancelled_writer
    <2>5. CASE \E id \in AttemptIds : Elapse(id)
        BY <2>5 DEF Elapse
    <2>6. CASE \E a \in AllAgents : retire_logical_agent(a) \/ revive_agent(a)
                                    \/ \E ref \in Types : bind_logical_agent_type(a, ref)
        BY <2>6 DEF retire_logical_agent, revive_agent, bind_logical_agent_type
    <2> QED
        BY <2>1, <2>2, <2>3, <2>4, <2>5, <2>6 DEF Next
<1>3. \A u \in Tasks : Quiet => ~(tasks'[u].number > tasks[u].number)
    BY SMTT(30), CountsAreNatural DEF Quiet, StoreInv, StoreTypeOK
<1>4. CASE Dispatch
    <2>1. ASSUME acquire_typed_task_existing \/ acquire_typed_task_new_agent
          PROVE  /\ Kept
                 /\ \A u \in Tasks : tasks'[u].number > tasks[u].number => Committed(u)
        BY <2>1, AcquiringKeeps
    <2>2. ASSUME ~(acquire_typed_task_existing \/ acquire_typed_task_new_agent)
          PROVE  Kept /\ Quiet
        <3>1. \/ dispatch_typed_one \/ \E t \in Tasks : acquire_typed_task(t)
              \/ prepare_selection
              \/ list_sources \/ \E s \in Sources : attest_source(s) \/ attest_fatal(s)
              \/ no_eligible_source \/ selection_ambiguous
              \/ prepare_winner \/ preparation_unavailable \/ finalize_preparation
              \/ preparation_fault \/ launch_unavailable
              \/ prepare_typed_execution_launch \/ commit_outcome_unknown
            BY <1>4, <2>2 DEF Dispatch
        <3>2. CASE dispatch_typed_one \/ \E t \in Tasks : acquire_typed_task(t)
            BY <3>2, ProbingKeeps
        <3>3. CASE prepare_selection
            BY <3>3, PrepareSelectionKeeps
        <3>4. CASE list_sources \/ \E s \in Sources : attest_source(s) \/ attest_fatal(s)
            BY <3>4, ListingKeeps
        <3>5. CASE no_eligible_source \/ selection_ambiguous
            BY <3>5, SelectingKeeps
        <3>6. CASE \/ prepare_winner \/ preparation_unavailable \/ finalize_preparation
                   \/ preparation_fault \/ launch_unavailable
                   \/ prepare_typed_execution_launch \/ commit_outcome_unknown
            BY <3>6, PreparingKeeps
        <3> QED
            BY <3>1, <3>2, <3>3, <3>4, <3>5, <3>6
    <2>3. /\ Kept
          /\ \A u \in Tasks : tasks'[u].number > tasks[u].number => Committed(u)
        BY <1>3, <2>1, <2>2
    <2>4. Asked'
        BY <1>4, <2>3, DispatchIsUnderWay DEF Asked, Kept, Honest
    <2> QED
        BY <1>1, <1>2, <2>3, <2>4 DEF Kept
<1>5. CASE (\E b \in BOOLEAN : expire_leases(b)) /\ \E pc \in {"cycle", "idle"} : d' = At(pc)
    <2>1. StoreInv' /\ Quiet /\ ~Unasked'
        BY <1>5, ExpireKeeps
    <2>2. DispatchType' /\ Carrying'
        <3>1. Resting'
            BY <1>5, AtRests
        <3> QED
            BY <3>1 DEF Resting, Carrying
    <2>3. Asked'
        BY <2>1 DEF Asked
    <2> QED
        BY <1>1, <1>2, <1>3, <2>1, <2>2, <2>3 DEF Quiet
<1>6. CASE Crash
    <2>1. StoreInv' /\ Quiet
        BY <1>6, StoreStutters DEF Crash
    <2>2. Resting' /\ d'.pc = "down"
        BY <1>6, AtRests DEF Crash
    <2>3. DispatchType' /\ Carrying' /\ Asked'
        BY <2>2 DEF Resting, Carrying, Asked
    <2> QED
        BY <1>1, <1>2, <1>3, <2>1, <2>3 DEF Quiet
<1>7. CASE UNCHANGED d /\ StoreInv' /\ Quiet
    <2>1. DispatchType' /\ Carrying'
        BY <1>7, CarryingStays DEF Quiet
    <2>2. Asked'
        BY <1>7 DEF Asked, Quiet, Honest
    <2> QED
        BY <1>1, <1>2, <1>3, <1>7, <2>1, <2>2 DEF Quiet
<1>8. CASE Operate \/ UNCHANGED vars
    BY <1>7, <1>8, StoreStutters DEF Operate, vars
<1>9. ASSUME NEW t \in Tasks,
             \/ promote_retry_wait(t) \/ ExecutionEnds(t) \/ cancel_task(t) \/ resolve_retry(t)
             \/ release_cancelled_writer(t)
      PROVE  UNCHANGED d /\ StoreInv' /\ Quiet
    <2>1. UNCHANGED d
        BY <1>9 DEF promote_retry_wait, ExecutionEnds, cancel_task, resolve_retry,
            release_cancelled_writer
    <2>2. StoreInv
        OBVIOUS
    <2> HIDE DEF TypedInv
    <2> QED
        BY <1>9, <2>1, <2>2, PromoteKeeps, EndKeeps, CancelKeeps, ResolveKeeps, ReleaseKeeps
<1>10. ASSUME NEW id \in AttemptIds, Elapse(id)
       PROVE  UNCHANGED d /\ StoreInv' /\ Quiet
    BY <1>10, ElapseKeeps DEF Elapse
<1>11. ASSUME NEW a \in AllAgents,
              \/ retire_logical_agent(a) \/ revive_agent(a)
              \/ \E ref \in Types : bind_logical_agent_type(a, ref)
       PROVE  UNCHANGED d /\ StoreInv' /\ Quiet
    <2>1. UNCHANGED d
        BY <1>11 DEF retire_logical_agent, revive_agent, bind_logical_agent_type
    <2> QED
        BY <1>11, <2>1, PoolKeeps
<1>12. Expire \/ Restart =>
         (\E b \in BOOLEAN : expire_leases(b)) /\ \E pc \in {"cycle", "idle"} : d' = At(pc)
    BY DEF Expire, Restart
<1> HIDE DEF TypedInv
<1> QED
    BY ZenonT(60), <1>4, <1>5, <1>6, <1>7, <1>8, <1>9, <1>10, <1>11, <1>12 DEF Next

LEMMA TypedInvariant == Spec => []TypedInv
<1>1. Init => TypedInv
    BY Zenon, TypedInit
<1>2. TypedInv /\ [Next]_vars => TypedInv'
    BY Zenon, TypedStep
<1> QED
    BY <1>1, <1>2, PTL DEF Spec

\* The store, the catalogue and the dispatch stay in their types, whatever the catalogue,
\* the pool, the tasks and the bounds.
THEOREM TypeCorrect == Spec => []TypeOK
<1>1. TypedInv => TypeOK
    BY Zenon DEF TypedInv, TypeOK, StoreInv, StoreTypeOK, DispatchType
<1> QED
    BY <1>1, TypedInvariant, PTL

\* No claim follows one with a recorded fault unless Root was asked (record_fault,
\* expire_leases), and once a cycle has begun no suspension over a fault is unasked,
\* those of an older version included (restore_missing_escalations).
THEOREM FaultsReachRoot == Spec => []FaultReachesRoot
<1>1. ASSUME TypedInv, NEW id \in AttemptIds, attempts[id].fault, ~attempts[id].asked
      PROVE  /\ tasks[id[1]].number = id[2]
             /\ tasks[id[1]].state = "SUSPENDED" => d.pc \in {"idle", "down", "failed"}
    <2> USE <1>1 DEF TypedInv, StoreInv
    <2>1. attempts[id].state \in {"ACTIVE", "CLOSED"}
        <3>1. attempts[id] \in AttemptRow
            BY Zenon DEF StoreTypeOK
        <3> QED
            BY Zenon, <3>1 DEF AttemptRow, Ledger
    <2>2. CASE attempts[id].state = "ACTIVE"
        BY Zenon, <2>2 DEF Ledger
    <2>3. CASE attempts[id].state = "CLOSED"
        <3>1. tasks[id[1]].number = id[2]
            BY Zenon, <2>3 DEF Settled
        <3>2. tasks[id[1]].state = "SUSPENDED" => Unasked
            BY Zenon, <2>3 DEF Unasked
        <3> QED
            BY Zenon, <3>1, <3>2 DEF Asked
    <2> QED
        BY Zenon, <2>1, <2>2, <2>3
<1>2. TypedInv => FaultReachesRoot
    BY Zenon, <1>1 DEF FaultReachesRoot
<1> QED
    BY <1>2, TypedInvariant, PTL

\* A retired agent never gets work again, and a claim keeps its agent for as long as it is
\* active, in every order of matching, attesting, committing (finish_acquisition),
\* expiring, cancelling and retiring.
THEOREM RetirementIsFinal == Spec => RetiredForGood
<1>1. ASSUME TypedInv, [Next]_vars, NEW t \in Tasks, Active(t), Active(t)'
      PROVE  agents'[attempts'[Current(t)].agent].state = "ASSIGNED"
    <2>1. StoreInv /\ StoreInv' /\ Honest
        BY ZenonT(60), <1>1, TypedStep DEF TypedInv
    <2>2. tasks[t].number \in 1..MaxAttempts
        BY SMTT(30), <1>1, <2>1, CountsAreNatural DEF Active, StoreInv, StoreTypeOK
    <2>3. Current(t) \in AttemptIds
        BY ZenonT(60), <2>2 DEF AttemptIds, Current
    <2>4. tasks[t].state \in {"LEASED", "RUNNING"}
        BY SMTT(30), <1>1, <2>1, <2>3 DEF Active, Current, StoreInv, Ledger
    <2>5. tasks'[t].number = tasks[t].number
        BY Zenon, <2>1, <2>4 DEF Honest
    <2>6. attempts'[Current(t)].state = "ACTIVE"
        BY Zenon, <1>1, <2>5 DEF Active, Current
    <2> QED
        BY Zenon, <2>1, <2>3, <2>6 DEF StoreInv, Ledger
<1>2. ASSUME TypedInv, [Next]_vars, NEW a \in AllAgents, agents[a].state = "RETIRED"
      PROVE  agents'[a].state = "RETIRED"
    BY Zenon, <1>2, TypedStep DEF Honest
<1>3. TypedInv /\ [Next]_vars =>
        [/\ \A a \in AllAgents : agents[a].state = "RETIRED" => agents'[a].state = "RETIRED"
         /\ \A t \in Tasks : (Active(t) /\ Active(t)') =>
               agents'[attempts'[Current(t)].agent].state = "ASSIGNED"]_vars
    BY Zenon, <1>1, <1>2
<1> QED
    BY <1>3, TypedInvariant, PTL DEF Spec, RetiredForGood

\* A host that may still run what it started is never reprovisioned: acquisition keeps its
\* binding or refuses (fence_idle_incarnation), and only a closure removes it.
THEOREM ProvenanceIsKept == Spec => HostKeepsItsProvenance
<1>1. TypedInv /\ [Next]_vars =>
        [\A a \in AllAgents : incarnation_requires_physical_closure(hosts[a]) =>
            \/ hosts'[a] = NoHost
            \/ hosts'[a].binding = hosts[a].binding /\ hosts'[a].used]_vars
    BY Zenon, TypedStep DEF Honest
<1> QED
    BY <1>1, TypedInvariant, PTL DEF Spec, HostKeepsItsProvenance

----------------------------------------------------------------------------
(* What a committed claim is worth *)

\* The stronger of two requirements is at least as strong as the second.
LEMMA JoinIsStronger ==
    ASSUME NEW m, NEW x, NEW y, NEW z, Graded(x), Graded(y), x.kind = m, y.kind = m,
           z \in join_requirement_values(m, x, y)
    PROVE  AtLeast(m, y, z) /\ Graded(z)
<1> USE Zenon
<1>1. CASE m = "Bool"
    <2>1. z = [kind |-> m, v |-> x.v \/ y.v]
        BY <1>1 DEF join_requirement_values
    <2>2. z.kind = m /\ (y.v => z.v)
        BY <2>1
    <2> QED
        BY <1>1, <2>2 DEF AtLeast, Graded
<1>2. CASE m = "Set"
    <2>1. z = [kind |-> m, v |-> x.v \cup y.v]
        BY <1>2 DEF join_requirement_values
    <2> QED
        BY <1>2, <2>1 DEF AtLeast, Graded
<1>3. CASE m = "Ordered"
    <2>1. z = (IF x.v.rank >= y.v.rank THEN x ELSE y) /\ x.v.class = y.v.class
        BY <1>3 DEF join_requirement_values
    <2>2. x.v.rank \in Nat /\ y.v.rank \in Nat
        BY <1>3 DEF Graded
    <2> QED
        BY SMT, <1>3, <2>1, <2>2 DEF AtLeast
<1>4. CASE m = "Quantity"
    <2>1. z = (IF x.v >= y.v THEN x ELSE y)
        BY <1>4 DEF join_requirement_values
    <2>2. x.v \in Nat /\ y.v \in Nat
        BY <1>4 DEF Graded
    <2> QED
        BY SMT, <1>4, <2>1, <2>2 DEF AtLeast
<1>5. CASE m \notin {"Bool", "Set", "Ordered", "Quantity"}
    <2>1. z = x /\ x.v = y.v
        BY <1>5 DEF join_requirement_values
    <2> QED
        BY <1>5, <2>1 DEF AtLeast
<1> QED
    BY <1>1, <1>2, <1>3, <1>4, <1>5

\* Whatever a source and its configuration provide is graded.
LEMMA ProvidedIsGraded ==
    ASSUME NEW source, NEW config, NEW cap, GradedSource(source), GradedClaims(config.claims),
           NEW v \in effective_functional_value(source, config, cap)
    PROVE  Graded(v)
<1> USE Zenon
<1>1. CASE v \in resolve_claim(config.claims, cap)
    BY <1>1 DEF resolve_claim, GradedClaims
<1>2. CASE v \in resolve_claim(source.claims, cap)
    BY <1>2 DEF resolve_claim, GradedClaims, GradedSource
<1>3. CASE cap \in Present(source.envelope) /\ v = source.envelope[cap]
    BY <1>3 DEF Present, GradedSource
<1> QED
    BY <1>1, <1>2, <1>3 DEF effective_functional_value

\* Nothing is proved by evidence here: what is proved, the source provides.
LEMMA ProvedIsProvided ==
    ASSUME NEW c \in Configs, NEW evidence \in produce_evidence(c), NEW cap, NEW value,
           NEW source, NEW config, Proved(cap, value, source, config, evidence)
    PROVE  \E v \in effective_functional_value(source, config, cap) :
               AtLeast(CapabilityCatalog[cap].matcher, value, v)
<1>1. evidence.enforced = <<>>
    BY SMTT(30) DEF produce_evidence
<1>2. {evidence.enforced[x] : x \in {cap} \cap DOMAIN evidence.enforced} = {}
    BY <1>1
<1> QED
    BY ZenonT(60), <1>2 DEF Proved, value_satisfies

\* What can_provision_task accepts proves each capability that the task requires.
LEMMA ProvisionProves ==
    ASSUME NEW c \in Configs, NEW type \in Types, NEW t \in Tasks,
           ConfigEligible(c, Contract[type], t)
    PROVE  ProvesTheTask(c, Requirement[t].hard)
<1> USE Zenon
<1> DEFINE contract == Contract[type]
           hard == Requirement[t].hard
           config == ConfigContent[c]
           source == SourceContent[config.source]
<1>1. PICK evidence \in produce_evidence(c) :
         can_provision_task(contract, source, config, evidence, hard)
    BY DEF ConfigEligible
<1>2. Sized(contract) /\ Sized(hard) /\ GradedSource(source) /\ GradedClaims(config.claims)
    BY CatalogAssumption, InstanceAssumption
<1> HIDE DEF contract, hard, config, source
<1>3. /\ can_execute(contract, hard) /\ can_provision(contract, source, config, evidence)
      /\ WellShaped(contract.capabilities) /\ WellShaped(hard.capabilities)
    BY <1>1 DEF can_provision_task, can_execute, validate
<1>4. ASSUME NEW cap \in Present(hard.capabilities)
      PROVE  \E v \in effective_functional_value(source, config, cap) :
                 value_satisfies(CapabilityCatalog[cap].matcher, hard.capabilities[cap], v)
    <2> DEFINE m == CapabilityCatalog[cap].matcher
               asked == hard.capabilities[cap]
    <2>1. /\ cap \in DOMAIN hard.capabilities /\ cap \in DOMAIN CapabilityCatalog
          /\ asked.kind = m /\ Graded(asked)
        BY <1>2, <1>3, PresentIsGraded DEF Present, WellShaped
    <2>2. ASSUME NEW value, Graded(value), AtLeast(m, asked, value),
                 Proved(cap, value, source, config, evidence)
          PROVE  \E v \in effective_functional_value(source, config, cap) : AtLeast(m, asked, v)
        <3>1. PICK v \in effective_functional_value(source, config, cap) : AtLeast(m, value, v)
            BY <2>2, ProvedIsProvided
        <3>2. Graded(v)
            BY <1>2, ProvidedIsGraded
        <3>3. AtLeast(m, asked, v)
            BY <2>1, <2>2, <3>1, <3>2, AtLeastTransitive
        <3> QED
            BY <3>3
    <2>3. CASE CapabilityCatalog[cap].polarity = "Ability"
        <3>1. /\ cap \in Present(contract.capabilities)
              /\ AtLeast(m, asked, contract.capabilities[cap])
            BY <1>3, <2>3 DEF can_execute, CapabilityExecutable, value_satisfies
        <3>2. Graded(contract.capabilities[cap])
            BY <1>2, <3>1, PresentIsGraded
        <3>3. Proved(cap, contract.capabilities[cap], source, config, evidence)
            BY <1>3, <3>1 DEF can_provision
        <3> QED
            BY <2>2, <3>1, <3>2, <3>3 DEF value_satisfies
    <2>4. CASE CapabilityCatalog[cap].polarity = "Restriction"
        <3>1. PICK value \in EffectiveRestriction(cap, contract, hard) :
                 Proved(cap, value, source, config, evidence)
            BY <1>1, <2>4 DEF can_provision_task
        <3>2. CASE cap \in Present(contract.capabilities)
            <4>1. value \in join_requirement_values(m, contract.capabilities[cap], asked)
                BY <3>2 DEF EffectiveRestriction
            <4>2. Graded(contract.capabilities[cap]) /\ contract.capabilities[cap].kind = m
                BY <1>2, <1>3, <3>2, PresentIsGraded DEF Present, WellShaped
            <4> HIDE DEF m, asked
            <4>3. AtLeast(m, asked, value) /\ Graded(value)
                BY <2>1, <4>1, <4>2, JoinIsStronger
            <4> QED
                BY <2>2, <3>1, <4>3 DEF value_satisfies, m, asked
        <3>3. CASE cap \notin Present(contract.capabilities)
            <4>1. value = asked
                BY <3>3 DEF EffectiveRestriction
            <4> HIDE DEF m, asked
            <4>2. \E v \in effective_functional_value(source, config, cap) : AtLeast(m, asked, v)
                BY <3>1, <4>1, ProvedIsProvided DEF m
            <4> QED
                BY <4>2 DEF value_satisfies, m, asked
        <3> QED
            BY <3>2, <3>3
    <2> QED
        BY <2>1, <2>3, <2>4, PolarityIsOneOfTwo
<1> QED
    BY <1>4 DEF ProvesTheTask, hard, config, source

\* What a committed claim is provisioned from proves every capability that the task itself
\* requires (can_provision_task under the lock of finish_acquisition), for every type its
\* agent may be bound to and every catalogue.
THEOREM RestrictionsAreHeld == Spec => RestrictionsHold
<1>1. ASSUME TypedInv, [Next]_vars, NEW t \in Tasks, tasks'[t].number > tasks[t].number
      PROVE  ProvesTheTask(hosts'[attempts'[<<t, tasks'[t].number>>].agent].binding.config,
                           Requirement[t].hard)
    <2>1. Committed(t) /\ DispatchType /\ Carrying
        BY Zenon, <1>1, TypedStep DEF TypedInv
    <2>2. PICK winner \in select_candidate(d.found) :
             /\ Selecting /\ t = d.task /\ UNCHANGED catalog
             /\ hosts'[attempts'[<<t, tasks'[t].number>>].agent].binding =
                   [type |-> TypeInHand, config |-> winner.config, digest |-> winner.digest]
             /\ active_catalog_frontier_digest = d.frontier
             /\ Reproved(winner.config, Contract[TypeInHand], t)
        BY <2>1, Zenon DEF Committed
    <2>3. winner.config \in Configs
        BY Zenon, <2>1 DEF select_candidate, DispatchType, Attestation
    <2>4. TypeInHand \in Types
        BY Zenon, <2>1, <2>2, InstanceAssumption DEF TypeInHand, Carrying, Bound
    <2>5. ConfigEligible(winner.config, Contract[TypeInHand], t)
        BY Zenon, <2>2 DEF Reproved
    <2>6. ProvesTheTask(winner.config, Requirement[t].hard)
        BY ZenonT(60), <2>3, <2>4, <2>5, ProvisionProves
    <2>7. hosts'[attempts'[<<t, tasks'[t].number>>].agent].binding.config = winner.config
        BY SMTT(30), <2>2
    <2> QED
        BY Zenon, <2>6, <2>7
<1>2. TypedInv /\ [Next]_vars =>
        [\A t \in Tasks : tasks'[t].number > tasks[t].number =>
            ProvesTheTask(hosts'[attempts'[<<t, tasks'[t].number>>].agent].binding.config,
                          Requirement[t].hard)]_vars
    BY Zenon, <1>1
<1> QED
    BY <1>2, TypedInvariant, PTL DEF Spec, RestrictionsHold

----------------------------------------------------------------------------
(* The selection against a catalogue that changes *)

\* The fingerprint in hand was taken when the source, its policy and this configuration of
\* it were active.
Captured(s, c) ==
    /\ <<s, SourceContent[s].policy, "ACTIVE">> \in d.frontier.sources
    /\ c \in d.frontier.configs

\* What was active then is published now, and so, if it is active now, was so all along.
FrontierIsPast ==
    d.pc \in {"list", "attest"} =>
        \A s \in Sources, c \in Configs :
            Captured(s, c) => Published(s) /\ Published(SourceContent[s].policy) /\ Published(c)

\* Of what has been active since, nothing eligible was passed over.
Covered ==
    d.pc = "attest" =>
        \A s \in Sources, c \in Configs :
            c \in enumerate_candidates(s, ContractInHand, d.task) /\ Captured(s, c) =>
                s \in d.sources \/ c \in d.seen

LEMMA EligibleIsActive ==
    ASSUME NEW s, NEW contract, NEW t, NEW c \in enumerate_candidates(s, contract, t)
    PROVE  /\ c \in Configs /\ ConfigContent[c].source = s
           /\ catalog[s] = "ACTIVE" /\ catalog[SourceContent[s].policy] = "ACTIVE"
           /\ catalog[c] = "ACTIVE"
<1> USE Zenon
<1>1. /\ c \in Configs /\ ConfigContent[c].source = s /\ catalog[c] = "ACTIVE"
      /\ ConfigEligible(c, contract, t)
    BY DEF enumerate_candidates, list_active_source_config_refs
<1>2. produce_evidence(c) # {}
    BY <1>1 DEF ConfigEligible
<1> QED
    BY <1>1, <1>2 DEF produce_evidence

\* What is eligible now was eligible when the same things were active.
LEMMA EligibleBefore ==
    ASSUME NEW s \in Sources, NEW ref \in Types, NEW t \in Tasks, NEW c \in Configs,
           c \in enumerate_candidates(s, Contract[ref], t)',
           catalog[s] = "ACTIVE", catalog[SourceContent[s].policy] = "ACTIVE",
           catalog[c] = "ACTIVE"
    PROVE  c \in enumerate_candidates(s, Contract[ref], t)
<1> USE Zenon
<1>1. /\ ConfigContent[c].source = s /\ catalog'[c] = "ACTIVE"
      /\ SourceEligible(s, Contract[ref], Requirement[t].hard)'
      /\ ConfigEligible(c, Contract[ref], t)'
    BY DEF enumerate_candidates, list_active_source_config_refs
<1>2. produce_evidence(c)' # {}
    BY <1>1 DEF ConfigEligible
<1>3. catalog'[s] = "ACTIVE" /\ catalog'[SourceContent[s].policy] = "ACTIVE"
    BY <1>1, <1>2 DEF produce_evidence
<1>4. produce_evidence(c)' = produce_evidence(c)
    BY <1>1, <1>3 DEF produce_evidence
<1>5. SourceEligible(s, Contract[ref], Requirement[t].hard)
    BY <1>1 DEF SourceEligible
<1>6. ConfigEligible(c, Contract[ref], t)
    BY <1>1, <1>4 DEF ConfigEligible
<1> QED
    BY ZenonT(60), <1>1, <1>5, <1>6 DEF enumerate_candidates, list_active_source_config_refs

\* Only four kinds of steps leave the dispatch with a fingerprint in hand.
LEMMA FingerprintSteps ==
    ASSUME TypedInv, [Next]_vars
    PROVE  \/ d'.pc \notin {"list", "attest"}
           \/ prepare_selection
           \/ list_sources /\ d' = [d EXCEPT !.pc = "attest", !.sources = list_active_spawn_source_refs]
           \/ \E s \in Sources : attest_source(s)
           \/ UNCHANGED d
<1> USE Zenon
<1>1. DispatchType /\ Carrying /\ StoreInv
    BY DEF TypedInv
<1>2. ASSUME NEW t, defer_or_fail_typed(t)
      PROVE  d'.pc \notin {"list", "attest"}
    <2>1. d.queue \ {t} \in SUBSET Tasks
        BY <1>1 DEF DispatchType
    <2> QED
        BY <1>1, <1>2, <2>1, DeferRests DEF defer_or_fail_typed
<1>3. ASSUME NEW pc \in {"idle", "cycle", "probe", "failed", "down"}, d' = At(pc)
      PROVE  d'.pc \notin {"list", "attest"}
    BY <1>3, AtRests
<1>4. NextAgent => d'.pc \notin {"list", "attest"}
    <2>1. CASE d' = [d EXCEPT !.pc = "select"]
        BY <1>1, <2>1 DEF DispatchType
    <2> QED
        BY <1>2, <2>1 DEF NextAgent
<1>5. ASSUME NEW a, NEW type, NEW winner, acquire_with(a, type, winner)
      PROVE  d'.pc \notin {"list", "attest"}
    <2>1. CASE d' = [At("prepare") EXCEPT !.task = d.task, !.queue = d.queue]
        BY <2>1 DEF At
    <2>2. CASE d' = At("failed")
        BY <1>3, <2>2
    <2>3. \/ d' = [At("prepare") EXCEPT !.task = d.task, !.queue = d.queue]
          \/ NextAgent \/ defer_or_fail_typed(d.task) \/ d' = At("failed")
        BY <1>5 DEF acquire_with
    <2> QED
        BY <1>2, <1>4, <2>1, <2>2, <2>3
<1>6. CASE dispatch_typed_one
    <2>1. \A excluded : list_typed_dispatch_candidates_excluding(excluded) \in SUBSET Tasks
        BY DEF list_typed_dispatch_candidates_excluding
    <2> QED
        BY <1>1, <1>6, <2>1, DeferRests DEF dispatch_typed_one
<1>7. ASSUME NEW t \in Tasks, acquire_typed_task(t)
      PROVE  d'.pc \notin {"list", "attest"}
    <2>1. CASE claim_task_ready(t)
        BY <1>1, <1>7, <2>1 DEF acquire_typed_task, DispatchType
    <2>2. CASE ~claim_task_ready(t)
        BY <1>2, <1>7, <2>2 DEF acquire_typed_task
    <2> QED
        BY <2>1, <2>2
<1>8. CASE no_eligible_source \/ selection_ambiguous
    BY <1>2, <1>4, <1>8 DEF no_eligible_source, selection_ambiguous
<1>9. CASE acquire_typed_task_existing \/ acquire_typed_task_new_agent
    BY <1>2, <1>5, <1>9 DEF acquire_typed_task_existing, acquire_typed_task_new_agent
<1>10. CASE \/ prepare_winner \/ preparation_unavailable \/ finalize_preparation
            \/ preparation_fault \/ launch_unavailable
            \/ prepare_typed_execution_launch \/ commit_outcome_unknown
    <2>1. \/ defer_or_fail_typed(d.task)
          \/ d' = At("idle") \/ d' = At("failed")
          \/ d' = [d EXCEPT !.pc = "preparing"] \/ d' = [d EXCEPT !.pc = "launch"]
        BY <1>10 DEF prepare_winner, preparation_unavailable, finalize_preparation,
            preparation_fault, launch_unavailable, prepare_typed_execution_launch,
            commit_outcome_unknown
    <2>2. CASE d' = [d EXCEPT !.pc = "preparing"] \/ d' = [d EXCEPT !.pc = "launch"]
        BY <1>1, <2>2 DEF DispatchType
    <2>3. CASE d' = At("idle") \/ d' = At("failed")
        BY <1>3, <2>3
    <2> QED
        BY <1>2, <2>1, <2>2, <2>3
<1>11. CASE list_sources
    BY <1>2, <1>11 DEF list_sources
<1>12. ASSUME NEW s \in Sources, attest_fatal(s)
       PROVE  d'.pc \notin {"list", "attest"}
    BY <1>3, <1>12 DEF attest_fatal
<1>13. CASE Expire \/ Crash \/ Restart
    BY <1>3, <1>13 DEF Expire, Crash, Restart
<1>14. CASE \/ Operate \/ UNCHANGED vars
            \/ \E t \in Tasks : promote_retry_wait(t) \/ ExecutionEnds(t)
                                \/ cancel_task(t) \/ resolve_retry(t)
                                \/ release_cancelled_writer(t)
            \/ \E id \in AttemptIds : Elapse(id)
            \/ \E a \in AllAgents : retire_logical_agent(a) \/ revive_agent(a)
                                    \/ \E ref \in Types : bind_logical_agent_type(a, ref)
    BY <1>14 DEF Operate, vars, promote_retry_wait, ExecutionEnds, cancel_task,
        resolve_retry, release_cancelled_writer, Elapse, retire_logical_agent, revive_agent,
        bind_logical_agent_type
<1> QED
    BY ZenonT(60), <1>6, <1>7, <1>8, <1>9, <1>10, <1>11, <1>12, <1>13, <1>14 DEF Next, Dispatch

\* A published revision stays so, and is active only if it was.
LEMMA ActiveWasActive ==
    ASSUME CatalogIsFunction, [Next]_vars, NEW x \in Refs, Published(x)
    PROVE  Published(x)' /\ (catalog'[x] = "ACTIVE" => catalog[x] = "ACTIVE")
<1> USE Zenon
<1>1. CASE CatalogOperator
    BY <1>1, OperatorStep
<1>2. CASE UNCHANGED catalog
    BY <1>2 DEF Published
<1> QED
    BY <1>1, <1>2, CatalogStep

CoverInv == TypedInv /\ CatalogIsFunction /\ FrontierIsPast /\ Covered

LEMMA CoverageKept ==
    ASSUME CoverInv, [Next]_vars
    PROVE  CoverInv'
<1> USE Zenon
<1> USE DEF CoverInv
<1>1. TypedInv' /\ CatalogIsFunction' /\ Honest /\ StoreInv /\ StoreInv'
    BY TypedStep, CatalogKept DEF TypedInv
<1>2. DispatchType /\ Carrying
    BY DEF TypedInv
<1>3. CASE d'.pc \notin {"list", "attest"}
    BY <1>1, <1>3 DEF FrontierIsPast, Covered
<1>4. CASE prepare_selection
    <2> DEFINE digest == active_catalog_frontier_digest
    <2>1. d'.pc = "list" /\ d'.frontier = digest /\ UNCHANGED catalog
        BY <1>2, <1>4 DEF prepare_selection, DispatchType
    <2>2. ASSUME NEW s \in Sources, <<s, SourceContent[s].policy, "ACTIVE">> \in digest.sources
          PROVE  catalog[s] = "ACTIVE" /\ catalog[SourceContent[s].policy] = "ACTIVE"
        BY <2>2 DEF active_catalog_frontier_digest, list_active_spawn_source_refs
    <2>3. ASSUME NEW c \in Configs, c \in digest.configs
          PROVE  catalog[c] = "ACTIVE"
        BY <2>3 DEF active_catalog_frontier_digest, list_active_source_config_refs
    <2> HIDE DEF digest
    <2>4. FrontierIsPast'
        BY <2>1, <2>2, <2>3 DEF FrontierIsPast, Captured, Published
    <2> QED
        BY <1>1, <2>1, <2>4 DEF Covered
<1>5. CASE list_sources /\ d' = [d EXCEPT !.pc = "attest", !.sources = list_active_spawn_source_refs]
    <2>1. /\ d.pc = "list" /\ d'.pc = "attest" /\ d'.frontier = d.frontier
          /\ d'.sources = list_active_spawn_source_refs /\ UNCHANGED catalog
        BY <1>2, <1>5 DEF list_sources, DispatchType
    <2>2. FrontierIsPast'
        BY <2>1 DEF FrontierIsPast, Captured, Published
    <2>3. ASSUME NEW s \in Sources, NEW c \in Configs,
                 c \in enumerate_candidates(s, ContractInHand, d.task)'
          PROVE  s \in d'.sources
        <3>1. catalog'[s] = "ACTIVE"
            BY <2>3 DEF enumerate_candidates, list_active_source_config_refs, ConfigEligible,
                produce_evidence
        <3> QED
            BY <2>1, <3>1 DEF list_active_spawn_source_refs
    <2>4. Covered'
        BY <2>3 DEF Covered
    <2> QED
        BY <1>1, <2>2, <2>4
<1>6. ASSUME NEW x \in Sources, attest_source(x)
      PROVE  FrontierIsPast' /\ Covered'
    <2> DEFINE eligible == enumerate_candidates(x, ContractInHand, d.task)
    <2>1. PICK made \in SUBSET {y \in Attestation : y.config \in eligible} :
             d' = [d EXCEPT !.sources = @ \ {x}, !.seen = @ \cup eligible, !.found = @ \cup made]
        BY <1>6 DEF attest_source
    <2>2. d.pc = "attest" /\ UNCHANGED <<catalog, agents>>
        BY <1>6 DEF attest_source, store
    <2>3. /\ d'.pc = "attest" /\ d'.frontier = d.frontier /\ d'.task = d.task /\ d'.agent = d.agent
          /\ d'.sources = d.sources \ {x} /\ d'.seen = d.seen \cup eligible
        <3> HIDE DEF eligible
        <3> QED
            BY <1>2, <2>1, <2>2 DEF DispatchType
    <2>4. FrontierIsPast'
        BY <2>2, <2>3 DEF FrontierIsPast, Captured, Published
    <2>5. ContractInHand' = ContractInHand
        BY <2>2, <2>3 DEF ContractInHand
    <2>6. ASSUME NEW s \in Sources
          PROVE  enumerate_candidates(s, ContractInHand, d.task)'
                    = enumerate_candidates(s, ContractInHand, d.task)
        BY ZenonT(60), <2>2, <2>3, <2>5 DEF enumerate_candidates, list_active_source_config_refs,
            SourceEligible, ConfigEligible, produce_evidence
    <2>7. ASSUME NEW s \in Sources, NEW c \in Configs, Captured(s, c)',
                 c \in enumerate_candidates(s, ContractInHand, d.task)'
          PROVE  s \in d'.sources \/ c \in d'.seen
        <3>1. c \in enumerate_candidates(s, ContractInHand, d.task) /\ Captured(s, c)
            BY <2>3, <2>6, <2>7 DEF Captured
        <3>2. s \in d.sources \/ c \in d.seen
            BY <2>2, <3>1 DEF Covered
        <3> QED
            BY <2>3, <3>1, <3>2
    <2> QED
        BY <2>4, <2>7 DEF Covered
<1>7. CASE UNCHANGED d
    <2>1. ASSUME NEW s \in Sources, NEW c \in Configs, Captured(s, c), d.pc \in {"list", "attest"}
          PROVE  /\ Published(s) /\ Published(SourceContent[s].policy) /\ Published(c)
                 /\ Published(s)' /\ Published(SourceContent[s].policy)' /\ Published(c)'
                 /\ catalog'[s] = "ACTIVE" => catalog[s] = "ACTIVE"
                 /\ catalog'[SourceContent[s].policy] = "ACTIVE" =>
                       catalog[SourceContent[s].policy] = "ACTIVE"
                 /\ catalog'[c] = "ACTIVE" => catalog[c] = "ACTIVE"
        <3>1. s \in Refs /\ SourceContent[s].policy \in Refs /\ c \in Refs
            BY CatalogAssumption DEF Refs
        <3>2. Published(s) /\ Published(SourceContent[s].policy) /\ Published(c)
            BY <2>1 DEF FrontierIsPast
        <3> QED
            BY <3>1, <3>2, ActiveWasActive
    <2>2. FrontierIsPast'
        BY <1>7, <2>1 DEF FrontierIsPast, Captured
    <2>3. ASSUME NEW s \in Sources, NEW c \in Configs, Captured(s, c), d.pc = "attest",
                 c \in enumerate_candidates(s, ContractInHand, d.task)'
          PROVE  s \in d.sources \/ c \in d.seen
        <3>1. PICK t \in Tasks : t = d.task /\ t = d'.task
            BY <1>2, <1>7, <2>3 DEF Carrying
        <3>2. PICK ref \in Types : Contract[ref] = ContractInHand /\ Contract[ref] = ContractInHand'
            <4>1. CASE d.agent = NoAgent
                BY <1>7, <3>1, <4>1, InstanceAssumption DEF ContractInHand
            <4>2. CASE d.agent # NoAgent
                <5>1. Bound(d.agent) /\ agents'[d.agent].type = agents[d.agent].type
                    BY <1>1, <1>2, <4>2, BoundStays DEF Carrying
                <5>2. agents[d.agent].type \in Types
                    BY <5>1 DEF Bound
                <5> QED
                    BY <1>7, <4>2, <5>1, <5>2 DEF ContractInHand
            <4> QED
                BY ZenonT(60), <4>1, <4>2
        <3>3. c \in enumerate_candidates(s, Contract[ref], t)'
            BY <2>3, <3>1, <3>2 DEF enumerate_candidates, ConfigEligible
        <3>4. catalog'[s] = "ACTIVE" /\ catalog'[SourceContent[s].policy] = "ACTIVE" /\ catalog'[c] = "ACTIVE"
            BY <3>3 DEF enumerate_candidates, list_active_source_config_refs, ConfigEligible,
                produce_evidence
        <3>5. catalog[s] = "ACTIVE" /\ catalog[SourceContent[s].policy] = "ACTIVE" /\ catalog[c] = "ACTIVE"
            BY <2>1, <2>3, <3>4
        <3>6. c \in enumerate_candidates(s, Contract[ref], t)
            BY <3>3, <3>5, EligibleBefore
        <3> QED
            BY <2>3, <3>1, <3>2, <3>6 DEF Covered
    <2>4. Covered'
        BY <1>7, <2>3 DEF Covered, Captured
    <2> QED
        BY <1>1, <2>2, <2>4
<1> QED
    BY <1>1, <1>3, <1>4, <1>5, <1>6, <1>7, FingerprintSteps

\* A claim is committed (finish_acquisition) with the unique best of what was attested, and
\* nothing that is eligible at that moment was left unattested: whatever operators publish,
\* drain or disable between the capture of the frontier and the commit.
THEOREM BestIsCommitted == Spec => BestOfTheCatalogue
<1>1. Init => CoverInv
    <2>1. Init => CatalogIsFunction /\ d.pc = "idle"
        BY SMTT(30) DEF Init, CatalogIsFunction, Refs, At
    <2> QED
        BY ZenonT(60), <2>1, TypedInit DEF CoverInv, FrontierIsPast, Covered
<1>2. CoverInv /\ [Next]_vars => CoverInv'
    BY Zenon, CoverageKept
<1>3. ASSUME CoverInv, [Next]_vars, NEW t \in Tasks, tasks'[t].number > tasks[t].number
      PROVE  LET id == <<t, tasks'[t].number>>
                 binding == hosts'[attempts'[id].agent].binding
             IN  /\ \A s \in list_active_spawn_source_refs :
                       enumerate_candidates(s, Contract[binding.type], t) \subseteq d.seen
                 /\ \A x \in d.found : x.config # binding.config =>
                       continuity_rank(x.config) < continuity_rank(binding.config)
    <2> DEFINE binding == hosts'[attempts'[<<t, tasks'[t].number>>].agent].binding
    <2>1. Committed(t) /\ DispatchType /\ Carrying
        BY Zenon, <1>3, TypedStep DEF CoverInv, TypedInv
    <2>2. PICK winner \in select_candidate(d.found) :
             /\ Selecting /\ t = d.task /\ UNCHANGED catalog
             /\ binding = [type |-> TypeInHand, config |-> winner.config, digest |-> winner.digest]
             /\ active_catalog_frontier_digest = d.frontier
             /\ Reproved(winner.config, Contract[TypeInHand], t)
        BY <2>1, Zenon DEF Committed
    <2>3. d.pc = "attest" /\ d.sources = {}
        BY ZenonT(60), <2>2 DEF Selecting
    <2>4. binding.type = TypeInHand /\ binding.config = winner.config
        BY SMTT(30), <2>2
    <2>5. Contract[TypeInHand] = ContractInHand
        BY Zenon DEF TypeInHand, ContractInHand
    <2> HIDE DEF binding
    <2>6. ASSUME NEW s \in list_active_spawn_source_refs,
                 NEW c \in enumerate_candidates(s, Contract[binding.type], t)
          PROVE  c \in d.seen
        <3>1. /\ s \in Sources /\ c \in Configs /\ c \in enumerate_candidates(s, ContractInHand, d.task)
            BY Zenon, <2>2, <2>4, <2>5, EligibleIsActive DEF list_active_spawn_source_refs
        <3>2. /\ catalog[SourceContent[s].policy] = "ACTIVE"
              /\ c \in list_active_source_config_refs(s)
            BY Zenon, EligibleIsActive DEF enumerate_candidates
        <3>3. <<s, SourceContent[s].policy, "ACTIVE">>
                 \in {<<y, SourceContent[y].policy, catalog[SourceContent[y].policy]>> :
                         y \in list_active_spawn_source_refs}
            BY Zenon, <3>2
        <3>4. c \in UNION {list_active_source_config_refs(y) : y \in list_active_spawn_source_refs}
            BY ZenonT(60), <3>2
        <3>5. Captured(s, c)
            BY SMTT(30), <2>2, <3>3, <3>4 DEF Captured, active_catalog_frontier_digest
        <3> QED
            BY Zenon, <1>3, <2>3, <3>1, <3>5 DEF CoverInv, Covered
    <2>7. ASSUME NEW x \in d.found, x.config # binding.config
          PROVE  continuity_rank(x.config) < continuity_rank(binding.config)
        BY Zenon, <2>4, <2>7 DEF select_candidate
    <2> QED
        BY Zenon, <2>6, <2>7 DEF binding
<1>4. CoverInv /\ [Next]_vars =>
        [\A t \in Tasks : tasks'[t].number > tasks[t].number =>
            LET id == <<t, tasks'[t].number>>
                binding == hosts'[attempts'[id].agent].binding
            IN  /\ \A s \in list_active_spawn_source_refs :
                      enumerate_candidates(s, Contract[binding.type], t) \subseteq d.seen
                /\ \A x \in d.found : x.config # binding.config =>
                      continuity_rank(x.config) < continuity_rank(binding.config)]_vars
    BY Zenon, <1>3
<1> QED
    BY <1>1, <1>2, <1>4, PTL DEF Spec, BestOfTheCatalogue

=============================================================================
