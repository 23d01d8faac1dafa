---------------------------- MODULE ContractLaws ----------------------------
(***************************************************************************)
(* What the relations of AgentContract owe each other and the catalogue.   *)
(* TypedProofs proves the laws for every contract and requirement.         *)
(***************************************************************************)
EXTENDS Catalog

CONSTANT Requirements       \* hard requirements of tasks

ASSUME RequirementsAssumption == \A hard \in Requirements : Sized(hard)

\* A type that refines another executes no task that its base could not: what
\* is_valid_refinement accepts never widens what can_execute admits.  The one exception
\* is the one the code makes: a refinement may guarantee more continuity.
Narrows(base, derived) ==
    \A hard \in Requirements :
        can_execute(derived, hard) /\ base.continuity >= hard.continuity =>
            can_execute(base, hard)

\* What the store publishes as a refinement (publish_agent_type) is one for every task:
\* an agent bound to the derived type is never handed work its base type excludes.
PublishedNarrows ==
    [][catalog' # catalog =>
         \A ref \in Types : ~Published(ref) /\ Published(ref)' /\ Base[ref] # NoType =>
             Narrows(Contract[Base[ref]], Contract[ref])]_catalog

\* What provisions a type for a task proves every capability that the task requires, by
\* itself and not only together with what the type restricts (can_provision_task).
ProvesTheTask(c, hard) ==
    LET config == ConfigContent[c]
        source == SourceContent[config.source]
    IN  \A cap \in Present(hard.capabilities) :
            \E v \in effective_functional_value(source, config, cap) :
                value_satisfies(CapabilityCatalog[cap].matcher, hard.capabilities[cap], v)

\* Among candidates in the same relation to the pinned type, the more specific one is
\* always tried first: counting dominators (match_existing_agents) never inverts
\* more_specific_for.
RankedBySpecificity(eligible, pin, required, hard) ==
    \A c, d \in eligible :
        /\ relation(c.ref, c.contract, pin, required, hard)
             = relation(d.ref, d.contract, pin, required, hard)
        /\ more_specific_for(c.contract, d.contract, hard)
        => Domination(c, eligible, pin, required, hard)
             < Domination(d, eligible, pin, required, hard)

=============================================================================
