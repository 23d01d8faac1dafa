------------------------------ MODULE Catalog ------------------------------
(***************************************************************************)
(* The durable catalogue that typed work is provisioned from: agent types, *)
(* adapter binding policies, spawn sources and source configurations, with *)
(* the operator's disposition of each revision (catalog.rs).               *)
(*                                                                         *)
(* The content of a revision is immutable: publishing it again with other  *)
(* content is refused (guard_immutable), so content is a constant here and *)
(* only the dispositions are state.  "NONE" is a revision not published.   *)
(***************************************************************************)
EXTENDS AgentContract

CONSTANTS
    NoType,
    Types, Policies, Sources, Configs,  \* disjoint sets of exact revisions
    Contract, Base,     \* of a type: its contract, the type it is based on
    PolicyContent,      \* of a policy: [kind, safety]
    SourceContent,      \* of a source: [ref, policy, claims, envelope, lifecycle, continuity]
    ConfigContent       \* of a configuration: [ref, source, claims, lifecycle, continuity,
                        \* credentials]
CONSTANT Dispositions   \* the dispositions an operator gives

ASSUME CatalogAssumption ==
    /\ Types \cap (Policies \cup Sources \cup Configs) = {}
    /\ \A ref \in Types : Sized(Contract[ref]) /\ Base[ref] \in Types \cup {NoType}
    /\ Dispositions \subseteq {"ACTIVE", "DRAINING", "DISABLED"}
    /\ \A c \in DOMAIN CapabilityCatalog : CapabilityCatalog[c] \in CapabilityDefinition
    /\ \A s \in Sources : SourceContent[s].policy \in Policies /\ GradedSource(SourceContent[s])
    /\ \A c \in Configs : ConfigContent[c].source \in Sources /\ GradedClaims(ConfigContent[c].claims)

VARIABLE catalog        \* revision -> its disposition

Disposition == {"ACTIVE", "DRAINING", "DISABLED"}

CatalogTypeOK ==
    /\ DOMAIN catalog = Types \cup Policies \cup Sources \cup Configs
    /\ \A ref \in DOMAIN catalog :
          catalog[ref] \in {"NONE"} \cup IF ref \in Types THEN {"PUBLISHED", "DEPRECATED"}
                                                        ELSE Disposition

----------------------------------------------------------------------------
(* Validated reads: the content of a published revision, else nothing *)

Published(ref) == catalog[ref] # "NONE"

get_agent_type(ref) == {Contract[r] : r \in {x \in {ref} : Published(x)}}

get_adapter_binding_policy(p) == {PolicyContent[r] : r \in {x \in {p} : Published(x)}}

load_spawn_source(s) == {SourceContent[r] : r \in {x \in {s} : Published(x)}}

load_source_config_revision(c) == {ConfigContent[r] : r \in {x \in {c} : Published(x)}}

list_active_spawn_source_refs == {s \in Sources : catalog[s] = "ACTIVE"}

list_active_source_config_refs(s) ==
    {c \in Configs : ConfigContent[c].source = s /\ catalog[c] = "ACTIVE"}

----------------------------------------------------------------------------
(* Publishing.  The first publication fixes the disposition; repeating one is a no-op,
   whatever disposition it names. *)

Publish(ref, status) ==
    catalog' = IF Published(ref) THEN catalog ELSE [catalog EXCEPT ![ref] = status]

publish_agent_type(ref) ==
    /\ validate(Contract[ref])
    /\ Base[ref] # NoType => \E base \in get_agent_type(Base[ref]) :
                                 is_valid_refinement(base, Contract[ref])
    /\ Publish(ref, "PUBLISHED")

publish_adapter_binding_policy(p, status) == Publish(p, status)

\* The policy must exist; it need not be active.
publish_spawn_source(s, status) ==
    /\ validate_spawn_source(SourceContent[s])
    /\ get_adapter_binding_policy(SourceContent[s].policy) # {}
    /\ Publish(s, status)

publish_source_config(c, status) ==
    /\ \E source \in load_spawn_source(ConfigContent[c].source) :
          validate_source_config(ConfigContent[c], source)
    /\ Publish(c, status)

----------------------------------------------------------------------------
(* Dispositions only advance *)

status_rank(status) ==
    CASE status = "ACTIVE" -> 0 [] status = "DRAINING" -> 1 [] OTHER -> 2

check_monotonic(current, status) == status_rank(status) >= status_rank(current)

set_agent_type_status(ref) ==
    /\ Published(ref)
    /\ catalog' = [catalog EXCEPT ![ref] = "DEPRECATED"]

SetStatus(ref, status) ==
    /\ Published(ref)
    /\ check_monotonic(catalog[ref], status)
    /\ catalog' = [catalog EXCEPT ![ref] = status]

set_adapter_binding_policy_status(p, status) == SetStatus(p, status)

set_spawn_source_status(s, status) == SetStatus(s, status)

set_source_config_status(c, status) == SetStatus(c, status)

CatalogOperator ==
    \/ \E ref \in Types : publish_agent_type(ref) \/ set_agent_type_status(ref)
    \/ \E p \in Policies, status \in Dispositions :
          publish_adapter_binding_policy(p, status) \/ set_adapter_binding_policy_status(p, status)
    \/ \E s \in Sources, status \in Dispositions :
          publish_spawn_source(s, status) \/ set_spawn_source_status(s, status)
    \/ \E c \in Configs, status \in Dispositions :
          publish_source_config(c, status) \/ set_source_config_status(c, status)

----------------------------------------------------------------------------
(* The fingerprint of what a selection may choose from *)

\* Mutant: the fingerprint does not cover the dispositions of the policies.
FrontierWithoutPolicies ==
    [sources |-> {<<s, SourceContent[s].policy>> : s \in list_active_spawn_source_refs},
     configs |-> UNION {list_active_source_config_refs(s) : s \in list_active_spawn_source_refs}]

active_catalog_frontier_digest ==
    [sources |-> {<<s, SourceContent[s].policy, catalog[SourceContent[s].policy]>> :
                     s \in list_active_spawn_source_refs},
     configs |-> UNION {list_active_source_config_refs(s) : s \in list_active_spawn_source_refs}]

=============================================================================
