-------------------------- MODULE TypedAcquisition --------------------------
(***************************************************************************)
(* How the control thread finds an agent and a source for a typed task,    *)
(* commits the claim, prepares the environment and commits the Execution:  *)
(* dispatch_typed_one (runtime lib.rs), the resolver                       *)
(* (provisioning_resolver.rs) and the authority transaction                *)
(* (storage provisioning.rs).                                              *)
(*                                                                         *)
(* Only the control thread dispatches and expires.  The catalogue, the     *)
(* bindings of agents to types, the pool and the tasks change under it:    *)
(* operators and Root work on the same store, leases elapse, the process   *)
(* may stop at any step.  What an Execution does once it is committed is   *)
(* Kernel's and ControlLoop's; here it ends one way or the other.          *)
(***************************************************************************)
EXTENDS ContractLaws

CONSTANTS
    Tasks, Agents, NewAgents,   \* Agents of the pool, agents that may still be born
    MaxAttempts,                \* bound and retry limit: attempts per task
    MaxChanges,                 \* bound: operations of the catalogue's operators
    Requirement,                \* of a task: [type, hard]
    Placement,                  \* of a task: [partition, tags, workstream, continuity, ephemeral]
    HomeOf,                     \* of an agent of the pool: [partition, tags, workstream]
    Initially,                  \* the revisions published at the start
    LegacyHosts,                \* hosts that agents of the pool may have had before
    Target,                     \* [kind, isolation]: what the partition's target resolves to
    Imported,                   \* policy -> its installed binding: [kind, protocol, safety]
    Routed,                     \* source -> the protocol of the integration bound to it
    Digest,                     \* materialization digests
    NoBinding, NoAgent, NoTask

ASSUME CountsAreNatural == MaxAttempts \in Nat \ {0} /\ MaxChanges \in Nat

VARIABLES
    changes,    \* operations on the catalogue so far
    tasks,      \* task -> [state, number]: the number of its latest attempt
    attempts,   \* <<task, number>> -> its claim
    agents,     \* agent -> [state, type, home]
    hosts,      \* agent -> its incarnation, the live one
    d,          \* the dispatch of the control thread
    cooling     \* [frontier, tasks]: tasks not to be probed again yet

store == <<tasks, attempts, agents, hosts>>
vars == <<catalog, changes, store, d, cooling>>

AttemptIds == Tasks \X (1..MaxAttempts)
AllAgents == Agents \cup NewAgents

NoHost == [state |-> "NONE", binding |-> NoBinding, used |-> FALSE]

NoAttempt == [state |-> "NONE", agent |-> NoAgent, elapsed |-> FALSE, fault |-> FALSE,
              execution |-> "NONE", asked |-> FALSE]

Claimed(a) == [state |-> "ACTIVE", agent |-> a, elapsed |-> FALSE, fault |-> FALSE,
               execution |-> "NONE", asked |-> FALSE]

\* With the fault on record, if there is one, whether Root was asked, and the agent that
\* is in quarantine until Root has accounted for the writer.
Closed(fault, asked, agent) ==
    [state |-> "CLOSED", agent |-> agent, elapsed |-> FALSE, fault |-> fault,
     execution |-> "NONE", asked |-> asked]

Nowhere == [partition |-> "", tags |-> {}, workstream |-> ""]

NoFrontier == [sources |-> {}, configs |-> {}]

At(pc) == [pc |-> pc, task |-> NoTask, queue |-> {}, eligible |-> {}, ranked |-> {},
           agent |-> NoAgent, frontier |-> NoFrontier, sources |-> {}, seen |-> {}, found |-> {}]

Current(t) == <<t, tasks[t].number>>
Active(t) == tasks[t].number > 0 /\ attempts[Current(t)].state = "ACTIVE"

AttemptRow == [state : {"NONE", "ACTIVE", "CLOSED"}, agent : AllAgents \cup {NoAgent},
               elapsed : BOOLEAN, fault : BOOLEAN, execution : {"NONE", "LIVE"}, asked : BOOLEAN]

Binding == [type : Types, config : Configs, digest : Digest]

Host == [state : {"NONE", "STARTING", "WARM", "COLD"}, binding : Binding \cup {NoBinding},
         used : BOOLEAN]

\* A new agent is born in its task's partition with its tags and workstream.
birth_agent(t) == [partition |-> Placement[t].partition, tags |-> Placement[t].tags,
                   workstream |-> Placement[t].workstream]

Home == {Nowhere} \cup {HomeOf[a] : a \in Agents} \cup {birth_agent(t) : t \in Tasks}

Candidate == [agent : AllAgents, ref : Types, contract : {Contract[ref] : ref \in Types},
              partition : {home.partition : home \in Home}, tags : {home.tags : home \in Home},
              same_workstream : BOOLEAN]

Digests == [sources : SUBSET (Sources \X Policies \X ({"NONE"} \cup Disposition)),
            configs : SUBSET Configs]

Attestation == [config : Configs, digest : Digest]

ASSUME InstanceAssumption ==
    /\ NoTask \notin Tasks /\ NoAgent \notin AllAgents /\ NoType \notin Types
    /\ NoBinding \notin Binding
    /\ LegacyHosts \subseteq Host
    /\ \A t \in Tasks : Requirement[t].type \in Types /\ Sized(Requirement[t].hard)

TypeOK ==
    /\ CatalogTypeOK
    /\ changes \in 0..MaxChanges
    /\ tasks \in [Tasks -> [state : {"QUEUED", "RETRY_WAIT", "LEASED", "RUNNING", "SUSPENDED",
                                     "COMPLETED", "CANCELLED"},
                            number : 0..MaxAttempts]]
    /\ attempts \in [AttemptIds -> AttemptRow]
    /\ agents \in [AllAgents -> [state : {"UNBORN", "READY", "ASSIGNED", "SUSPENDED", "REVIVING",
                                          "RETIRED"},
                                 type : Types \cup {NoType}, home : Home]]
    /\ hosts \in [AllAgents -> Host]
    /\ d \in [pc : {"idle", "cycle", "probe", "select", "list", "attest", "prepare", "preparing",
                    "launch", "failed", "down"},
              task : Tasks \cup {NoTask}, queue : SUBSET Tasks, eligible : SUBSET Candidate,
              ranked : SUBSET Candidate, agent : AllAgents \cup {NoAgent}, frontier : Digests,
              sources : SUBSET Sources, seen : SUBSET Configs, found : SUBSET Attestation]

\* An older store may hold a task suspended over a fault that nobody was asked about.
Init ==
    /\ catalog = [ref \in Types \cup Policies \cup Sources \cup Configs |->
                    IF ref \notin Initially THEN "NONE"
                    ELSE IF ref \in Types THEN "PUBLISHED" ELSE "ACTIVE"]
    /\ changes = 0
    /\ \E old \in SUBSET Tasks :
          /\ tasks = [t \in Tasks |-> IF t \in old THEN [state |-> "SUSPENDED", number |-> 1]
                                      ELSE [state |-> "QUEUED", number |-> 0]]
          /\ attempts = [id \in AttemptIds |->
                            IF id[1] \in old /\ id[2] = 1
                            THEN Closed(TRUE, FALSE, NoAgent) ELSE NoAttempt]
    /\ agents = [a \in AllAgents |->
                    IF a \in Agents
                    THEN [state |-> "READY", type |-> NoType, home |-> HomeOf[a]]
                    ELSE [state |-> "UNBORN", type |-> NoType, home |-> Nowhere]]
    /\ \E legacy \in [Agents -> LegacyHosts] :
          hosts = [a \in AllAgents |-> IF a \in Agents THEN legacy[a] ELSE NoHost]
    /\ d = At("idle")
    /\ cooling = [frontier |-> NoFrontier, tasks |-> {}]

----------------------------------------------------------------------------
(* What the store makes of a claim *)

claim_task_ready(t) == tasks[t].state = "QUEUED"

\* A current claim: owned, in time, and with no fault on record.
validate_authority(id) ==
    attempts[id].state = "ACTIVE" /\ ~attempts[id].elapsed /\ ~attempts[id].fault

release_agent(t) == IF Placement[t].ephemeral THEN "RETIRED" ELSE "READY"

RetryOrSuspend(id) == IF id[2] < MaxAttempts THEN "RETRY_WAIT" ELSE "SUSPENDED"

\* The Execution of a writer that shares its workspace may still write: nothing says that
\* it has stopped.
writer_is_safe_to_replace(id) ==
    \/ Requirement[id[1]].hard.workspace # "write" \/ Target.isolation
    \/ attempts[id].execution = "NONE"

\* Claims close together: each names the state its task goes to.  A suspension asks Root,
\* and so does a writer that may still run, whose agent is put in quarantine.
Close(rows, ids, goes, kept, unsafe) ==
    LET ending == {id[1] : id \in ids}
        of(t) == CHOOSE id \in ids : id[1] = t
        held == {attempts[id].agent : id \in ids}
        by(a) == CHOOSE id \in ids : attempts[id].agent = a
        freed(a) == IF a \notin held THEN agents[a].state
                    ELSE IF by(a) \in unsafe THEN "SUSPENDED" ELSE release_agent(by(a)[1])
    IN  /\ tasks' = [t \in Tasks |-> IF t \in ending THEN [tasks[t] EXCEPT !.state = goes[of(t)]]
                                     ELSE tasks[t]]
        /\ attempts' = [id \in AttemptIds |->
                           IF id \in ids
                           THEN Closed(rows[id].fault, goes[id] = "SUSPENDED" \/ id \in unsafe,
                                       IF id \in unsafe THEN attempts[id].agent ELSE NoAgent)
                           ELSE rows[id]]
        /\ agents' = [a \in AllAgents |-> [agents[a] EXCEPT !.state = freed(a)]]
        /\ hosts' = [a \in AllAgents |->
                        IF a \in held /\ (freed(a) = "RETIRED" \/ ~kept[by(a)]) THEN NoHost
                        ELSE hosts[a]]

CloseOne(id, to, keep) == Close(attempts, {id}, [x \in {id} |-> to], [x \in {id} |-> keep], {})

Quarantine(id, to) == Close(attempts, {id}, [x \in {id} |-> to], [x \in {id} |-> FALSE], {id})

\* A NACK for want of resources; a claim that is no longer current is left to expiry.
report_configuration_unavailable(id) ==
    IF validate_authority(id)
    THEN CloseOne(id, RetryOrSuspend(id), TRUE)
    ELSE UNCHANGED store

\* Ownership is enough: a fault is recorded even if the lease has just elapsed.
record_fault(id) ==
    /\ attempts' = IF attempts[id].state = "ACTIVE" /\ attempts[id].execution = "NONE"
                   THEN [attempts EXCEPT ![id].fault = TRUE] ELSE attempts
    /\ UNCHANGED <<tasks, agents, hosts>>

----------------------------------------------------------------------------
(* Eligibility, before anything is asked of a source *)

Isolated(contract, hard) == contract.isolation \/ hard.isolation

validate_attempt_isolation(required, enforced) ==
    /\ required => Target.isolation
    /\ Target.isolation => enforced

safety_satisfies(required, provided) ==
    /\ required.isolation => provided.isolation
    /\ required.workspaces \subseteq provided.workspaces
    /\ required.networks \subseteq provided.networks

\* What the installed adapter enforces, as evidence for one configuration; none if it
\* may not be used.  Sandboxes and security-class capabilities are never imported.
produce_evidence(c) ==
    LET s == ConfigContent[c].source
        p == SourceContent[s].policy
    IN  {[policy |-> p, source |-> s, config |-> c, safety |-> Imported[x].safety,
          sandboxes |-> {}, enforced |-> <<>>] :
            x \in {y \in {p} \cap DOMAIN Imported :
                      /\ PolicyContent[y].kind = Imported[y].kind
                      /\ catalog[p] = "ACTIVE" /\ catalog[s] = "ACTIVE" /\ catalog[c] = "ACTIVE"
                      /\ safety_satisfies(PolicyContent[y].safety, Imported[y].safety)}}

\* A source that is routed to an integration and to an installed adapter that speak the
\* same protocol, on the kind of the partition's target.
SourceEligible(s, contract, hard) ==
    LET p == SourceContent[s].policy
    IN  /\ catalog[p] = "ACTIVE" /\ PolicyContent[p].kind = Target.kind
        /\ s \in DOMAIN Routed
        /\ p \in DOMAIN Imported /\ Imported[p].protocol = Routed[s]
        /\ validate_attempt_isolation(Isolated(contract, hard), Imported[p].safety.isolation)

ConfigEligible(c, contract, t) ==
    LET source == SourceContent[ConfigContent[c].source]
    IN  /\ ConfigContent[c].credentials = {}
        /\ required_lifecycle(Placement[t].ephemeral)
             \in effective_lifecycle(ConfigContent[c], source)
        /\ \E evidence \in produce_evidence(c) :
              can_provision_task(contract, source, ConfigContent[c], evidence,
                                 Requirement[t].hard)

\* The configurations of a source that are attested for a task and a contract.
enumerate_candidates(s, contract, t) ==
    {c \in list_active_source_config_refs(s) :
        SourceEligible(s, contract, Requirement[t].hard) /\ ConfigEligible(c, contract, t)}

continuity_rank(c) ==
    IF 1 \in effective_continuity(ConfigContent[c], SourceContent[ConfigContent[c].source])
    THEN 1 ELSE 0

\* The unique best candidate: none if there is a tie.
select_candidate(found) ==
    {x \in found : \A y \in found \ {x} : continuity_rank(y.config) < continuity_rank(x.config)}

----------------------------------------------------------------------------
(* One pass of the dispatcher, up to the claim *)

CandidateOf(a, t) ==
    [agent |-> a, ref |-> agents[a].type, contract |-> Contract[agents[a].type],
     partition |-> agents[a].home.partition, tags |-> agents[a].home.tags,
     same_workstream |-> Placement[t].workstream # ""
                         /\ agents[a].home.workstream = Placement[t].workstream]

match_existing_agents_for_task(t) ==
    match_existing_agents(
        {CandidateOf(a, t) : a \in {x \in AllAgents : agents[x].state = "READY"
                                                      /\ agents[x].type # NoType}},
        Requirement[t].type, Requirement[t].hard, Placement[t])

\* The ranked candidates that nothing else is sorted before; the sort counts the
\* dominators once, among all that were eligible.
FirstOf(ranked, eligible, t) ==
    {c \in ranked : \A o \in ranked :
        ~Before(o, c, eligible, Requirement[t].type, Contract[Requirement[t].type],
                Requirement[t].hard, Placement[t])}

\* The task stays queued and the pass goes on, or ends.
Resume(queue) == IF queue = {} THEN At("idle") ELSE [At("probe") EXCEPT !.queue = queue]

defer_or_fail_typed(t) ==
    /\ d' = Resume(d.queue \ {t})
    /\ cooling' = [cooling EXCEPT !.tasks = @ \cup {t}]

\* The tasks still cooling down: none after the catalogue has changed, and time may
\* have ended the cooldown of any.
cooling_ids(frontier) == SUBSET IF cooling.frontier = frontier THEN cooling.tasks ELSE {}

list_typed_dispatch_candidates_excluding(excluded) == {t \in Tasks : claim_task_ready(t)} \ excluded

dispatch_typed_one ==
    LET frontier == active_catalog_frontier_digest
    IN  /\ d.pc = "cycle"
        /\ \E excluded \in cooling_ids(frontier) :
              /\ cooling' = [frontier |-> frontier, tasks |-> excluded]
              /\ d' = Resume(list_typed_dispatch_candidates_excluding(excluded))
        /\ UNCHANGED <<catalog, changes, store>>

acquire_typed_task(t) ==
    /\ d.pc = "probe" /\ t \in d.queue
    /\ IF claim_task_ready(t)
       THEN /\ d' = [d EXCEPT !.pc = "select", !.task = t, !.queue = @ \ {t},
                              !.eligible = match_existing_agents_for_task(t),
                              !.ranked = match_existing_agents_for_task(t)]
            /\ UNCHANGED cooling
       ELSE defer_or_fail_typed(t)
    /\ UNCHANGED <<catalog, changes, store>>

\* The next existing agent, or a new one; the frontier is captured before anything
\* is enumerated.
prepare_selection ==
    /\ d.pc = "select"
    /\ \E c \in IF d.ranked = {} THEN {[agent |-> NoAgent]}
                ELSE FirstOf(d.ranked, d.eligible, d.task) :
          d' = [d EXCEPT !.pc = "list", !.agent = c.agent, !.ranked = @ \ {c},
                         !.frontier = active_catalog_frontier_digest,
                         !.seen = {}, !.found = {}]
    /\ UNCHANGED <<catalog, changes, store, cooling>>

list_sources ==
    /\ d.pc = "list"
    /\ IF claim_task_ready(d.task)
       THEN /\ d' = [d EXCEPT !.pc = "attest", !.sources = list_active_spawn_source_refs]
            /\ UNCHANGED cooling
       ELSE defer_or_fail_typed(d.task)
    /\ UNCHANGED <<catalog, changes, store>>

ContractInHand ==
    Contract[IF d.agent = NoAgent THEN Requirement[d.task].type ELSE agents[d.agent].type]

\* The integration attests each eligible configuration of a source, or not.
attest_source(s) ==
    LET eligible == enumerate_candidates(s, ContractInHand, d.task)
    IN  /\ d.pc = "attest" /\ s \in d.sources
        /\ \E made \in SUBSET {x \in Attestation : x.config \in eligible} :
              /\ \A x, y \in made : x.config = y.config => x = y
              /\ d' = [d EXCEPT !.sources = @ \ {s}, !.seen = @ \cup eligible,
                                !.found = @ \cup made]
        /\ UNCHANGED <<catalog, changes, store, cooling>>

\* A fault of the integration, or a deadline spent in it, ends the daemon's dispatch.
attest_fatal(s) ==
    /\ d.pc = "attest" /\ s \in d.sources
    /\ enumerate_candidates(s, ContractInHand, d.task) # {}
    /\ d' = At("failed")
    /\ UNCHANGED <<catalog, changes, store, cooling>>

\* A refusal that concerns this agent only: on to the next, and the new one is the last.
NextAgent ==
    IF d.agent = NoAgent
    THEN defer_or_fail_typed(d.task)
    ELSE /\ d' = [d EXCEPT !.pc = "select"]
         /\ UNCHANGED cooling

Selecting == d.pc = "attest" /\ d.sources = {}

no_eligible_source ==
    /\ Selecting /\ d.found = {}
    /\ NextAgent
    /\ UNCHANGED <<catalog, changes, store>>

selection_ambiguous ==
    /\ Selecting /\ d.found # {} /\ select_candidate(d.found) = {}
    /\ defer_or_fail_typed(d.task)
    /\ UNCHANGED <<catalog, changes, store>>

----------------------------------------------------------------------------
(* The authority transaction *)

incarnation_requires_physical_closure(host) == host.state \in {"WARM", "STARTING"} /\ host.used

\* Mutant: a warm host that has run is fenced like an idle one.
FenceAnything(host) ==
    IF host.state = "STARTING" /\ (host.used \/ host.binding = NoBinding)
    THEN "transition" ELSE "none"

\* Why an idle host may not be fenced, if it may not.
fence_idle_incarnation(host) ==
    IF host.state = "WARM" /\ incarnation_requires_physical_closure(host)
    THEN "local"
    ELSE IF host.state = "STARTING" /\ (incarnation_requires_physical_closure(host)
                                        \/ host.binding = NoBinding)
    THEN "transition" ELSE "none"

Fresh(host) == host.state # "NONE" /\ host.binding = NoBinding /\ ~host.used

\* The host the claim commits to: the same one with the same provenance, a fresh one
\* adopted, or a new one in place of one that could be fenced.
resolve_incarnation(host, binding) ==
    IF host.binding = binding THEN host
    ELSE IF Fresh(host) THEN [host EXCEPT !.binding = binding]
    ELSE [state |-> "STARTING", binding |-> binding, used |-> FALSE]

HostRefusal(host, binding) ==
    IF host.state = "NONE" \/ host.binding = binding \/ Fresh(host) THEN "none"
    ELSE fence_idle_incarnation(host)

\* The durable facts again, under the lock.
Reproved(c, contract, t) ==
    LET p == SourceContent[ConfigContent[c].source].policy
    IN  /\ ConfigEligible(c, contract, t)
        /\ PolicyContent[p].kind = Target.kind
        /\ validate_attempt_isolation(Isolated(contract, Requirement[t].hard),
                                      Imported[p].safety.isolation)

\* Mutant: nothing relates the commit to the catalogue the winner was selected from.
FinishAnyFrontier(t, a, type, winner) ==
    CASE agents[a].state = "UNBORN" /\ catalog[type] # "PUBLISHED" -> "local"
      [] ~claim_task_ready(t) \/ agents[a].state \notin {"READY", "UNBORN"} -> "transition"
      [] ~Reproved(winner.config, Contract[type], t) -> "local"
      [] OTHER -> HostRefusal(hosts[a], [type |-> type, config |-> winner.config,
                                         digest |-> winner.digest])

\* Mutant: the agent is trusted to be as free as it was when it was matched.
FinishAnyAgent(t, a, type, winner) ==
    CASE agents[a].state = "UNBORN" /\ catalog[type] # "PUBLISHED" -> "local"
      [] ~claim_task_ready(t) -> "transition"
      [] active_catalog_frontier_digest # d.frontier -> "stale"
      [] ~Reproved(winner.config, Contract[type], t) -> "local"
      [] OTHER -> HostRefusal(hosts[a], [type |-> type, config |-> winner.config,
                                         digest |-> winner.digest])

\* A new agent is placed where the task is.
placement_matches(a, t) ==
    agents[a].state # "UNBORN" => placement_eligible(CandidateOf(a, t), Placement[t])

\* The refusals in the order of the code.  One for the task is deferred, one for the
\* candidate tries the next, and a catalogue that moved is fatal.
finish_acquisition(t, a, type, winner) ==
    CASE agents[a].state = "UNBORN" /\ catalog[type] # "PUBLISHED" -> "local"
      [] ~claim_task_ready(t) \/ agents[a].state \notin {"READY", "UNBORN"} -> "transition"
      [] is_cross_revision_of_pin(type, Requirement[t].type) \/ ~placement_matches(a, t) -> "local"
      [] ~can_execute(Contract[type], Requirement[t].hard) -> "local"
      [] active_catalog_frontier_digest # d.frontier -> "stale"
      [] ~Reproved(winner.config, Contract[type], t) -> "local"
      [] OTHER -> HostRefusal(hosts[a], [type |-> type, config |-> winner.config,
                                         digest |-> winner.digest])

Unborn == {a \in NewAgents : agents[a].state = "UNBORN"}

acquire_with(a, type, winner) ==
    LET t == d.task
        refusal == finish_acquisition(t, a, type, winner)
        n == tasks[t].number + 1
        binding == [type |-> type, config |-> winner.config, digest |-> winner.digest]
    IN  \/ /\ refusal = "none"
           /\ tasks' = [tasks EXCEPT ![t] = [state |-> "LEASED", number |-> n]]
           /\ attempts' = [attempts EXCEPT ![<<t, n>>] = Claimed(a)]
           /\ agents' = [agents EXCEPT ![a] =
                            [state |-> "ASSIGNED", type |-> type,
                             home |-> IF @.state = "UNBORN" THEN birth_agent(t) ELSE @.home]]
           /\ hosts' = [hosts EXCEPT ![a] = resolve_incarnation(@, binding)]
           /\ d' = [At("prepare") EXCEPT !.task = t, !.queue = d.queue]
           /\ UNCHANGED cooling
        \/ refusal = "local" /\ NextAgent /\ UNCHANGED store
        \/ refusal = "transition" /\ defer_or_fail_typed(t) /\ UNCHANGED store
        \/ refusal = "stale" /\ d' = At("failed") /\ UNCHANGED <<store, cooling>>

acquire_typed_task_existing ==
    /\ Selecting /\ d.agent # NoAgent
    /\ \E winner \in select_candidate(d.found) :
          acquire_with(d.agent, agents[d.agent].type, winner)
    /\ UNCHANGED <<catalog, changes>>

\* Bound: the agents that may still be born.  Where there is none left the task is
\* deferred, as it is when the new agent is refused.
acquire_typed_task_new_agent ==
    /\ Selecting /\ d.agent = NoAgent
    /\ \E winner \in select_candidate(d.found) :
          IF Unborn = {} THEN defer_or_fail_typed(d.task) /\ UNCHANGED store
          ELSE acquire_with(CHOOSE a \in Unborn : TRUE, Requirement[d.task].type, winner)
    /\ UNCHANGED <<catalog, changes>>

----------------------------------------------------------------------------
(* Preparing the winner, after the claim is committed *)

InHand == Current(d.task)

\* The budget of the preparation starts now; the claim must still be current.
prepare_winner ==
    /\ d.pc = "prepare"
    /\ \/ /\ validate_authority(InHand)
          /\ d' = [d EXCEPT !.pc = "preparing"]
          /\ UNCHANGED <<store, cooling>>
       \/ /\ ~validate_authority(InHand)
          /\ defer_or_fail_typed(d.task)
          /\ UNCHANGED store
    /\ UNCHANGED <<catalog, changes>>

\* The environment cannot be prepared in time, or no longer is the one that was
\* attested: the claim is settled as a lack of resources.
preparation_unavailable ==
    /\ d.pc \in {"prepare", "preparing"}
    /\ report_configuration_unavailable(InHand)
    /\ defer_or_fail_typed(d.task)
    /\ UNCHANGED <<catalog, changes>>

\* The integration answers with the committed digest; the claim must still be current.
finalize_preparation ==
    /\ d.pc = "preparing"
    /\ \/ /\ validate_authority(InHand)
          /\ d' = [d EXCEPT !.pc = "launch"]
          /\ UNCHANGED <<store, cooling>>
       \/ /\ ~validate_authority(InHand)
          /\ defer_or_fail_typed(d.task)
          /\ UNCHANGED store
    /\ UNCHANGED <<catalog, changes>>

\* A broken integration, or a launch that contradicts the commitment: the fault is on
\* record before the dispatch fails.
preparation_fault ==
    /\ d.pc \in {"preparing", "launch"}
    /\ record_fault(InHand)
    /\ d' = At("failed")
    /\ UNCHANGED <<catalog, changes, cooling>>

\* The adapter is gone or enforces less than it did.
launch_unavailable ==
    /\ d.pc = "launch"
    /\ report_configuration_unavailable(InHand)
    /\ d' = At("idle")
    /\ cooling' = [cooling EXCEPT !.tasks = @ \cup {d.task}]
    /\ UNCHANGED <<catalog, changes>>

create_execution_with_snapshot(id) ==
    /\ validate_authority(id)
    /\ attempts' = [attempts EXCEPT ![id].execution = "LIVE"]
    /\ tasks' = [tasks EXCEPT ![id[1]].state = "RUNNING"]
    /\ hosts' = [hosts EXCEPT ![attempts[id].agent].used = TRUE]
    /\ UNCHANGED agents

prepare_typed_execution_launch ==
    /\ d.pc = "launch"
    /\ \/ create_execution_with_snapshot(InHand) /\ d' = At("idle") /\ UNCHANGED cooling
       \/ /\ ~validate_authority(InHand)
          /\ d' = At("idle")
          /\ cooling' = [cooling EXCEPT !.tasks = @ \cup {d.task}]
          /\ UNCHANGED store
    /\ UNCHANGED <<catalog, changes>>

\* The outcome of the commit is not known: nothing is recorded either way.
commit_outcome_unknown ==
    /\ d.pc = "launch"
    /\ create_execution_with_snapshot(InHand) \/ UNCHANGED store
    /\ d' = At("failed")
    /\ UNCHANGED <<catalog, changes, cooling>>

----------------------------------------------------------------------------
(* The control cycle around the dispatch, and the end of the process *)

\* Mutant: expiry of a faulted claim is an ordinary lost claim.
ExpireAsLost(id) == RetryOrSuspend(id)

\* Neither a claim that ended with a fault nor a writer that may still run is retried
\* on its own.
ExpiresTo(id) ==
    IF attempts[id].fault \/ ~writer_is_safe_to_replace(id)
    THEN "SUSPENDED" ELSE RetryOrSuspend(id)

\* Mutant: tasks suspended by an older version are left as they are.
RestoreNothing(rows) == rows

\* Root is asked about a fault that suspended a task without asking.
restore_missing_escalations(rows) ==
    [id \in AttemptIds |->
        IF /\ rows[id].fault /\ rows[id].state = "CLOSED"
           /\ tasks[id[1]].state = "SUSPENDED" /\ id = Current(id[1])
        THEN [rows[id] EXCEPT !.asked = TRUE] ELSE rows[id]]

\* Mutant: only claims with an Execution are looked at.
DueIfStarted(recover_unstarted) ==
    {id \in AttemptIds : /\ attempts[id].state = "ACTIVE" /\ attempts[id].elapsed
                         /\ attempts[id].execution = "LIVE"}

\* Elapsed claims; at startup the unstarted ones too.
Due(recover_unstarted) ==
    {id \in AttemptIds : /\ attempts[id].state = "ACTIVE"
                         /\ attempts[id].elapsed
                              \/ (recover_unstarted /\ attempts[id].execution = "NONE")}

expire_leases(recover_unstarted) ==
    LET due == Due(recover_unstarted)
    IN  Close(restore_missing_escalations(attempts), due, [id \in due |-> ExpiresTo(id)],
              [id \in due |-> attempts[id].execution = "NONE"],
              {id \in due : ~writer_is_safe_to_replace(id)})

\* A cycle of the control thread expires leases before it dispatches.
Expire ==
    /\ d.pc = "idle"
    /\ expire_leases(FALSE)
    /\ d' = At("cycle")
    /\ UNCHANGED <<catalog, changes, cooling>>

promote_retry_wait(t) ==
    /\ d.pc = "cycle" /\ tasks[t].state = "RETRY_WAIT"
    /\ tasks' = [tasks EXCEPT ![t].state = "QUEUED"]
    /\ UNCHANGED <<catalog, changes, attempts, agents, hosts, d, cooling>>

Stopped == d.pc \in {"failed", "down"}

Crash ==
    /\ ~Stopped
    /\ d' = At("down")
    /\ UNCHANGED <<catalog, changes, store, cooling>>

\* A new process recovers unstarted claims before it dispatches, and has forgotten
\* what was cooling.
Restart ==
    /\ Stopped
    /\ expire_leases(TRUE)
    /\ d' = At("idle")
    /\ cooling' = [frontier |-> NoFrontier, tasks |-> {}]
    /\ UNCHANGED <<catalog, changes>>

----------------------------------------------------------------------------
(* The others *)

Elapse(id) ==
    /\ attempts[id].state = "ACTIVE" /\ ~attempts[id].elapsed
    /\ attempts' = [attempts EXCEPT ![id].elapsed = TRUE]
    /\ UNCHANGED <<catalog, changes, tasks, agents, hosts, d, cooling>>

\* An Execution succeeds, or fails and leaves its host reusable or not.  A writer that
\* nothing shows to be quiet suspends its task, whatever it reports.
ExecutionEnds(t) ==
    LET id == Current(t)
    IN  /\ Active(t) /\ attempts[id].execution = "LIVE" /\ ~attempts[id].elapsed
        /\ \/ \E goes \in {"COMPLETED", RetryOrSuspend(id)}, kept \in BOOLEAN :
                 CloseOne(id, goes, kept)
           \/ ~writer_is_safe_to_replace(id) /\ Quarantine(id, "SUSPENDED")
        /\ UNCHANGED <<catalog, changes, d, cooling>>

\* Root cancels, with a confirmation that the writer is quiet or without one.
cancel_task(t) ==
    LET id == Current(t)
    IN  /\ tasks[t].state \notin {"COMPLETED", "CANCELLED"}
        /\ IF Active(t)
           THEN \/ CloseOne(id, "CANCELLED", attempts[id].execution = "NONE")
                \/ ~writer_is_safe_to_replace(id) /\ Quarantine(id, "CANCELLED")
           ELSE /\ tasks' = [tasks EXCEPT ![t].state = "CANCELLED"]
                /\ UNCHANGED <<attempts, agents, hosts>>
        /\ UNCHANGED <<catalog, changes, d, cooling>>

\* The writer is accounted for: its agent retires, or waits for its revival.
prepare_agent_revival_after_safety(id) ==
    LET revived == IF release_agent(id[1]) = "READY" THEN "REVIVING" ELSE "RETIRED"
    IN  /\ agents' = [a \in AllAgents |->
                         IF a = attempts[id].agent /\ agents[a].state = "SUSPENDED"
                         THEN [agents[a] EXCEPT !.state = revived] ELSE agents[a]]
        /\ attempts' = [attempts EXCEPT ![id].agent = NoAgent]

\* Root decides, once it has been asked; about a writer, once it is known to be quiet.
resolve_retry(t) ==
    /\ tasks[t].state = "SUSPENDED" /\ attempts[Current(t)].asked
    /\ tasks[t].number < MaxAttempts
    /\ tasks' = [tasks EXCEPT ![t].state = "QUEUED"]
    /\ prepare_agent_revival_after_safety(Current(t))
    /\ UNCHANGED <<catalog, changes, hosts, d, cooling>>

release_cancelled_writer(t) ==
    /\ tasks[t].state = "CANCELLED" /\ tasks[t].number > 0
    /\ attempts[Current(t)].agent # NoAgent
    /\ prepare_agent_revival_after_safety(Current(t))
    /\ UNCHANGED <<catalog, changes, tasks, hosts, d, cooling>>

\* The control loop revives before it dispatches.
revive_agent(a) ==
    /\ d.pc = "cycle" /\ agents[a].state = "REVIVING"
    /\ agents' = [agents EXCEPT ![a].state = "READY"]
    /\ UNCHANGED <<catalog, changes, tasks, attempts, hosts, d, cooling>>

bind_logical_agent_type(a, ref) ==
    /\ agents[a].state = "READY" /\ agents[a].type = NoType
    /\ catalog[ref] = "PUBLISHED"
    /\ agents' = [agents EXCEPT ![a].type = ref]
    /\ UNCHANGED <<catalog, changes, tasks, attempts, hosts, d, cooling>>

\* The pool shrinks: an idle agent retires.
retire_logical_agent(a) ==
    /\ agents[a].state \in {"READY", "REVIVING"}
    /\ agents' = [agents EXCEPT ![a].state = "RETIRED"]
    /\ hosts' = [hosts EXCEPT ![a] = NoHost]
    /\ UNCHANGED <<catalog, changes, tasks, attempts, d, cooling>>

Operate ==
    /\ changes < MaxChanges
    /\ CatalogOperator
    /\ catalog' # catalog
    /\ changes' = changes + 1
    /\ UNCHANGED <<store, d, cooling>>

Dispatch ==
    \/ dispatch_typed_one
    \/ \E t \in Tasks : acquire_typed_task(t)
    \/ prepare_selection \/ list_sources
    \/ \E s \in Sources : attest_source(s) \/ attest_fatal(s)
    \/ no_eligible_source \/ selection_ambiguous
    \/ acquire_typed_task_existing \/ acquire_typed_task_new_agent
    \/ prepare_winner \/ preparation_unavailable \/ finalize_preparation
    \/ preparation_fault \/ launch_unavailable
    \/ prepare_typed_execution_launch \/ commit_outcome_unknown

Next ==
    \/ Dispatch \/ Expire \/ Crash \/ Restart \/ Operate
    \/ \E t \in Tasks : promote_retry_wait(t) \/ ExecutionEnds(t)
                        \/ cancel_task(t) \/ resolve_retry(t) \/ release_cancelled_writer(t)
    \/ \E id \in AttemptIds : Elapse(id)
    \/ \E a \in AllAgents : retire_logical_agent(a) \/ revive_agent(a)
                            \/ \E ref \in Types : bind_logical_agent_type(a, ref)

\* The control thread goes on unless its process has stopped: one of Dispatch and Expire
\* is always enabled, and both change d.  A daemon that stopped is started again, and
\* time passes.
Spec == Init /\ [][Next]_vars
        /\ ([]<>Stopped \/ []<><<TRUE>>_d)
        /\ WF_vars(Restart)
        /\ WF_vars(\E id \in AttemptIds : Elapse(id))

----------------------------------------------------------------------------
(* Properties *)

\* When a claim is committed (finish_acquisition), its configuration is the unique best of
\* those attested, and the attestation left out no configuration that is eligible at that
\* very moment: a publication that races the selection never loses to it.
BestOfTheCatalogue ==
    [][\A t \in Tasks : tasks'[t].number > tasks[t].number =>
          LET id == <<t, tasks'[t].number>>
              binding == hosts'[attempts'[id].agent].binding
          IN  /\ \A s \in list_active_spawn_source_refs :
                    enumerate_candidates(s, Contract[binding.type], t) \subseteq d.seen
              /\ \A x \in d.found : x.config # binding.config =>
                    continuity_rank(x.config) < continuity_rank(binding.config)]_vars

\* What a claim commits to holds the task to its own restrictions, and not only to those
\* of the type that its agent is bound to (can_provision_task joins the two).
RestrictionsHold ==
    [][\A t \in Tasks : tasks'[t].number > tasks[t].number =>
          ProvesTheTask(hosts'[attempts'[<<t, tasks'[t].number>>].agent].binding.config,
                        Requirement[t].hard)]_vars

EligibleNow == [t \in Tasks |-> [ref \in Types |->
    UNION {enumerate_candidates(s, Contract[ref], t) : s \in list_active_spawn_source_refs}]]

\* The frontier is a faithful fingerprint: while active_catalog_frontier_digest is the
\* same, so is the set of configurations that any task could be provisioned from.  The
\* fence of the commit and the reset of the cooldowns both rest on it.
FrontierDecides ==
    [][/\ catalog' # catalog
       /\ active_catalog_frontier_digest' = active_catalog_frontier_digest
       => EligibleNow' = EligibleNow]_vars

\* A host that has run keeps the provenance it was provisioned under until it is closed:
\* acquisition never puts another configuration in its place (fence_idle_incarnation), for
\* nothing says that what it started has stopped.
HostKeepsItsProvenance ==
    [][\A a \in AllAgents : incarnation_requires_physical_closure(hosts[a]) =>
          \/ hosts'[a] = NoHost
          \/ hosts'[a].binding = hosts[a].binding /\ hosts'[a].used]_vars

\* An agent that was retired is never given work again, and a claim never loses its agent
\* while it is active: whatever the pool does between the match, the attestations, the
\* commit (finish_acquisition) and the release.
RetiredForGood ==
    [][/\ \A a \in AllAgents : agents[a].state = "RETIRED" => agents'[a].state = "RETIRED"
       /\ \A t \in Tasks : (Active(t) /\ Active(t)') =>
             agents'[attempts'[Current(t)].agent].state = "ASSIGNED"]_vars

Unstarted(t) == Active(t) /\ attempts[Current(t)].execution = "NONE"

\* Every committed claim is settled: it gets its Execution, or it is closed, whatever the
\* preparation, the lease, the commit and the process did.
AcquisitionSettles == \A t \in Tasks : Unstarted(t) ~> ~Unstarted(t)

\* No claim follows one with a recorded fault unless Root was asked about it, and once a
\* process has begun a cycle no task is suspended over a fault that Root was not asked
\* about, the ones that an older version left included (expire_leases,
\* restore_missing_escalations).
FaultReachesRoot ==
    \A id \in AttemptIds : attempts[id].fault /\ ~attempts[id].asked =>
        /\ tasks[id[1]].number = id[2]
        /\ tasks[id[1]].state = "SUSPENDED" => d.pc \in {"idle", "down", "failed"}

=============================================================================
