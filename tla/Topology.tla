------------------------------ MODULE Topology ------------------------------
(***************************************************************************)
(* The pool topology: partitions that are created, resized, moved between, *)
(* merged and retired while their agents work, and the two boundaries at   *)
(* which a staged move takes effect, releasing an agent and reviving one.  *)
(* Every operation is one BEGIN IMMEDIATE transaction of kernel.rs, so it  *)
(* is one action; an operation the code refuses rolls back and is no step. *)
(* Work itself is coarse here (Kernel has it in full): an agent with a     *)
(* task has the one ACTIVE attempt, and an attempt ends in a release, or   *)
(* in the quarantine of a writer that may still run.                       *)
(***************************************************************************)
EXTENDS Integers, FiniteSets, FiniteSetsExt

CONSTANTS
    Partitions,     \* names of pool partitions
    Agents,         \* ids of logical agents; births take unused ones
    Tasks,          \* ids of tasks
    Configured,     \* the partitions that exist at the start, empty
    Target,         \* the execution target each partition is created with
    Ephemeral,      \* the partitions created with retention 'ephemeral'
    Typed,          \* the tasks whose agent_requirement_mode is TYPED
    MaxCapacity,    \* bound on the desired capacities of all partitions together
    None            \* SQL NULL

ASSUME TopologyAssumption ==
    /\ MaxCapacity \in Nat
    /\ Configured \subseteq Partitions /\ Ephemeral \subseteq Partitions
    /\ Typed \subseteq Tasks
    /\ None \notin Partitions \cup Tasks
    /\ \A p \in Partitions : Target[p] # None

VARIABLES
    partition,      \* pool_partitions
    agent,          \* logical_agents, with the live incarnation of each
    task,           \* tasks
    obligation,     \* the task whose OPEN WRITER_QUIESCENCE_UNKNOWN names the agent
    listed          \* candidates of a revive_eligible_agents pass under way

vars == <<partition, agent, task, obligation, listed>>

Targets == {Target[p] : p \in Partitions}

\* A live incarnation: its target, whether a ProvisioningBinding covers it, and
\* whether an Execution ever ran in it (`incarnation_is_fresh` is its negation).
Host == [target : Targets, provisioned : BOOLEAN, used : BOOLEAN]

\* No incarnation is NULL.
ASSUME NullAssumption == None \notin Host

\* `executing` tells whether the attempt has an Execution; `loose` is the target
\* of a STARTING, RUNNING or UNKNOWN row of an unquiescent writer left behind.
AgentRow ==
    [state : {"unborn", "READY", "ASSIGNED", "DRAINING", "SUSPENDED", "REVIVING", "RETIRED"},
     partition : Partitions \cup {None}, pending : Partitions \cup {None},
     retiring : BOOLEAN, task : Tasks \cup {None}, bound : BOOLEAN,
     host : Host \cup {None}, executing : BOOLEAN, loose : Targets \cup {None}]

Unborn == [state |-> "unborn", partition |-> None, pending |-> None, retiring |-> FALSE,
           task |-> None, bound |-> FALSE, host |-> None, executing |-> FALSE, loose |-> None]

\* The tables keep their types.
TypeOK ==
    /\ partition \in [Partitions -> [made : BOOLEAN, active : BOOLEAN,
                                     capacity : Nat,
                                     into : Partitions \cup {None}]]
    /\ agent \in [Agents -> AgentRow]
    /\ task \in [Tasks -> [state : {"unknown", "QUEUED", "LEASED", "SUSPENDED", "ended"},
                           partition : Partitions \cup {None}]]
    /\ obligation \in [Agents -> Tasks \cup {None}]
    /\ DOMAIN listed \subseteq Agents
    /\ \A a \in DOMAIN listed : listed[a] \in Targets

Init ==
    /\ partition = [p \in Partitions |->
                       [made |-> p \in Configured, active |-> p \in Configured,
                        capacity |-> 0, into |-> None]]
    /\ agent = [a \in Agents |-> Unborn]
    /\ task = [t \in Tasks |-> [state |-> "unknown", partition |-> None]]
    /\ obligation = [a \in Agents |-> None]
    /\ listed = << >>

Active == {p \in Partitions : partition[p].active}
Open(t) == task[t].state \in {"QUEUED", "LEASED", "SUSPENDED"}

-----------------------------------------------------------------------------
(* Where an agent goes.                                                      *)

\* `COALESCE(pending_partition_name, partition_name)`.
Desired(row) == IF row.pending = None THEN row.partition ELSE row.pending

\* Where `merged_into` leads from name: the least set with name in it and, for each
\* of its partitions that is not active, the one that it was merged into.
FollowMerges(name) ==
    {p \in Partitions :
        \A visited \in SUBSET Partitions :
            /\ name \in visited
            /\ \A q \in visited : ~partition[q].active =>
                                   partition[q].into \in visited \cup {None}
            => p \in visited}

\* The active partition at the end of the merges; a retired one, or a cycle, is an
\* error, here None.
canonical_partition(name) ==
    IF name \in Active THEN name
    ELSE LET live == FollowMerges(name) \cap Active
         IN  IF live = {} THEN None ELSE CHOOSE p \in live : TRUE

\* Mutant: a host counts as closed once its Execution ended.
ClosedWithItsExecution(row, target) ==
    row.host # None /\ row.host.target # target /\ row.host.provisioned /\ row.executing

\* A provisioned host that ran something may not be given up for another target.
cross_target_provisioned_host_requires_closure(row, target) ==
    row.host # None /\ row.host.target # target /\ row.host.provisioned /\ row.host.used

unsafe_cross_target_execution(row, target) ==
    \/ cross_target_provisioned_host_requires_closure(row, target)
    \/ row.loose \notin {None, target}

\* `partition_cutover_plan`: an agent with a task has an ACTIVE attempt, except
\* inside the release that has just closed it.
partition_cutover_plan(row, attempt, target) ==
    IF attempt THEN "drain"
    ELSE IF ~unsafe_cross_target_execution(row, target) THEN "commit"
    ELSE IF row.state = "SUSPENDED" /\ row.task = None THEN "stage" ELSE "reject"

\* The row after a committed cutover to the active partition p: incarnations on
\* other targets are LOST.
CutOver(row, p) ==
    [row EXCEPT !.partition = p, !.pending = None, !.retiring = FALSE,
                !.host = IF @ # None /\ @.target # Target[p] THEN None ELSE @]

\* No operation looks at the other columns of a RETIRED row again.
retire_logical_agent(row) == [Unborn EXCEPT !.state = "RETIRED"]

\* What `request_partition_cutover` does to the row of an agent, and when it is
\* refused.
CanRequest(row, name) ==
    LET p == canonical_partition(name)
    IN  p # None /\ partition_cutover_plan(row, row.task # None, Target[p]) \in {"commit", "stage"}

request_partition_cutover(row, name) ==
    LET p == canonical_partition(name)
    IN  IF partition_cutover_plan(row, row.task # None, Target[p]) = "stage"
        THEN [row EXCEPT !.pending = p]
        ELSE CutOver(row, p)

\* `release_agent`, in a transaction that has closed the agent's attempt.  A
\* provisioned host that a staged move would abandon keeps its agent SUSPENDED.
CanRelease(row) ==
    row.retiring \/ LET p == canonical_partition(Desired(row))
                    IN  /\ p # None
                        /\ \/ cross_target_provisioned_host_requires_closure(row, Target[p])
                           \/ partition_cutover_plan(row, FALSE, Target[p]) = "commit"

release_agent(row) ==
    LET p == canonical_partition(Desired(row))
    IN  IF row.retiring THEN retire_logical_agent(row)
        ELSE IF cross_target_provisioned_host_requires_closure(row, Target[p])
        THEN [row EXCEPT !.state = "SUSPENDED", !.task = None, !.pending = p, !.executing = FALSE]
        ELSE IF p \in Ephemeral THEN retire_logical_agent(CutOver(row, p))
        ELSE [CutOver(row, p) EXCEPT !.state = "READY", !.task = None, !.executing = FALSE]

\* `prepare_agent_revival_after_safety`: the destination must resolve before the
\* disposition is even computed; a release that ends READY is held at REVIVING.
CanPrepareRevival(row) == canonical_partition(Desired(row)) # None /\ CanRelease(row)

prepare_agent_revival_after_safety(row) ==
    LET released == release_agent(row)
    IN  IF released.state = "READY" THEN [released EXCEPT !.state = "REVIVING"] ELSE released

birth_agent(p, bound) == [Unborn EXCEPT !.state = "READY", !.partition = p, !.bound = bound]

\* The task row after a change of state; where an ended task was is not read again.
Put(k, next) == [state |-> next, partition |-> IF next = "ended" THEN None ELSE task[k].partition]

-----------------------------------------------------------------------------
(* Operations on the topology.                                               *)

\* What the partitions other than p ask for together.
Others(p) == MapThenSumSet(LAMBDA q : partition[q].capacity, Partitions \ {p})

\* A new name; an existing partition is never reactivated, resized or redefined
\* by an upsert, so it is either left as it is or the call is refused.
upsert_partition(p, capacity) ==
    /\ ~partition[p].made /\ Others(p) + capacity <= MaxCapacity
    /\ partition' = [partition EXCEPT ![p] = [made |-> TRUE, active |-> TRUE,
                                              capacity |-> capacity, into |-> None]]
    /\ UNCHANGED <<agent, task, obligation, listed>>

resize_partition(p, capacity) ==
    /\ p \in Active /\ partition[p].capacity # capacity
    /\ Others(p) + capacity <= MaxCapacity
    /\ partition' = [partition EXCEPT ![p].capacity = capacity]
    /\ UNCHANGED <<agent, task, obligation, listed>>

\* The agents a reconciliation counts for p, given the rows.  A typed agent is
\* no V0.1 capacity, a retiring one is on its way out, a SUSPENDED one is absent.
Members(rows, p) ==
    {a \in Agents : /\ Desired(rows[a]) = p
                    /\ rows[a].state \in {"READY", "ASSIGNED", "DRAINING", "REVIVING"}
                    /\ ~(rows[a].state = "DRAINING" /\ rows[a].retiring)
                    /\ ~rows[a].bound}

\* Unassigned members go first, READY ones before the others; ids are random, so
\* among equals it is any of them.
excess_rank_key(row) ==
    (IF row.task # None THEN 2 ELSE 0) + (IF row.state # "READY" THEN 1 ELSE 0)

\* The k first of the members in some order that respects the rank.
FirstBy(rank, members, k) ==
    {chosen \in kSubset(k, members) :
        \A a \in chosen, b \in members \ chosen : rank[a] <= rank[b]}

\* Mutant: a reviving agent is drained like a working one.
DrainReviving(row) ==
    IF row.task = None /\ row.state = "READY" THEN retire_logical_agent(row)
    ELSE [row EXCEPT !.state = "DRAINING", !.retiring = TRUE]

excess_disposition(row) ==
    IF row.task = None /\ row.state \in {"READY", "REVIVING"} THEN retire_logical_agent(row)
    ELSE [row EXCEPT !.state = "DRAINING", !.retiring = TRUE]

\* Idle drains are released, then every active partition is brought to its
\* desired capacity.  Enabled while there are ids left for the births.
reconcile_pool ==
    LET idle == {a \in Agents : /\ agent[a].state = "DRAINING" /\ agent[a].task = None
                                /\ agent[a].pending # None /\ ~agent[a].retiring}
        rows == [a \in Agents |-> IF a \in idle THEN release_agent(agent[a]) ELSE agent[a]]
        rank == [a \in Agents |-> excess_rank_key(rows[a])]
        Excess(p) == Cardinality(Members(rows, p)) - partition[p].capacity
    IN  /\ \A a \in idle : CanRelease(agent[a])
        /\ \E surplus \in SUBSET UNION {Members(rows, p) : p \in Active},
              home \in [{a \in Agents : rows[a].state = "unborn"} -> Active \cup {None}] :
             /\ \A p \in Active :
                   /\ Cardinality({a \in DOMAIN home : home[a] = p}) = Max({0, -Excess(p)})
                   /\ surplus \cap Members(rows, p) \in
                         FirstBy(rank, Members(rows, p), Max({0, Excess(p)}))
             /\ agent' = [a \in Agents |->
                   IF a \in DOMAIN home /\ home[a] # None THEN birth_agent(home[a], FALSE)
                   ELSE IF a \in surplus THEN excess_disposition(rows[a])
                   ELSE rows[a]]
        /\ UNCHANGED <<partition, task, obligation, listed>>

move_rank_key(row) == IF row.state = "READY" /\ row.task = None THEN 0 ELSE 1

\* `plan_move_cutover`: a member with a task is drained towards the target, any
\* other is cut over now.
CanMove(row, t) == row.task # None \/ row.state = "ASSIGNED" \/ CanRequest(row, t)

Moved(row, t) ==
    IF row.task # None \/ row.state = "ASSIGNED"
    THEN [row EXCEPT !.state = "DRAINING", !.pending = t]
    ELSE LET cut == request_partition_cutover(row, t)
         IN  IF row.state = "DRAINING" THEN [cut EXCEPT !.state = "READY"] ELSE cut

move_capacity(s, t, count) ==
    LET members == {a \in Agents :
                       /\ Desired(agent[a]) = s
                       /\ agent[a].state \in {"READY", "ASSIGNED", "DRAINING", "REVIVING", "SUSPENDED"}
                       /\ ~agent[a].retiring /\ ~agent[a].bound}
        rank == [a \in Agents |-> move_rank_key(agent[a])]
    IN  /\ s # t /\ {s, t} \subseteq Active
        /\ count > 0 /\ count <= partition[s].capacity
        /\ partition' = [partition EXCEPT ![s].capacity = @ - count, ![t].capacity = @ + count]
        /\ \E chosen \in FirstBy(rank, members, Min({count, Cardinality(members)})) :
             /\ \A a \in chosen : CanMove(agent[a], t)
             /\ agent' = [a \in Agents |-> IF a \in chosen THEN Moved(agent[a], t) ELSE agent[a]]
        /\ UNCHANGED <<task, obligation, listed>>

\* Agents of a merged partition that hold nothing are cut over at once.
Immediate(row, s) ==
    /\ row.partition = s
    /\ row.state \in {"READY", "REVIVING"} \/ (row.state = "DRAINING" /\ row.task = None)

Redirected(row, s, t) == IF row.pending = s /\ row.state # "RETIRED" THEN [row EXCEPT !.pending = t] ELSE row
Towards(row, t) == IF row.pending = None THEN t ELSE row.pending

CanMerge(old, s, t) ==
    LET row == Redirected(old, s, t)
        sent == canonical_partition(Towards(row, t))
    IN  /\ (row.partition = s \/ old.pending = s) /\ row.state # "RETIRED" =>
              sent # None /\ ~cross_target_provisioned_host_requires_closure(row, Target[sent])
        /\ Immediate(row, s) /\ row.state # "DRAINING" => CanRequest(row, Towards(row, t))
        /\ Immediate(row, s) /\ row.state = "DRAINING" =>
              CanRelease([row EXCEPT !.pending = Towards(row, t)])

\* The row of an agent after `merge_partitions`.
Merged(old, s, t) ==
    LET row == Redirected(old, s, t)
        sent == IF ~Immediate(row, s) THEN row
                ELSE IF row.state = "DRAINING" THEN release_agent([row EXCEPT !.pending = Towards(row, t)])
                ELSE request_partition_cutover(row, Towards(row, t))
    IN  IF sent.partition = s /\ sent.state \in {"ASSIGNED", "DRAINING", "SUSPENDED"} /\ sent.pending = None
        THEN [sent EXCEPT !.pending = t] ELSE sent

\* Mutant: only the claimable tasks follow the merge.
MergeQueuedOnly(s, t) ==
    /\ s # t /\ {s, t} \subseteq Active
    /\ \A a \in Agents : CanMerge(agent[a], s, t)
    /\ agent' = [a \in Agents |-> Merged(agent[a], s, t)]
    /\ task' = [k \in Tasks |-> IF task[k].state = "QUEUED" /\ task[k].partition = s
                                THEN [task[k] EXCEPT !.partition = t] ELSE task[k]]
    /\ partition' = [partition EXCEPT
                        ![s] = [@ EXCEPT !.active = FALSE, !.capacity = 0, !.into = t],
                        ![t].capacity = @ + partition[s].capacity]
    /\ UNCHANGED <<obligation, listed>>

merge_partitions(s, t) ==
    /\ s # t /\ {s, t} \subseteq Active
    /\ \A a \in Agents : CanMerge(agent[a], s, t)
    /\ agent' = [a \in Agents |-> Merged(agent[a], s, t)]
    /\ task' = [k \in Tasks |-> IF Open(k) /\ task[k].partition = s
                                THEN [task[k] EXCEPT !.partition = t] ELSE task[k]]
    /\ partition' = [partition EXCEPT
                        ![s] = [@ EXCEPT !.active = FALSE, !.capacity = 0, !.into = t],
                        ![t].capacity = @ + partition[s].capacity]
    /\ UNCHANGED <<obligation, listed>>

\* An agent of the retired partition with a staged move takes it if it holds no
\* task; then one with nothing staged retires, now or when its task ends.
Departing(row, p) ==
    row.partition = p /\ row.pending # None /\ row.task = None /\ row.state # "RETIRED"

CanDepart(row) == IF row.state = "DRAINING" THEN CanRelease(row) ELSE CanRequest(row, row.pending)

Departed(row, p) ==
    LET gone == IF ~Departing(row, p) THEN row
                ELSE IF row.state = "DRAINING" THEN release_agent(row)
                ELSE request_partition_cutover(row, row.pending)
    IN  IF gone.partition # p \/ gone.pending # None THEN gone
        ELSE IF gone.state \in {"READY", "SUSPENDED", "REVIVING"} THEN retire_logical_agent(gone)
        ELSE IF gone.state = "ASSIGNED" THEN [gone EXCEPT !.state = "DRAINING", !.retiring = TRUE]
        ELSE gone

\* Mutant: agents on their way to the partition are not looked for.
RetireDespitePending(p) ==
    /\ p \in Active
    /\ \A k \in Tasks : Open(k) => task[k].partition # p
    /\ \A a \in Agents : agent[a].state # "RETIRED" /\ agent[a].partition = p => obligation[a] = None
    /\ \A a \in Agents : Departing(agent[a], p) => CanDepart(agent[a])
    /\ agent' = [a \in Agents |-> Departed(agent[a], p)]
    /\ partition' = [partition EXCEPT ![p].active = FALSE, ![p].capacity = 0]
    /\ UNCHANGED <<task, obligation, listed>>

retire_partition(p) ==
    /\ p \in Active
    /\ \A k \in Tasks : Open(k) => task[k].partition # p
    /\ \A a \in Agents : agent[a].state # "RETIRED" =>
          agent[a].pending # p /\ (agent[a].partition = p => obligation[a] = None)
    /\ \A a \in Agents : Departing(agent[a], p) => CanDepart(agent[a])
    /\ agent' = [a \in Agents |-> Departed(agent[a], p)]
    /\ partition' = [partition EXCEPT ![p].active = FALSE, ![p].capacity = 0]
    /\ UNCHANGED <<task, obligation, listed>>

-----------------------------------------------------------------------------
(* Work, as far as the topology meets it.                                    *)

submit_batch(k, p) ==
    /\ task[k].state = "unknown" /\ p \in Active
    /\ task' = [task EXCEPT ![k] = [state |-> "QUEUED", partition |-> p]]
    /\ UNCHANGED <<partition, agent, obligation, listed>>

Claimable(k) == task[k].state = "QUEUED" /\ task[k].partition \in Active

\* `claim_selected`: the attempt freezes the target of the task's partition,
\* which is the agent's.
Claim(k, a, row) ==
    /\ task' = [task EXCEPT ![k].state = "LEASED"]
    /\ agent' = [agent EXCEPT ![a] = [row EXCEPT !.state = "ASSIGNED", !.task = k]]
    /\ UNCHANGED <<partition, obligation, listed>>

claim_next(k, a) ==
    /\ k \notin Typed /\ Claimable(k)
    /\ agent[a].state = "READY" /\ ~agent[a].bound /\ agent[a].partition = task[k].partition
    /\ Claim(k, a, agent[a])

\* An operator may type any idle agent, once.
bind_logical_agent_type(a) ==
    /\ agent[a].state = "READY" /\ agent[a].task = None /\ ~agent[a].bound
    /\ agent' = [agent EXCEPT ![a].bound = TRUE]
    /\ UNCHANGED <<partition, task, obligation, listed>>

\* `resolve_incarnation` for an acquisition on target: a fresh reservation is
\* made, adopted or rolled over; a host that ran something is reused when its
\* provenance qualifies and is otherwise refused.
Reserved(host, target) ==
    IF host # None /\ host.used THEN host
    ELSE [target |-> target, provisioned |-> TRUE, used |-> FALSE]

acquire_typed_task_existing(k, a) ==
    /\ k \in Typed /\ Claimable(k)
    /\ agent[a].state = "READY" /\ agent[a].bound /\ agent[a].partition = task[k].partition
    /\ agent[a].host # None =>
          /\ agent[a].host.target = Target[task[k].partition]
          /\ agent[a].host.used => agent[a].host.provisioned
    /\ Claim(k, a, [agent[a] EXCEPT !.host = Reserved(@, Target[task[k].partition])])

acquire_typed_task_new_agent(k, a) ==
    /\ k \in Typed /\ Claimable(k)
    /\ agent[a].state = "unborn"
    /\ Claim(k, a, [birth_agent(task[k].partition, TRUE)
                    EXCEPT !.host = Reserved(None, Target[task[k].partition])])

\* `ensure_incarnation` refuses an agent that still lives on another target.
CanStart(row) == row.host # None => row.host.target = Target[row.partition]

create_execution(a) ==
    /\ agent[a].task # None /\ ~agent[a].executing /\ CanStart(agent[a])
    /\ agent' = [agent EXCEPT ![a].executing = TRUE,
                              ![a].host = [target |-> Target[agent[a].partition],
                                           provisioned |-> @ # None /\ @.provisioned,
                                           used |-> TRUE]]
    /\ UNCHANGED <<partition, task, obligation, listed>>

\* What the end of an attempt may leave of the host: without an Execution it is
\* untouched, with one it stays WARM when reusable and is fenced otherwise.
HostsAfter(row) == IF row.executing THEN {row.host, None} ELSE {row.host}

\* An ACK, a NACK, a cancellation or an expiry that leaves no writer in doubt: the
\* task ends, or is queued again by retry or by Root, and the agent is released.
EndAttempt(a, next) ==
    /\ agent[a].task # None
    /\ \E host \in HostsAfter(agent[a]) :
          LET row == [agent[a] EXCEPT !.host = host]
          IN  CanRelease(row) /\ agent' = [agent EXCEPT ![a] = release_agent(row)]
    /\ task' = [task EXCEPT ![agent[a].task] = Put(agent[a].task, next)]
    /\ UNCHANGED <<partition, obligation, listed>>

\* The same ends when the writer may still run: `suspend_current`, or the
\* cancellation of such a writer, quarantines the agent where it stands.
suspend_current(a, next) ==
    /\ agent[a].task # None /\ agent[a].executing
    /\ obligation[a] = None
    /\ \E loose \in {None, agent[a].host.target} :
          agent' = [agent EXCEPT ![a] = [@ EXCEPT !.state = "SUSPENDED", !.task = None,
                                                  !.executing = FALSE, !.host = None,
                                                  !.loose = loose]]
    /\ task' = [task EXCEPT ![agent[a].task] = Put(agent[a].task, next)]
    /\ obligation' = [obligation EXCEPT ![a] = agent[a].task]
    /\ UNCHANGED <<partition, listed>>

\* A task nobody works on is cancelled at once; the obligation of its writer stays.
cancel_task(k) ==
    /\ task[k].state \in {"QUEUED", "SUSPENDED"}
    /\ task' = [task EXCEPT ![k] = Put(k, "ended")]
    /\ UNCHANGED <<partition, agent, obligation, listed>>

\* Root confirms that the writer stopped: its row is TERMINATED, its agent is
\* prepared for revival and its task, unless cancelled, is queued or cancelled.
resolve_escalation(a, next) ==
    LET k == obligation[a]
        row == [agent[a] EXCEPT !.loose = None]
    IN  /\ k # None /\ CanPrepareRevival(row)
        /\ agent' = [agent EXCEPT ![a] = prepare_agent_revival_after_safety(row)]
        /\ obligation' = [obligation EXCEPT ![a] = None]
        /\ task' = IF task[k].state = "SUSPENDED" THEN [task EXCEPT ![k] = Put(k, next)] ELSE task
        /\ UNCHANGED <<partition, listed>>

\* `revive_eligible_agents` lists the candidates with their targets, outside any
\* transaction, and then revives them one transaction at a time.
ListRevivable ==
    LET found == {a \in Agents : agent[a].state = "REVIVING" /\ agent[a].partition \in Active}
    IN  /\ listed = << >> /\ found # {}
        /\ listed' = [a \in found |-> Target[agent[a].partition]]
        /\ UNCHANGED <<partition, agent, task, obligation>>

CanRevive(a, target) ==
    /\ agent[a].state # "RETIRED" /\ obligation[a] = None /\ agent[a].task = None
    /\ agent[a].partition \in Active /\ Target[agent[a].partition] = target

revive_agent(a) ==
    /\ a \in DOMAIN listed /\ CanRevive(a, listed[a])
    /\ agent' = [agent EXCEPT ![a].state = "READY"]
    /\ listed' = [b \in DOMAIN listed \ {a} |-> listed[b]]
    /\ UNCHANGED <<partition, task, obligation>>

\* The candidate changed since it was listed: the pass ends with the error.
ReviveRefused(a) ==
    /\ a \in DOMAIN listed /\ ~CanRevive(a, listed[a])
    /\ listed' = << >>
    /\ UNCHANGED <<partition, agent, task, obligation>>

Next ==
    \/ \E p \in Partitions, n \in 0 .. MaxCapacity : upsert_partition(p, n) \/ resize_partition(p, n)
    \/ reconcile_pool
    \/ \E s, t \in Partitions : \/ \E n \in 1 .. MaxCapacity : move_capacity(s, t, n)
                                \/ merge_partitions(s, t)
    \/ \E p \in Partitions : retire_partition(p) \/ \E k \in Tasks : submit_batch(k, p)
    \/ \E k \in Tasks, a \in Agents : \/ claim_next(k, a)
                                      \/ acquire_typed_task_existing(k, a)
                                      \/ acquire_typed_task_new_agent(k, a)
    \/ \E a \in Agents : \/ bind_logical_agent_type(a)
                         \/ create_execution(a)
                         \/ \E next \in {"QUEUED", "ended"} : EndAttempt(a, next)
                         \/ \E next \in {"ended", "SUSPENDED"} : suspend_current(a, next)
                         \/ \E next \in {"QUEUED", "ended"} : resolve_escalation(a, next)
                         \/ revive_agent(a)
                         \/ ReviveRefused(a)
    \/ \E k \in Tasks : cancel_task(k)
    \/ ListRevivable

Spec == Init /\ [][Next]_vars

-----------------------------------------------------------------------------
(* Properties.                                                               *)

\* No sequence of moves, merges and retirements leaves an agent that cannot be
\* let go of: whatever its attempt leaves of its host, release_agent accepts a
\* working agent, so a topology command never makes an ACK, a NACK, a
\* cancellation or an expiry fail; and the agent behind a writer obligation can
\* be prepared for revival, so the obligation can be discharged.
ReleaseNeverRefused ==
    \A a \in Agents :
        /\ agent[a].task # None =>
              \A host \in HostsAfter(agent[a]) : CanRelease([agent[a] EXCEPT !.host = host])
        /\ obligation[a] # None => CanPrepareRevival([agent[a] EXCEPT !.loose = None])

\* Work can be taken up: an open task is in an active partition, the only ones claim_next
\* and the acquisitions look into; an agent that may be claimed stands in an active
\* partition with no move and no retirement staged; and one that is claimed but not
\* started lives on no other target than the one its attempt froze, so that
\* create_execution is never refused by ensure_incarnation.
WorkIsPlaced ==
    /\ \A k \in Tasks : Open(k) => task[k].partition \in Active
    /\ \A a \in Agents :
          /\ agent[a].state \in {"READY", "REVIVING"} =>
                /\ agent[a].partition \in Active
                /\ agent[a].pending = None /\ ~agent[a].retiring
          /\ agent[a].state \in {"READY", "REVIVING", "ASSIGNED", "DRAINING"} =>
                CanStart(agent[a])

\* DRAINING is the state of an agent that still works: it has a task, and it knows where
\* it goes or that it retires.  So the hand-offs for idle DRAINING agents in
\* reconcile_pool, merge_partitions and retire_partition are never needed, an agent is
\* SUSPENDED only for a writer obligation or for a provisioned host that its staged move
\* would abandon, and a requested retirement is carried out: later moves and merges do
\* not cancel it, although a committed cutover clears retirement_requested.
NobodyIsStuck ==
    /\ [](\A a \in Agents :
             /\ agent[a].state = "DRAINING" =>
                   agent[a].task # None /\ (agent[a].pending # None \/ agent[a].retiring)
             /\ agent[a].state = "SUSPENDED" /\ obligation[a] = None =>
                   agent[a].pending # None /\ agent[a].host # None /\ agent[a].host.used)
    /\ [][\A a \in Agents :
             agent[a].retiring => agent'[a].retiring \/ agent'[a].state = "RETIRED"]_vars

\* A provisioned host that ran something is never abandoned to change targets:
\* it goes with the end of the attempt that used it, or with its agent.
HostNeverAbandoned ==
    [][\A a \in Agents :
          (agent[a].host # None /\ agent[a].host.provisioned /\ agent[a].host.used) =>
             \/ agent'[a].host = agent[a].host
             \/ agent[a].executing /\ ~agent'[a].executing
             \/ agent'[a].state = "RETIRED"]_vars
=============================================================================
