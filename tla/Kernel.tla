------------------------------- MODULE Kernel -------------------------------
(***************************************************************************)
(* The durable scheduler kernel (agentype-storage-sqlite, with the pure    *)
(* decisions of agentype-core): Tasks, Attempts, Leases, Executions,       *)
(* Incarnations, LogicalAgents, Batches, Escalations and Results.          *)
(*                                                                         *)
(* Every kernel operation is one BEGIN IMMEDIATE transaction, so it is one *)
(* action here.  A variable is a table and a value of its function a row.  *)
(* An operation that returns an error rolls back: it is simply disabled.   *)
(* The callers (dispatcher, observer, recovery, worker ACK, host control)  *)
(* are arbitrary: any operation may be called at any moment with any       *)
(* argument, except that nobody claims that an execution is quiescent      *)
(* before it is (the variable physical is what is really running).         *)
(*                                                                         *)
(* The tasks are untyped (no AgentType requirement), and the pool is one   *)
(* active partition.  Preparation faults, which record_fault refuses for   *)
(* an untyped task, do not arise.                                          *)
(***************************************************************************)
EXTENDS Integers, FiniteSets

CONSTANTS
    Tasks, Batches, Agents,  \* identities
    NoTask, NoAgent,         \* SQL NULL in a task or agent column
    BatchOf, DependsOn,      \* tasks.batch_id and task_dependencies
    Writers,                 \* the tasks whose workspace_mode is 'write'
    FailureClass,            \* the failure classes a caller may report
    RetryClasses,            \* tasks.retry_classes_json
    MaxAttempts,             \* tasks.max_attempts
    Ephemeral,               \* whether the partition's retention is ephemeral
    MaxClaims,               \* bound: attempts per task
    MaxGenerations,          \* bound: incarnations per agent
    MaxCapacity,             \* bound: desired_capacity of the partition
    Observable               \* bound: the physical states an observation reports

WriterUnknown == "WRITER_QUIESCENCE_UNKNOWN"

ASSUME KernelAssumption ==
    /\ BatchOf \in [Tasks -> Batches]
    /\ DependsOn \in [Tasks -> SUBSET Tasks]
    /\ Writers \subseteq Tasks
    /\ {"EXECUTION_LOST", "RESOURCE_UNAVAILABLE"} \subseteq FailureClass
    /\ WriterUnknown \notin FailureClass
    /\ "NONE" \notin FailureClass
    /\ RetryClasses \in [Tasks -> SUBSET FailureClass]
    /\ MaxAttempts \in [Tasks -> Nat]
    /\ Ephemeral \in BOOLEAN
    /\ NoTask \notin Tasks
    /\ NoAgent \notin Agents
    /\ Observable \subseteq {"STARTING", "RUNNING", "SUCCEEDED", "FAILED", "LOST",
                             "UNKNOWN", "TERMINATED"}
    /\ MaxClaims \in Nat /\ MaxGenerations \in Nat /\ MaxCapacity \in Nat

VARIABLES
    tasks, attempts, leases, executions, incarnations, agents,
    batches, escalations, results,
    wakeups,    \* per batch, the BATCH_RESULTS_READY rows of the outbox
    decisions,  \* per task, the DECISION_REQUIRED rows of the outbox
    capacity,   \* pool_partitions.desired_capacity
    physical    \* what the process of an attempt really does

vars == <<tasks, attempts, leases, executions, incarnations, agents,
          batches, escalations, results, wakeups, decisions, capacity, physical>>

----------------------------------------------------------------------------
(* Rows *)

\* A claim numbers the attempt COUNT(*)+1 and fences it with fencing_epoch+1;
\* rows are never deleted, so <<task, epoch>> identifies the attempt, its lease
\* and its execution, and the epoch is also the attempt number.
AttemptIds == Tasks \X (1..MaxClaims)

\* An incarnation is identified by its agent and generation.
IncarnationIds == Agents \X (1..MaxGenerations)

TaskState == {"NONE", "BLOCKED", "QUEUED", "LEASED", "RUNNING", "RETRY_WAIT",
              "SUSPENDED", "COMPLETED", "CANCELLED"}
AttemptState == {"NONE", "ACTIVE", "SUCCEEDED", "FAILED", "EXPIRED", "CANCELLED"}
\* ELAPSED is a row still ACTIVE whose expires_at has passed.
LeaseState == {"NONE", "ACTIVE", "ELAPSED", "RELEASED", "EXPIRED", "REVOKED"}
ExecutionState == {"STARTING", "RUNNING", "SUCCEEDED", "FAILED", "LOST",
                   "UNKNOWN", "TERMINATED"}
IncarnationState == {"NONE", "STARTING", "WARM", "LOST", "TERMINATED"}
AgentState == {"NONE", "READY", "ASSIGNED", "DRAINING", "REVIVING", "SUSPENDED",
               "RETIRED"}
BatchState == {"NONE", "ACTIVE", "SUSPENDED", "COMPLETED", "CANCELLED"}
EscalationState == {"NONE", "OPEN", "RESOLVED", "CANCELLED"}
Cause == FailureClass \cup {WriterUnknown}

LiveExecution == {"STARTING", "RUNNING", "UNKNOWN"}
EndedExecution == {"SUCCEEDED", "FAILED", "TERMINATED"}
LiveIncarnation == {"STARTING", "WARM"}

\* classed: the row carries a failure_class.  Which one is told apart only where it
\* decides something, in the call that reports it.
NoExecution ==
    [state |-> "NONE", isolated |-> FALSE, terminal |-> FALSE, quiescent |-> FALSE,
     classed |-> FALSE]

Current(t) == <<t, tasks[t].current>>
Latest(t) == <<t, tasks[t].epoch>>
IncarnationOf(id) == <<attempts[id].agent, attempts[id].incarnation>>
TasksOf(b) == {t \in Tasks : BatchOf[t] = b}
HasExecution(id) == executions[id].state # "NONE"

TaskRow == [state : TaskState, current : 0..MaxClaims, epoch : 0..MaxClaims]
AttemptRow == [state : AttemptState, agent : Agents \cup {NoAgent},
               incarnation : 0..MaxGenerations]
ExecutionRow == [state : ExecutionState \cup {"NONE"}, isolated : BOOLEAN,
                 terminal : BOOLEAN, quiescent : BOOLEAN, classed : BOOLEAN]
AgentRow == [state : AgentState, task : Tasks \cup {NoTask}, retiring : BOOLEAN]
EscalationRow == [state : EscalationState, cause : Cause \cup {"NONE"},
                  agent : Agents \cup {NoAgent}]

TypeOK ==
    /\ tasks \in [Tasks -> TaskRow]
    /\ attempts \in [AttemptIds -> AttemptRow]
    /\ leases \in [AttemptIds -> LeaseState]
    /\ executions \in [AttemptIds -> ExecutionRow]
    /\ incarnations \in [IncarnationIds -> IncarnationState]
    /\ agents \in [Agents -> AgentRow]
    /\ batches \in [Batches -> BatchState]
    /\ escalations \in [Tasks -> EscalationRow]
    /\ results \in [Tasks -> {"NONE", "AVAILABLE", "ACKED"}]
    /\ wakeups \in [Batches -> Nat]
    /\ decisions \in [Tasks -> Nat]
    /\ capacity \in 0..MaxCapacity
    /\ physical \in [AttemptIds -> {"none", "running", "ended"}]

Init ==
    /\ tasks = [t \in Tasks |-> [state |-> "NONE", current |-> 0, epoch |-> 0]]
    /\ attempts = [id \in AttemptIds |->
                      [state |-> "NONE", agent |-> NoAgent, incarnation |-> 0]]
    /\ leases = [id \in AttemptIds |-> "NONE"]
    /\ executions = [id \in AttemptIds |-> NoExecution]
    /\ incarnations = [i \in IncarnationIds |-> "NONE"]
    /\ agents = [g \in Agents |->
                    [state |-> "NONE", task |-> NoTask, retiring |-> FALSE]]
    /\ batches = [b \in Batches |-> "NONE"]
    /\ escalations = [t \in Tasks |->
                         [state |-> "NONE", cause |-> "NONE", agent |-> NoAgent]]
    /\ results = [t \in Tasks |-> "NONE"]
    /\ wakeups = [b \in Batches |-> 0]
    /\ decisions = [t \in Tasks |-> 0]
    /\ capacity \in 0..MaxCapacity
    /\ physical = [id \in AttemptIds |-> "none"]

----------------------------------------------------------------------------
(* Pure decisions (agentype-core) *)

\* The claim behind id still owns its task: a fenced operation may commit.
validate_authority(id) ==
    /\ attempts[id].state = "ACTIVE"
    /\ leases[id] = "ACTIVE"
    /\ tasks[id[1]].current = id[2]
    /\ tasks[id[1]].epoch = id[2]

physical_transition_allowed(from, to) ==
    CASE from = "STARTING"   -> to \in ExecutionState
      [] from = "UNKNOWN"    -> to \in ExecutionState \ {"STARTING"}
      [] from = "RUNNING"    -> to \in {"RUNNING", "LOST"} \cup EndedExecution
      [] from = "LOST"       -> to \in {"LOST"} \cup EndedExecution
      [] from = "SUCCEEDED"  -> to \in {"SUCCEEDED", "TERMINATED"}
      [] from = "FAILED"     -> to \in {"FAILED", "TERMINATED"}
      [] from = "TERMINATED" -> to = "TERMINATED"
      [] OTHER               -> FALSE

\* Lease expiry is not quiescence: a write task may get another attempt only if
\* no execution exists, or it is confirmed quiet, or its workspace is isolated.
writer_is_safe_to_replace(write, exists, quiescent, isolated) ==
    ~write \/ ~exists \/ quiescent \/ isolated

durable_quiescence(terminal, quiescent) == terminal /\ quiescent

retry_allowed(t, class, number) ==
    class \in RetryClasses[t] /\ number < MaxAttempts[t]

suspension_failure_class(safe, observed) == IF safe THEN observed ELSE WriterUnknown

batch_next_state(b, ts) ==
    IF \E t \in TasksOf(b) : ts[t].state \in {"SUSPENDED", "CANCELLED"}
    THEN "SUSPENDED"
    ELSE IF \A t \in TasksOf(b) : ts[t].state = "COMPLETED"
         THEN "COMPLETED"
         ELSE "ACTIVE"

\* What a physical observation does to the incarnation that hosts it.
incarnation_presence(state, terminal, quiescent, reusable) ==
    IF state = "RUNNING" THEN "PromoteWarm"
    ELSE IF state \in {"STARTING", "UNKNOWN"} THEN "Ignore"
    ELSE IF reusable /\ terminal /\ quiescent THEN "PromoteWarm"
    ELSE IF state # "LOST" /\ terminal /\ quiescent THEN "FenceTerminated"
    ELSE "FenceLost"

\* record_incarnation_presence: the statement each action runs.
PresenceState(action, s) ==
    IF action = "PromoteWarm" /\ s \in LiveIncarnation THEN "WARM"
    ELSE IF action = "FenceTerminated" /\ s \in LiveIncarnation \cup {"LOST"}
         THEN "TERMINATED"
    ELSE IF action = "FenceLost" /\ s \in LiveIncarnation THEN "LOST"
    ELSE s

\* Nobody waits for itself, directly or through others.
assert_acyclic(b) ==
    \A S \in SUBSET TasksOf(b) \ {{}} : \E t \in S : DependsOn[t] \cap S = {}

----------------------------------------------------------------------------
(* Steps shared by several transactions (txutil.rs) *)

\* release_agent: an agent leaves its task. Retirement that was requested while
\* it worked, or ephemeral retention, retires it; otherwise it is READY again.
Retires(g) == agents[g].retiring \/ Ephemeral
release_agent(g) ==
    [state |-> IF Retires(g) THEN "RETIRED" ELSE "READY",
     task |-> NoTask, retiring |-> FALSE]

\* An agent whose writer may still run is quarantined, not released.
SuspendedAgent(g) ==
    IF agents[g].state = "RETIRED" THEN agents[g]
    ELSE [agents[g] EXCEPT !.state = "SUSPENDED", !.task = NoTask]

\* retire_logical_agent also fences the incarnations that are still live.
RetireIncarnations(G, incs) ==
    [i \in IncarnationIds |->
        IF i[1] \in G /\ incs[i] \in LiveIncarnation THEN "LOST" ELSE incs[i]]

recompute_batch(B) ==
    /\ batches' = [b \in Batches |->
                      IF b \in B /\ batches[b] # "CANCELLED"
                      THEN batch_next_state(b, tasks') ELSE batches[b]]
    /\ wakeups' = [b \in Batches |->
                      IF b \in B /\ batches[b] \notin {"CANCELLED", "COMPLETED"}
                            /\ batch_next_state(b, tasks') = "COMPLETED"
                      THEN wakeups[b] + 1 ELSE wakeups[b]]

\* Mutant: one completed dependency, or none, is enough.
release_dependencies_any(b, ts) ==
    [t \in Tasks |->
        IF t \in TasksOf(b) /\ ts[t].state = "BLOCKED"
        THEN [ts[t] EXCEPT !.state = "QUEUED"] ELSE ts[t]]

release_dependencies(b, ts) ==
    [t \in Tasks |->
        IF t \in TasksOf(b) /\ ts[t].state = "BLOCKED"
              /\ \A d \in DependsOn[t] : ts[d].state = "COMPLETED"
        THEN [ts[t] EXCEPT !.state = "QUEUED"] ELSE ts[t]]

\* Mutant: current_attempt_id keeps pointing at the closed attempt.
ClosedTasksDangling(out) ==
    [t \in Tasks |->
        IF Current(t) \in DOMAIN out
        THEN [tasks[t] EXCEPT !.state = out[Current(t)].task] ELSE tasks[t]]

\* Every path that ends an attempt (ACK, NACK, abort, cancellation, expiry)
\* closes the attempt and its lease, fences its incarnation, moves its task,
\* frees or quarantines its agent, and may escalate.  out maps each attempt that
\* ends to what becomes of it, and open is the escalations table so far:
\*   [attempt, lease, task : states, presence : action, cause : "NONE" or class]
ClosedTasks(out) ==
    [t \in Tasks |->
        IF Current(t) \in DOMAIN out
        THEN [tasks[t] EXCEPT !.state = out[Current(t)].task, !.current = 0]
        ELSE tasks[t]]

Escalated(out, t) == Current(t) \in DOMAIN out /\ out[Current(t)].cause # "NONE"

CloseAttempts(out, open) ==
    LET quarantined == {attempts[id].agent : id \in
                            {i \in DOMAIN out : out[i].cause = WriterUnknown}}
        released == {attempts[id].agent : id \in
                            {i \in DOMAIN out : out[i].cause # WriterUnknown}}
        Observed(i, action) ==
            \E id \in DOMAIN out : IncarnationOf(id) = i /\ out[id].presence = action
        fenced == [i \in IncarnationIds |->
                      IF Observed(i, "PromoteWarm")
                      THEN PresenceState("PromoteWarm", incarnations[i])
                      ELSE IF Observed(i, "FenceTerminated")
                      THEN PresenceState("FenceTerminated", incarnations[i])
                      ELSE IF Observed(i, "FenceLost")
                      THEN PresenceState("FenceLost", incarnations[i])
                      ELSE incarnations[i]]
    IN  /\ attempts' = [id \in AttemptIds |->
                           IF id \in DOMAIN out
                           THEN [attempts[id] EXCEPT !.state = out[id].attempt]
                           ELSE attempts[id]]
        /\ leases' = [id \in AttemptIds |->
                         IF id \in DOMAIN out THEN out[id].lease ELSE leases[id]]
        /\ agents' = [g \in Agents |->
                         IF g \in quarantined THEN SuspendedAgent(g)
                         ELSE IF g \in released THEN release_agent(g)
                         ELSE agents[g]]
        /\ incarnations' =
               RetireIncarnations({g \in released : Retires(g)}, fenced)
        /\ escalations' = [t \in Tasks |->
                              IF Escalated(out, t) /\ open[t].state # "OPEN"
                              THEN [state |-> "OPEN", cause |-> out[Current(t)].cause,
                                    agent |-> attempts[Current(t)].agent]
                              ELSE open[t]]
        /\ decisions' = [t \in Tasks |->
                            IF Escalated(out, t) /\ open[t].state # "OPEN"
                            THEN decisions[t] + 1 ELSE decisions[t]]

----------------------------------------------------------------------------
(* Pool: one active partition *)

Unborn == {g \in Agents : agents[g].state = "NONE"}
NewAgent == [state |-> "READY", task |-> NoTask, retiring |-> FALSE]

\* Agents that count towards desired_capacity.
Members == {g \in Agents :
               \/ agents[g].state \in {"READY", "ASSIGNED", "REVIVING"}
               \/ agents[g].state = "DRAINING" /\ ~agents[g].retiring}

\* Shrinking takes unassigned members first and READY before the others; the
\* last tiebreak is a random identifier.
ExcessRank(g) == <<agents[g].task # NoTask, agents[g].state # "READY">>
RankedBefore(g, h) ==
    \/ ~ExcessRank(g)[1] /\ ExcessRank(h)[1]
    \/ ExcessRank(g)[1] = ExcessRank(h)[1] /\ ~ExcessRank(g)[2] /\ ExcessRank(h)[2]

resize_partition(n) ==
    /\ capacity' = n
    /\ UNCHANGED <<tasks, attempts, leases, executions, incarnations, agents,
                   batches, escalations, results, wakeups, decisions, physical>>

\* excess_disposition: only an idle member retires at once.
excess_disposition(g) ==
    agents[g].state \in {"READY", "REVIVING"} /\ agents[g].task = NoTask

\* Births the deficit (as far as the model's supply of agents goes) or retires
\* the excess: idle members directly, working ones when they are released.
reconcile_pool ==
    LET deficit == capacity - Cardinality(Members)
        births == IF deficit > Cardinality(Unborn) THEN Cardinality(Unborn) ELSE deficit
    IN  \E born \in SUBSET Unborn, excess \in SUBSET Members :
            /\ Cardinality(born) = IF deficit > 0 THEN births ELSE 0
            /\ Cardinality(excess) = IF deficit < 0 THEN -deficit ELSE 0
            /\ \A g \in excess, h \in Members \ excess : ~RankedBefore(h, g)
            /\ LET idle == {g \in excess : excess_disposition(g)}
               IN  /\ agents' = [g \in Agents |->
                          IF g \in born THEN NewAgent
                          ELSE IF g \in idle
                          THEN [state |-> "RETIRED", task |-> NoTask, retiring |-> FALSE]
                          ELSE IF g \in excess
                          THEN [agents[g] EXCEPT !.state = "DRAINING", !.retiring = TRUE]
                          ELSE agents[g]]
                   /\ incarnations' = RetireIncarnations(idle, incarnations)
            /\ UNCHANGED <<tasks, attempts, leases, executions, batches, escalations,
                           results, wakeups, decisions, capacity, physical>>

Claimable(t) == tasks[t].state = "QUEUED" /\ batches[BatchOf[t]] = "ACTIVE"
Selectable(g) == agents[g].state = "READY" /\ agents[g].task = NoTask

\* A claimable task that no READY agent could take gets a temporary consumer.
ensure_task_consumers ==
    /\ \E t \in Tasks : Claimable(t)
    /\ \A g \in Agents : ~Selectable(g)
    /\ \E g \in Unborn : agents' = [agents EXCEPT ![g] = NewAgent]
    /\ UNCHANGED <<tasks, attempts, leases, executions, incarnations, batches,
                   escalations, results, wakeups, decisions, capacity, physical>>

\* Mutant: revival without a look at the obligations.
ReviveUnguarded(g) ==
    /\ agents[g].state \notin {"NONE", "RETIRED"}
    /\ agents[g].task = NoTask
    /\ agents' = [agents EXCEPT ![g].state = "READY"]
    /\ UNCHANGED <<tasks, attempts, leases, executions, incarnations, batches,
                   escalations, results, wakeups, decisions, capacity, physical>>

\* A writer obligation of its own blocks the revival of an agent.
Revivable(g) ==
    /\ agents[g].state \notin {"NONE", "RETIRED"}
    /\ \A t \in Tasks : ~(/\ escalations[t].state = "OPEN"
                          /\ escalations[t].cause = WriterUnknown
                          /\ escalations[t].agent = g)
    /\ agents[g].task = NoTask
    /\ \A id \in AttemptIds : ~(attempts[id].state = "ACTIVE" /\ attempts[id].agent = g)

revive_agent(g) ==
    /\ Revivable(g)
    /\ agents' = [agents EXCEPT ![g].state = "READY"]
    /\ UNCHANGED <<tasks, attempts, leases, executions, incarnations, batches,
                   escalations, results, wakeups, decisions, capacity, physical>>

----------------------------------------------------------------------------
(* Work: submission, claim, execution *)

submit_batch(b) ==
    /\ batches[b] = "NONE"
    /\ TasksOf(b) # {}
    /\ \A t \in TasksOf(b) : DependsOn[t] \subseteq TasksOf(b)
    /\ assert_acyclic(b)
    /\ batches' = [batches EXCEPT ![b] = "ACTIVE"]
    /\ tasks' = [t \in Tasks |->
                    IF t \in TasksOf(b)
                    THEN [state |-> IF DependsOn[t] = {} THEN "QUEUED" ELSE "BLOCKED",
                          current |-> 0, epoch |-> 0]
                    ELSE tasks[t]]
    /\ UNCHANGED <<attempts, leases, executions, incarnations, agents, escalations,
                   results, wakeups, decisions, capacity, physical>>

\* claim_selected: attempt, lease and the next fencing epoch in one transaction.
claim_selected(t, g) ==
    LET id == <<t, tasks[t].epoch + 1>>
    IN  /\ tasks[t].epoch < MaxClaims
        /\ attempts' = [attempts EXCEPT ![id] =
                           [state |-> "ACTIVE", agent |-> g, incarnation |-> 0]]
        /\ leases' = [leases EXCEPT ![id] = "ACTIVE"]
        /\ tasks' = [tasks EXCEPT ![t] = [state |-> "LEASED", current |-> id[2],
                                          epoch |-> id[2]]]
        /\ agents' = [agents EXCEPT ![g].state = "ASSIGNED", ![g].task = t]
        /\ UNCHANGED <<executions, incarnations, batches, escalations, results,
                       wakeups, decisions, capacity, physical>>

claim_next_available ==
    \E t \in Tasks, g \in Agents : Claimable(t) /\ Selectable(g) /\ claim_selected(t, g)

\* The live incarnation of an agent, or the next generation of it.
LiveGenerations(g) == {n \in 1..MaxGenerations : incarnations[<<g, n>>] \in LiveIncarnation}

\* Mutant: the latest incarnation, live or not.
EnsureLatest(g, n) ==
    /\ agents[g].state # "RETIRED"
    /\ n = 1 \/ (n \in 2..MaxGenerations /\ incarnations[<<g, n>>] # "NONE")

ensure_incarnation(g, n) ==
    /\ agents[g].state # "RETIRED"
    /\ IF LiveGenerations(g) # {}
       THEN n \in LiveGenerations(g) /\ \A m \in LiveGenerations(g) : m <= n
       ELSE /\ n \in 1..MaxGenerations
            /\ \A m \in 1..MaxGenerations :
                   incarnations[<<g, m>>] # "NONE" <=> m < n

create_execution(id, isolated) ==
    /\ validate_authority(id)
    /\ \E n \in 1..MaxGenerations :
          LET g == attempts[id].agent
          IN  /\ IF attempts[id].incarnation # 0
                 THEN n = attempts[id].incarnation
                 ELSE ensure_incarnation(g, n)
              /\ \A other \in AttemptIds :
                    ~(/\ IncarnationOf(other) = <<g, n>>
                      /\ executions[other].state \in LiveExecution)
              /\ ~HasExecution(id)
              /\ incarnations' = [incarnations EXCEPT ![<<g, n>>] =
                                     IF @ = "NONE" THEN "STARTING" ELSE @]
              /\ attempts' = [attempts EXCEPT ![id].incarnation = n]
    /\ executions' = [executions EXCEPT ![id] =
                         [state |-> "STARTING", isolated |-> isolated,
                          terminal |-> FALSE, quiescent |-> FALSE, classed |-> FALSE]]
    /\ UNCHANGED <<tasks, leases, agents, batches, escalations, results, wakeups,
                   decisions, capacity, physical>>

\* The adapter has seen the execution RUNNING.
confirm_running_and_renew(id) ==
    /\ validate_authority(id)
    /\ executions[id].state \in LiveExecution
    /\ executions' = [executions EXCEPT ![id].state = "RUNNING"]
    /\ tasks' = [tasks EXCEPT ![id[1]].state = "RUNNING"]
    /\ incarnations' = [incarnations EXCEPT ![IncarnationOf(id)] = "WARM"]
    /\ UNCHANGED <<attempts, leases, agents, batches, escalations, results, wakeups,
                   decisions, capacity, physical>>

----------------------------------------------------------------------------
(* Physical history: no authority needed, no authority changed *)

\* Late evidence of an older execution must not touch an incarnation that a
\* newer one occupies.
execution_still_attached(id) ==
    /\ executions[id].state \in LiveExecution
    /\ \A other \in AttemptIds \ {id} :
          ~(/\ IncarnationOf(other) = IncarnationOf(id)
            /\ executions[other].state \in LiveExecution)

\* The CHECK of the executions table.
QuiescenceCheck(row) ==
    row.quiescent => row.terminal /\ row.state \in EndedExecution

\* An unresolved observation carries no proof and clears an earlier one; a failure
\* class stays with the row once it was given.
record_physical_outcome(id, state, classed, terminal, quiescent) ==
    LET unresolved == state \in {"UNKNOWN", "LOST"}
        row == [executions[id] EXCEPT
                   !.state = state,
                   !.terminal = ~unresolved /\ (@ \/ terminal),
                   !.quiescent = ~unresolved /\ (@ \/ quiescent),
                   !.classed = @ \/ classed]
        action == incarnation_presence(state, terminal, quiescent, FALSE)
    IN  /\ HasExecution(id)
        /\ unresolved => ~terminal /\ ~quiescent
        /\ physical_transition_allowed(executions[id].state, state)
        /\ QuiescenceCheck(row)
        /\ executions' = [executions EXCEPT ![id] = row]
        /\ incarnations' =
               IF execution_still_attached(id)
               THEN [incarnations EXCEPT ![IncarnationOf(id)] = PresenceState(action, @)]
               ELSE incarnations
        /\ UNCHANGED <<tasks, attempts, leases, agents, batches, escalations, results,
                       wakeups, decisions, capacity, physical>>

\* The collected end is made durable first; the ACK or NACK that follows is a
\* transaction of its own, and a crash may come between the two.  It covers what
\* was observed before, the failure class included.
record_pending_physical_terminal(id, state, classed, quiescent) ==
    /\ HasExecution(id)
    /\ state \in EndedExecution
    /\ physical_transition_allowed(executions[id].state, state)
    /\ executions' = [executions EXCEPT ![id].state = state, ![id].terminal = TRUE,
                                        ![id].quiescent = quiescent,
                                        ![id].classed = classed]
    /\ UNCHANGED <<tasks, attempts, leases, incarnations, agents, batches, escalations,
                   results, wakeups, decisions, capacity, physical>>

----------------------------------------------------------------------------
(* The end of an attempt *)

\* Close one attempt; the batch is recomputed by the paths that say so.
CloseOne(id, attempt, lease, task, presence, cause) ==
    [i \in {id} |-> [attempt |-> attempt, lease |-> lease, task |-> task,
                     presence |-> presence, cause |-> cause]]

ack_success(id, quiescent, reusable) ==
    LET t == id[1]
        unsafe == ~writer_is_safe_to_replace(t \in Writers, HasExecution(id), quiescent,
                                             executions[id].isolated)
        presence == incarnation_presence("SUCCEEDED", TRUE, quiescent /\ ~unsafe,
                                         reusable /\ ~unsafe)
        out == IF unsafe
               THEN CloseOne(id, "FAILED", "REVOKED", "SUSPENDED", presence, WriterUnknown)
               ELSE CloseOne(id, "SUCCEEDED", "RELEASED", "COMPLETED", presence, "NONE")
    IN  /\ validate_authority(id)
        /\ unsafe \/ executions[id].state \in LiveExecution \cup {"SUCCEEDED", "NONE"}
        /\ executions' =
               IF HasExecution(id)
               THEN [executions EXCEPT ![id].state = "SUCCEEDED", ![id].terminal = TRUE,
                                       ![id].quiescent = quiescent /\ ~unsafe]
               ELSE executions
        /\ CloseAttempts(out, escalations)
        /\ tasks' = IF unsafe THEN ClosedTasks(out)
                    ELSE release_dependencies(BatchOf[t], ClosedTasks(out))
        /\ results' = IF unsafe THEN results ELSE [results EXCEPT ![t] = "AVAILABLE"]
        /\ recompute_batch({BatchOf[t]})
        /\ UNCHANGED <<capacity, physical>>

\* The consequence of a failure for the attempt: retry, or suspend and escalate.
Failed(id, class, quiescent, presence) ==
    LET t == id[1]
        safe == writer_is_safe_to_replace(t \in Writers, HasExecution(id), quiescent,
                                          executions[id].isolated)
    IN  IF retry_allowed(t, class, id[2]) /\ safe
        THEN CloseOne(id, "FAILED", "RELEASED", "RETRY_WAIT", presence, "NONE")
        ELSE CloseOne(id, "FAILED", "REVOKED", "SUSPENDED", presence,
                      suspension_failure_class(safe, class))

\* Mutant: the suspension of a task does not reach its batch.
FailureWithoutRecompute(id, out) ==
    /\ CloseAttempts(out, escalations)
    /\ tasks' = ClosedTasks(out)
    /\ UNCHANGED <<batches, wakeups, results, capacity, physical>>

FailureConsequence(id, out) ==
    /\ CloseAttempts(out, escalations)
    /\ tasks' = ClosedTasks(out)
    /\ recompute_batch(IF out[id].task = "SUSPENDED" THEN {BatchOf[id[1]]} ELSE {})
    /\ UNCHANGED <<results, capacity, physical>>

PresenceOfFailure(class) == IF class = "EXECUTION_LOST" THEN "LOST" ELSE "FAILED"

nack(id, class, terminal, quiescent, reusable) ==
    LET durable == durable_quiescence(terminal, quiescent)
        presence == incarnation_presence(PresenceOfFailure(class), terminal, durable,
                                         reusable)
    IN  /\ validate_authority(id)
        /\ executions[id].state # "SUCCEEDED"
        /\ executions' =
               IF executions[id].state \in LiveExecution
               THEN [executions EXCEPT
                        ![id].state = IF terminal THEN "FAILED" ELSE "UNKNOWN",
                        ![id].terminal = terminal, ![id].quiescent = durable,
                        ![id].classed = TRUE]
               ELSE executions
        /\ FailureConsequence(id, Failed(id, class, durable, presence))

\* Configuration trouble says nothing about an execution: never a proof.
report_configuration_unavailable(id) ==
    nack(id, "RESOURCE_UNAVAILABLE", FALSE, FALSE, FALSE)

\* Close the authority and leave the execution row as it is.
nack_preserving_physical_history(id, class) ==
    LET presence == incarnation_presence(PresenceOfFailure(class), FALSE, FALSE, FALSE)
    IN  /\ validate_authority(id)
        /\ FailureConsequence(id, Failed(id, class, FALSE, presence))
        /\ UNCHANGED executions

\* The adapter was never called: the execution row goes and the task is queued
\* again, whatever its retry policy.
abort_before_physical_start(id) ==
    LET out == CloseOne(id, "FAILED", "RELEASED", "QUEUED", "Ignore", "NONE")
    IN  /\ validate_authority(id)
        /\ executions[id].state = "STARTING"
        /\ id[2] < MaxClaims
        /\ executions' = [executions EXCEPT ![id] = NoExecution]
        /\ FailureConsequence(id, out)

\* Cancellation is not quiescence: a writer that may still run leaves an open
\* obligation and a quarantined agent behind.
Quiet(row, confirmed) == confirmed \/ durable_quiescence(row.terminal, row.quiescent)

Cancelled(id, confirmed) ==
    LET row == executions[id]
        quiet == Quiet(row, confirmed)
        safe == writer_is_safe_to_replace(id[1] \in Writers, HasExecution(id), quiet,
                                          row.isolated)
        gone == ~HasExecution(id) \/ quiet
    IN  [attempt |-> "CANCELLED", lease |-> "REVOKED", task |-> "CANCELLED",
         presence |-> incarnation_presence(IF gone THEN "TERMINATED" ELSE "LOST",
                                           gone, gone, FALSE),
         cause |-> IF safe THEN "NONE" ELSE WriterUnknown]

cancel_task(t, confirmed) ==
    LET id == Current(t)
        ending == IF tasks[t].current = 0 THEN {} ELSE {id}
        out == [i \in ending |-> Cancelled(i, confirmed)]
    IN  /\ tasks[t].state \notin {"NONE", "COMPLETED", "CANCELLED"}
        /\ executions' =
               [i \in AttemptIds |->
                   IF i \in ending /\ executions[i].state \in LiveExecution
                   THEN [executions[i] EXCEPT
                            !.state = IF Quiet(executions[i], confirmed)
                                      THEN "TERMINATED" ELSE "LOST"]
                   ELSE executions[i]]
        /\ CloseAttempts(out, escalations)
        /\ tasks' = [tasks EXCEPT ![t].state = "CANCELLED", ![t].current = 0]
        /\ recompute_batch({BatchOf[t]})
        /\ UNCHANGED <<results, capacity, physical>>

cancel_batch(b) ==
    LET out == [id \in {i \in AttemptIds : /\ i[1] \in TasksOf(b)
                                           /\ attempts[i].state = "ACTIVE"}
                   |-> Cancelled(id, FALSE)]
        dropped == [t \in Tasks |->
                       IF /\ t \in TasksOf(b) /\ escalations[t].state = "OPEN"
                          /\ escalations[t].cause # WriterUnknown
                       THEN [escalations[t] EXCEPT !.state = "CANCELLED"]
                       ELSE escalations[t]]
    IN  /\ batches[b] \in {"ACTIVE", "SUSPENDED"}
        /\ CloseAttempts(out, dropped)
        /\ tasks' = [t \in Tasks |->
                        IF t \in TasksOf(b) /\ tasks[t].state \notin {"COMPLETED", "CANCELLED"}
                        THEN [tasks[t] EXCEPT !.state = "CANCELLED", !.current = 0]
                        ELSE tasks[t]]
        /\ batches' = [batches EXCEPT ![b] = "CANCELLED"]
        /\ UNCHANGED <<executions, results, wakeups, capacity, physical>>

----------------------------------------------------------------------------
(* Time and recovery *)

\* The sweep of the control loop, and (recovering) of the startup barrier, which
\* also ends the claims that never got an execution.
Expirable(recovering) ==
    {id \in AttemptIds : \/ leases[id] = "ELAPSED"
                         \/ leases[id] = "ACTIVE" /\ recovering /\ ~HasExecution(id)}

\* Mutant: the passing of the lease taken as proof that the writer stopped.
ExpiredAsQuiescent(id) ==
    LET retry == retry_allowed(id[1], "EXECUTION_LOST", id[2])
    IN  [attempt |-> "EXPIRED", lease |-> "EXPIRED",
         task |-> IF retry THEN "RETRY_WAIT" ELSE "SUSPENDED",
         presence |-> "FenceLost", cause |-> IF retry THEN "NONE" ELSE "EXECUTION_LOST"]

\* Mutant: the incarnation of an expired attempt stays in service.
ExpiredUnfenced(id) ==
    [attempt |-> "EXPIRED", lease |-> "EXPIRED", task |-> "SUSPENDED",
     presence |-> "Ignore", cause |-> "EXECUTION_LOST"]

Expired(id) ==
    LET t == id[1]
        row == executions[id]
        safe == writer_is_safe_to_replace(
                    t \in Writers, HasExecution(id),
                    durable_quiescence(row.terminal, row.quiescent), row.isolated)
        retry == retry_allowed(t, "EXECUTION_LOST", id[2]) /\ safe
    IN  [attempt |-> "EXPIRED", lease |-> "EXPIRED",
         task |-> IF retry THEN "RETRY_WAIT" ELSE "SUSPENDED",
         presence |-> "FenceLost",
         cause |-> IF retry THEN "NONE"
                   ELSE suspension_failure_class(safe, "EXECUTION_LOST")]

expire_leases(recovering) ==
    LET out == [id \in Expirable(recovering) |-> Expired(id)]
        suspended == {BatchOf[id[1]] : id \in {i \in DOMAIN out : out[i].task = "SUSPENDED"}}
    IN  /\ CloseAttempts(out, escalations)
        /\ tasks' = ClosedTasks(out)
        /\ recompute_batch(suspended)
        /\ UNCHANGED <<executions, results, capacity, physical>>

\* due: the waiting tasks whose next_eligible_at has passed.
promote_retry_wait(due) ==
    /\ \A t \in due : tasks[t].state = "RETRY_WAIT"
    /\ tasks' = [t \in Tasks |-> IF t \in due THEN [tasks[t] EXCEPT !.state = "QUEUED"]
                                 ELSE tasks[t]]
    /\ UNCHANGED <<attempts, leases, executions, incarnations, agents, batches,
                   escalations, results, wakeups, decisions, capacity, physical>>

----------------------------------------------------------------------------
(* Root: escalations and results *)

\* finalize_escalated_writer_presence on the latest attempt of the task.
FinalizedExecution(row, confirmed) ==
    IF row.state = "NONE" THEN row
    ELSE IF confirmed
    THEN [row EXCEPT !.state = IF @ \in LiveExecution \cup {"LOST"} THEN "TERMINATED" ELSE @,
                     !.terminal = TRUE, !.quiescent = TRUE]
    ELSE IF row.isolated
    THEN [row EXCEPT !.state = IF @ \in LiveExecution THEN "LOST" ELSE @]
    ELSE row

FinalizedIncarnation(s, confirmed) ==
    IF s \in LiveIncarnation \cup {"LOST"}
    THEN IF confirmed THEN "TERMINATED" ELSE "LOST"
    ELSE s

\* prepare_agent_revival_after_safety: released, and REVIVING rather than READY.
RevivedAgent(g) ==
    IF agents[g].state = "RETIRED" THEN agents[g]
    ELSE [release_agent(g) EXCEPT !.state = IF @ = "READY" THEN "REVIVING" ELSE @]

\* The obligation of the writer is met: its presence is closed and the agent
\* it kept in quarantine comes back.
FinalizeWriter(t, confirmed) ==
    LET id == Latest(t)
        g == escalations[t].agent
        closed == [i \in IncarnationIds |->
                      IF i = IncarnationOf(id)
                      THEN FinalizedIncarnation(incarnations[i], confirmed)
                      ELSE incarnations[i]]
    IN  /\ agents[g].state # "RETIRED" /\ ~agents[g].retiring =>
              \A i \in AttemptIds : ~(attempts[i].state = "ACTIVE" /\ attempts[i].agent = g)
        /\ executions' = [executions EXCEPT ![id] = FinalizedExecution(@, confirmed)]
        /\ agents' = [agents EXCEPT ![g] = RevivedAgent(g)]
        /\ incarnations' =
               IF agents[g].state # "RETIRED" /\ Retires(g)
               THEN RetireIncarnations({g}, closed) ELSE closed

Resolve(t) == escalations' = [escalations EXCEPT ![t].state = "RESOLVED"]

WriterObligation(t) == escalations[t].cause = WriterUnknown

\* plan_escalation_resolution accepts a recovery of the writer only with a
\* confirmation of quiescence or with isolation frozen in the execution.
WriterSafe(t, confirmed) == confirmed \/ executions[Latest(t)].isolated

release_cancelled_writer(t, confirmed) ==
    /\ escalations[t].state = "OPEN"
    /\ tasks[t].state = "CANCELLED"
    /\ WriterObligation(t)
    /\ WriterSafe(t, confirmed)
    /\ FinalizeWriter(t, confirmed)
    /\ Resolve(t)
    /\ UNCHANGED tasks
    /\ recompute_batch({BatchOf[t]})
    /\ UNCHANGED <<attempts, leases, results, decisions, capacity, physical>>

resolve_retry(t, confirmed) ==
    /\ escalations[t].state = "OPEN"
    /\ tasks[t].state = "SUSPENDED"
    /\ t \in Writers /\ WriterObligation(t) => WriterSafe(t, confirmed)
    /\ tasks[t].epoch < MaxClaims
    /\ tasks' = [tasks EXCEPT ![t].state = "QUEUED"]
    /\ IF WriterObligation(t)
       THEN FinalizeWriter(t, confirmed)
       ELSE UNCHANGED <<executions, agents, incarnations>>
    /\ Resolve(t)
    /\ recompute_batch({BatchOf[t]})
    /\ UNCHANGED <<attempts, leases, results, decisions, capacity, physical>>

\* Mutant: cancelling the task closes the obligation of its writer too.
CancelDischarging(t) ==
    /\ escalations[t].state = "OPEN"
    /\ tasks' = [tasks EXCEPT ![t].state = "CANCELLED"]
    /\ Resolve(t)
    /\ recompute_batch({BatchOf[t]})
    /\ UNCHANGED <<attempts, leases, executions, incarnations, agents, results,
                   decisions, capacity, physical>>

\* Cancelling leaves the obligation of a writer open.
resolve_cancel_task(t) ==
    /\ escalations[t].state = "OPEN"
    /\ tasks' = [tasks EXCEPT ![t].state = "CANCELLED"]
    /\ IF WriterObligation(t) THEN UNCHANGED escalations ELSE Resolve(t)
    /\ recompute_batch({BatchOf[t]})
    /\ UNCHANGED <<attempts, leases, executions, incarnations, agents, results,
                   decisions, capacity, physical>>

ack_result(t) ==
    /\ results[t] # "NONE"
    /\ results' = [results EXCEPT ![t] = "ACKED"]
    /\ UNCHANGED <<tasks, attempts, leases, executions, incarnations, agents, batches,
                   escalations, wakeups, decisions, capacity, physical>>

----------------------------------------------------------------------------
(* The world outside the database *)

\* expires_at passes.  Renewals push it further, which changes no row the model
\* tells apart; every renewal needs a lease that has not elapsed.
LeaseElapses(id) ==
    /\ leases[id] = "ACTIVE"
    /\ leases' = [leases EXCEPT ![id] = "ELAPSED"]
    /\ UNCHANGED <<tasks, attempts, executions, incarnations, agents, batches,
                   escalations, results, wakeups, decisions, capacity, physical>>

\* The adapter starts the process of a durable execution, perhaps long after
\* the start was requested; or it never does; or the process ends.
PhysicalStep(id, to) ==
    /\ HasExecution(id)
    /\ <<physical[id], to>> \in {<<"none", "running">>, <<"none", "ended">>,
                                 <<"running", "ended">>}
    /\ physical' = [physical EXCEPT ![id] = to]
    /\ UNCHANGED <<tasks, attempts, leases, executions, incarnations, agents, batches,
                   escalations, results, wakeups, decisions, capacity>>

\* A caller asserts quiescence only of an execution that has ended.
Truthful(id, quiescent) == quiescent /\ id \in AttemptIds => physical[id] = "ended"

\* A caller names the class of a loss, a failure or a termination, that of an
\* unclear answer if it has one (a start whose authority is gone has none), and
\* none with a state that tells of no failure.
ReportedClass(state) ==
    {classed \in BOOLEAN :
        state = "UNKNOWN" \/ (classed <=> state \in {"LOST", "FAILED", "TERMINATED"})}

----------------------------------------------------------------------------

Host ==
    \/ \E b \in Batches : submit_batch(b)
    \/ \E n \in 0..MaxCapacity : resize_partition(n)
    \/ reconcile_pool
    \/ \E t \in Tasks, q \in BOOLEAN : Truthful(Current(t), q) /\ cancel_task(t, q)
    \/ \E b \in Batches : cancel_batch(b)
    \/ \E t \in Tasks : ack_result(t)

Root ==
    \/ \E t \in Tasks, q \in BOOLEAN : Truthful(Latest(t), q) /\ resolve_retry(t, q)
    \/ \E t \in Tasks, q \in BOOLEAN : Truthful(Latest(t), q) /\ release_cancelled_writer(t, q)
    \/ \E t \in Tasks : resolve_cancel_task(t)

Dispatch ==
    \/ ensure_task_consumers
    \/ \E g \in Agents : revive_agent(g)
    \/ claim_next_available
    \/ \E id \in AttemptIds, isolated \in BOOLEAN : create_execution(id, isolated)
    \/ \E id \in AttemptIds : physical[id] # "none" /\ confirm_running_and_renew(id)
    \/ \E id \in AttemptIds : physical[id] = "none" /\ abort_before_physical_start(id)
    \/ \E id \in AttemptIds : report_configuration_unavailable(id)

Observe ==
    \/ \E id \in AttemptIds, state \in Observable, terminal, q \in BOOLEAN :
          /\ Truthful(id, q) /\ (terminal => state \in EndedExecution)
          /\ \E classed \in ReportedClass(state) :
                record_physical_outcome(id, state, classed, terminal, q)
    \/ \E id \in AttemptIds, state \in Observable, q \in BOOLEAN :
          /\ Truthful(id, q)
          /\ \E classed \in ReportedClass(state) :
                record_pending_physical_terminal(id, state, classed, q)
    \/ \E id \in AttemptIds, q, reusable \in BOOLEAN :
          Truthful(id, q) /\ ack_success(id, q, reusable)
    \/ \E id \in AttemptIds, class \in FailureClass, terminal, q, reusable \in BOOLEAN :
          Truthful(id, q) /\ nack(id, class, terminal, q, reusable)
    \/ \E id \in AttemptIds, class \in FailureClass :
          nack_preserving_physical_history(id, class)

Clock ==
    \/ \E recovering \in BOOLEAN : expire_leases(recovering)
    \/ \E due \in SUBSET Tasks : promote_retry_wait(due)
    \/ \E id \in AttemptIds : LeaseElapses(id)

Physical ==
    \E id \in AttemptIds, to \in {"running", "ended"} : PhysicalStep(id, to)

Next == Host \/ Root \/ Dispatch \/ Observe \/ Clock \/ Physical

Spec == Init /\ [][Next]_vars

----------------------------------------------------------------------------
(* Safety *)

\* Two processes never write the same task's workspace: whatever the order of
\* lease expiry, retries, cancellations, late starts and Root's resolutions, at
\* most one process of a write task runs outside an isolated workspace
\* (writer_is_safe_to_replace and the WRITER_QUIESCENCE_UNKNOWN obligation).
WriterExclusion ==
    \A i, j \in AttemptIds :
        /\ i[1] = j[1] /\ i[1] \in Writers
        /\ physical[i] = "running" /\ physical[j] = "running"
        /\ ~executions[i].isolated /\ ~executions[j].isolated
        => i = j

\* The authority is one fact told by four tables: an attempt is ACTIVE exactly
\* when its lease row is, when it is its task's current attempt under the newest
\* fencing epoch, and when its agent is bound to the task and to no other.
SingleAuthority ==
    \A id \in AttemptIds :
        LET active == attempts[id].state = "ACTIVE"
        IN  /\ active <=> leases[id] \in {"ACTIVE", "ELAPSED"}
            /\ active <=> tasks[id[1]].current = id[2]
            /\ active => /\ tasks[id[1]].epoch = id[2]
                         /\ tasks[id[1]].state \in {"LEASED", "RUNNING"}
                         /\ agents[attempts[id].agent].task = id[1]
                         /\ agents[attempts[id].agent].state \in {"ASSIGNED", "DRAINING"}
            /\ active => \A other \in AttemptIds \ {id} :
                            ~(/\ attempts[other].state = "ACTIVE"
                              /\ attempts[other].agent = attempts[id].agent)

\* While Root has not discharged a writer obligation the agent behind it stays
\* quarantined: no revival, resize, reconciliation or claim brings it back.
WriterQuarantine ==
    \A t \in Tasks :
        escalations[t].state = "OPEN" /\ escalations[t].cause = WriterUnknown
        => agents[escalations[t].agent].state = "SUSPENDED"

\* A suspended task always has somebody to ask: SUSPENDED exactly when an OPEN
\* escalation waits, except the ones a cancellation of the task left open.
SuspendedAsksRoot ==
    \A t \in Tasks :
        /\ tasks[t].state = "SUSPENDED" => escalations[t].state = "OPEN"
        /\ escalations[t].state = "OPEN" => tasks[t].state \in {"SUSPENDED", "CANCELLED"}

\* No path forgets recompute_batch: a batch that was not cancelled has the state
\* its tasks give it, and its completion was announced exactly once.
BatchUpToDate ==
    \A b \in Batches :
        /\ batches[b] \notin {"NONE", "CANCELLED"} => batches[b] = batch_next_state(b, tasks)
        /\ wakeups[b] = IF batches[b] = "COMPLETED" THEN 1 ELSE 0

\* Dependencies order the work: a task that was ever claimed had all the tasks it
\* depends on COMPLETED, each with its one Result; results exist for no other task.
DependenciesFirst ==
    \A t \in Tasks :
        /\ tasks[t].epoch > 0 => \A d \in DependsOn[t] : tasks[d].state = "COMPLETED"
        /\ results[t] # "NONE" <=> tasks[t].state = "COMPLETED"

\* A live execution keeps its incarnation to itself: a host that is still live
\* has at most one live execution, that of its agent's ACTIVE attempt, so a new
\* dispatch to a warm host never meets the index one_active_execution_per_incarnation.
HostExclusive ==
    \A id \in AttemptIds :
        /\ executions[id].state \in LiveExecution
        /\ incarnations[IncarnationOf(id)] \in LiveIncarnation
        => attempts[id].state = "ACTIVE"

\* A fence is final: confirm_running_and_renew writes WARM without a guard and
\* late evidence may arrive at any time, yet no LOST or TERMINATED incarnation
\* is ever live again.
FencedForever ==
    [][\A i \in IncarnationIds :
          incarnations[i] \in {"LOST", "TERMINATED"}
          => incarnations'[i] \in {"LOST", "TERMINATED"}]_vars

\* COMPLETED and CANCELLED are terminal, fencing epochs only grow, and a writer
\* obligation is closed only by Root: no cancellation, retry or late result
\* removes an OPEN WRITER_QUIESCENCE_UNKNOWN escalation or weakens its cause.
ObligationsAndEndsLast ==
    [][\A t \in Tasks :
          /\ tasks[t].state \in {"COMPLETED", "CANCELLED"} => tasks'[t].state = tasks[t].state
          /\ tasks'[t].epoch >= tasks[t].epoch
          /\ escalations[t].state = "OPEN" /\ escalations[t].cause = WriterUnknown
             => \/ escalations'[t] = escalations[t]
                \/ escalations'[t].state = "RESOLVED"
                   /\ \/ executions'[Latest(t)].quiescent \/ executions[Latest(t)].isolated]_vars
=============================================================================
