----------------------------- MODULE KernelProofs -----------------------------
(***************************************************************************)
(* Proofs about Kernel for every number of tasks, agents, claims and       *)
(* generations: type correctness, the single authority, the quarantine and *)
(* the exclusion of writers; then, on the same invariant, the order of the *)
(* work and the state of the batches, and the hosts: that a live execution *)
(* keeps its incarnation to itself, that a fence is final and that a       *)
(* writer's obligation is closed by Root alone.                            *)
(***************************************************************************)
EXTENDS Kernel, TLAPS

----------------------------------------------------------------------------
(* The inductive invariant *)

Active(id) == attempts[id].state = "ACTIVE"
Obligation(t) == escalations[t].state = "OPEN" /\ escalations[t].cause = WriterUnknown

\* A process of a write task that may be running, or may still start, outside
\* an isolated workspace.
Unquiet(id) ==
    /\ id[1] \in Writers
    /\ HasExecution(id)
    /\ ~executions[id].isolated
    /\ physical[id] # "ended"

Agreement ==
    \A id \in AttemptIds :
        /\ Active(id) <=> leases[id] \in {"ACTIVE", "ELAPSED"}
        /\ Active(id) <=> tasks[id[1]].current = id[2]
        /\ Active(id) => /\ tasks[id[1]].epoch = id[2]
                         /\ tasks[id[1]].state \in {"LEASED", "RUNNING"}

Binding ==
    \A id \in AttemptIds :
        Active(id) => /\ attempts[id].agent \in Agents
                      /\ agents[attempts[id].agent].task = id[1]
                      /\ agents[attempts[id].agent].state \in {"ASSIGNED", "DRAINING"}

Quarantine ==
    /\ \A t \in Tasks :
          Obligation(t) => /\ escalations[t].agent \in Agents
                           /\ agents[escalations[t].agent].state = "SUSPENDED"
    /\ \A t, u \in Tasks :
          Obligation(t) /\ Obligation(u) /\ escalations[t].agent = escalations[u].agent
          => t = u

Unsubmitted ==
    \A t \in Tasks :
        batches[BatchOf[t]] = "NONE" => /\ tasks[t].epoch = 0
                                        /\ tasks[t].current = 0
                                        /\ escalations[t].state # "OPEN"

Evidence ==
    \A id \in AttemptIds :
        /\ physical[id] # "none" => HasExecution(id)
        /\ executions[id].quiescent => physical[id] = "ended"

\* The heart of the argument: a writer that may run belongs to the newest epoch
\* of its task, and either still has the authority or is an open obligation.
Accounted ==
    \A id \in AttemptIds :
        Unquiet(id) => /\ tasks[id[1]].epoch = id[2]
                       /\ Active(id) \/ Obligation(id[1])

IInv ==
    /\ TypeOK
    /\ Agreement
    /\ Binding
    /\ SuspendedAsksRoot
    /\ Quarantine
    /\ Unsubmitted
    /\ Evidence
    /\ Accounted

----------------------------------------------------------------------------
(* Facts about identities *)

\* An attempt is known by its task and its epoch.
LEMMA AttemptIdFacts ==
    \A id \in AttemptIds : /\ id[1] \in Tasks
                           /\ id[2] \in 1..MaxClaims
                           /\ id = <<id[1], id[2]>>
BY DEF AttemptIds

\* The current attempt of a task, if it has one, is an attempt.
LEMMA CurrentFacts ==
    ASSUME TypeOK, NEW t \in Tasks
    PROVE  /\ Current(t)[1] = t /\ Current(t)[2] = tasks[t].current
           /\ tasks[t].current # 0 => Current(t) \in AttemptIds
           /\ Current(t) \in AttemptIds => tasks[t].current # 0
BY KernelAssumption DEF TypeOK, Current, AttemptIds, TaskRow

\* Init: an empty database satisfies the invariant.
LEMMA InitInvariant == Init => IInv
<1> USE Zenon
<1> SUFFICES ASSUME Init PROVE IInv
    OBVIOUS
<1>1. TypeOK
    BY SMT, KernelAssumption DEF Init, TypeOK, TaskState, AttemptState, LeaseState, NoExecution,
       IncarnationState, AgentState, BatchState, EscalationState,
       TaskRow, AttemptRow, ExecutionRow, AgentRow, EscalationRow
<1>2. Agreement /\ Binding
    BY SMT, AttemptIdFacts DEF Init, Agreement, Binding, Active
<1>3. SuspendedAsksRoot /\ Quarantine /\ Unsubmitted
    BY KernelAssumption DEF Init, SuspendedAsksRoot, Quarantine, Unsubmitted, Obligation
<1>4. Evidence /\ Accounted
    BY DEF Init, Evidence, Accounted, Unquiet, HasExecution, NoExecution
<1> QED
    BY <1>1, <1>2, <1>3, <1>4 DEF IInv

----------------------------------------------------------------------------
(* Operations that leave the authority alone *)

\* resize_partition, ack_result, the clock and the worker processes.
LEMMA ResizeStep ==
    ASSUME IInv, NEW n \in 0..MaxCapacity, resize_partition(n)
    PROVE  IInv'
<1>1. TypeOK'
    BY Zenon DEF IInv, TypeOK, resize_partition
<1> QED
    BY <1>1 DEF IInv, resize_partition, Agreement, Binding, SuspendedAsksRoot, Quarantine,
       Unsubmitted, Evidence, Accounted, Active, Obligation, Unquiet, HasExecution

\* ack_result touches results only.
LEMMA AckResultStep ==
    ASSUME IInv, NEW t \in Tasks, ack_result(t)
    PROVE  IInv'
<1>1. TypeOK'
    BY Zenon DEF IInv, TypeOK, ack_result
<1> QED
    BY <1>1 DEF IInv, ack_result, Agreement, Binding, SuspendedAsksRoot, Quarantine,
       Unsubmitted, Evidence, Accounted, Active, Obligation, Unquiet, HasExecution

\* A lease whose time passes still belongs to its ACTIVE attempt.
LEMMA LeaseElapsesStep ==
    ASSUME IInv, NEW id \in AttemptIds, LeaseElapses(id)
    PROVE  IInv'
<1>1. TypeOK'
    BY Zenon DEF IInv, TypeOK, LeaseElapses, LeaseState
<1>2. Agreement'
    BY DEF IInv, TypeOK, Agreement, LeaseElapses, Active
<1> QED
    BY <1>1, <1>2 DEF IInv, LeaseElapses, Binding, SuspendedAsksRoot, Quarantine,
       Unsubmitted, Evidence, Accounted, Active, Obligation, Unquiet, HasExecution

\* A process moves only forward, and only where an execution exists.
LEMMA PhysicalStepStep ==
    ASSUME IInv, NEW id \in AttemptIds, NEW to \in {"running", "ended"},
           PhysicalStep(id, to)
    PROVE  IInv'
<1> USE Zenon
<1>1. TypeOK'
    BY DEF IInv, TypeOK, PhysicalStep
<1>2. Evidence'
    BY DEF IInv, TypeOK, Evidence, PhysicalStep, HasExecution
<1>3. \A i \in AttemptIds : Unquiet(i)' => Unquiet(i)
    BY DEF IInv, TypeOK, Unquiet, PhysicalStep, HasExecution
<1>4. Accounted'
    BY <1>3 DEF IInv, Accounted, PhysicalStep, Active, Obligation
<1> QED
    BY SMT, <1>1, <1>2, <1>4 DEF IInv, PhysicalStep, Agreement, Binding, SuspendedAsksRoot,
       Quarantine, Unsubmitted, Active, Obligation

\* promote_retry_wait: a task that waits has neither attempt nor escalation.
LEMMA PromoteStep ==
    ASSUME IInv, NEW due \in SUBSET Tasks, promote_retry_wait(due)
    PROVE  IInv'
<1>0. tasks' \in [Tasks -> TaskRow]
    BY ZenonT(60) DEF IInv, TypeOK, promote_retry_wait, TaskRow, TaskState
<1>1. TypeOK'
    BY Zenon, <1>0 DEF IInv, TypeOK, promote_retry_wait
<1>2. \A t \in Tasks : /\ tasks'[t].current = tasks[t].current
                       /\ tasks'[t].epoch = tasks[t].epoch
                       /\ \/ tasks'[t].state = tasks[t].state
                          \/ tasks[t].state = "RETRY_WAIT" /\ tasks'[t].state = "QUEUED"
    BY DEF IInv, TypeOK, promote_retry_wait, TaskRow
<1>3. Agreement'
    BY <1>2, AttemptIdFacts DEF IInv, Agreement, promote_retry_wait, Active
<1>4. SuspendedAsksRoot'
    BY Zenon, <1>2 DEF IInv, SuspendedAsksRoot, promote_retry_wait
<1>5. Unsubmitted' /\ Accounted'
    BY <1>2, AttemptIdFacts DEF IInv, Unsubmitted, Accounted, promote_retry_wait, Active,
       Obligation, Unquiet, HasExecution
<1> QED
    BY <1>1, <1>3, <1>4, <1>5 DEF IInv, promote_retry_wait, Binding, Quarantine,
       Evidence, Active, Obligation, HasExecution

\* submit_batch: the tasks of a new batch have no history.
LEMMA SubmitStep ==
    ASSUME IInv, NEW b \in Batches, submit_batch(b)
    PROVE  IInv'
<1>0. tasks' \in [Tasks -> TaskRow] /\ batches' \in [Batches -> BatchState]
    BY KernelAssumption DEF IInv, TypeOK, submit_batch, TaskRow, TaskState, BatchState
<1>1. TypeOK'
    BY Zenon, <1>0 DEF IInv, TypeOK, submit_batch
<1>2. \A t \in Tasks : /\ tasks'[t].current = tasks[t].current
                       /\ tasks'[t].epoch = tasks[t].epoch
                       /\ \/ tasks'[t].state = tasks[t].state
                          \/ /\ escalations[t].state # "OPEN"
                             /\ tasks[t].current = 0
                             /\ tasks'[t].state \in {"QUEUED", "BLOCKED"}
    BY Zenon DEF IInv, TypeOK, submit_batch, Unsubmitted, TasksOf
<1>3. Agreement'
    BY <1>2, AttemptIdFacts DEF IInv, Agreement, submit_batch, Active
<1>4. SuspendedAsksRoot'
    BY Zenon, <1>2 DEF IInv, SuspendedAsksRoot, submit_batch
<1>5. Unsubmitted'
    BY <1>2 DEF IInv, TypeOK, Unsubmitted, submit_batch
<1>6. Accounted'
    BY <1>2, AttemptIdFacts DEF IInv, Accounted, submit_batch, Active,
       Obligation, Unquiet, HasExecution
<1> QED
    BY Zenon, <1>1, <1>3, <1>4, <1>5, <1>6 DEF IInv, submit_batch, Binding, Quarantine,
       Evidence, Active, Obligation, HasExecution

----------------------------------------------------------------------------
(* The pool *)

\* An operation that only touches agents keeps the invariant if it leaves the
\* assigned agents assigned and the suspended ones suspended.
LEMMA AgentsOnly ==
    ASSUME IInv, TypeOK',
           UNCHANGED <<tasks, attempts, leases, executions, batches, escalations, physical>>,
           \A g \in Agents :
               /\ agents[g].state \in {"ASSIGNED", "DRAINING"} /\ agents[g].task # NoTask
                  => /\ agents'[g].state \in {"ASSIGNED", "DRAINING"}
                     /\ agents'[g].task = agents[g].task
               /\ agents[g].state = "SUSPENDED" /\ (\E t \in Tasks : Obligation(t) /\ escalations[t].agent = g)
                  => agents'[g].state = "SUSPENDED"
    PROVE  IInv'
<1>1. Binding'
    BY KernelAssumption, AttemptIdFacts DEF IInv, Binding, Active
<1>2. Quarantine'
    BY DEF IInv, Quarantine, Obligation
<1> QED
    BY <1>1, <1>2 DEF IInv, Agreement, SuspendedAsksRoot, Unsubmitted, Evidence, Accounted,
       Active, Obligation, Unquiet, HasExecution

\* ensure_task_consumers births an agent that nothing refers to yet.
LEMMA EnsureStep ==
    ASSUME IInv, ensure_task_consumers
    PROVE  IInv'
<1> USE Zenon
<1>0. agents' \in [Agents -> AgentRow]
    BY SMT DEF IInv, TypeOK, ensure_task_consumers, Unborn, NewAgent, AgentRow, AgentState
<1>1. TypeOK'
    BY <1>0 DEF IInv, TypeOK, ensure_task_consumers
<1>2. \A g \in Agents : agents[g].state # "NONE" => agents'[g] = agents[g]
    BY DEF IInv, TypeOK, ensure_task_consumers, Unborn
<1> QED
    BY <1>1, <1>2, AgentsOnly DEF ensure_task_consumers

\* revive_agent: an agent without obligation and without task becomes READY.
LEMMA ReviveStep ==
    ASSUME IInv, NEW g \in Agents, revive_agent(g)
    PROVE  IInv'
<1> USE Zenon
<1>0. agents' \in [Agents -> AgentRow]
    BY SMT DEF IInv, TypeOK, revive_agent, AgentRow, AgentState
<1>1. TypeOK'
    BY <1>0 DEF IInv, TypeOK, revive_agent
<1>2. \A h \in Agents : h # g => agents'[h] = agents[h]
    BY DEF IInv, TypeOK, revive_agent
<1>3. agents[g].task = NoTask
    BY DEF revive_agent, Revivable
<1>4. ~ \E t \in Tasks : Obligation(t) /\ escalations[t].agent = g
    BY ZenonT(60) DEF revive_agent, Revivable, Obligation
<1> QED
    BY <1>1, <1>2, <1>3, <1>4, AgentsOnly DEF revive_agent

\* reconcile_pool births, retires idle agents and marks working ones; none of them is
\* in quarantine, and no working one loses its task.
LEMMA ReconcileStep ==
    ASSUME IInv, reconcile_pool
    PROVE  IInv'
<1> USE Zenon
<1> DEFINE deficit == capacity - Cardinality(Members)
           births == IF deficit > Cardinality(Unborn) THEN Cardinality(Unborn) ELSE deficit
<1>1. PICK born \in SUBSET Unborn, excess \in SUBSET Members :
          LET idle == {g \in excess : excess_disposition(g)}
          IN  /\ agents' = [g \in Agents |->
                    IF g \in born THEN NewAgent
                    ELSE IF g \in idle
                    THEN [state |-> "RETIRED", task |-> NoTask, retiring |-> FALSE]
                    ELSE IF g \in excess
                    THEN [agents[g] EXCEPT !.state = "DRAINING", !.retiring = TRUE]
                    ELSE agents[g]]
              /\ incarnations' = RetireIncarnations(idle, incarnations)
              /\ UNCHANGED <<tasks, attempts, leases, executions, batches, escalations,
                             results, wakeups, decisions, capacity, physical>>
    BY DEF reconcile_pool
<1>2. agents' \in [Agents -> AgentRow]
    BY ZenonT(60), <1>1 DEF IInv, TypeOK, NewAgent, AgentRow, AgentState
<1>3. incarnations' \in [IncarnationIds -> IncarnationState]
    BY <1>1 DEF IInv, TypeOK, RetireIncarnations, IncarnationState
<1>4. TypeOK'
    BY ZenonT(60), <1>1, <1>2, <1>3 DEF IInv, TypeOK
<1>5. ASSUME NEW g \in Agents, agents[g].state \in {"ASSIGNED", "DRAINING"},
             agents[g].task # NoTask
      PROVE  /\ agents'[g].state \in {"ASSIGNED", "DRAINING"}
             /\ agents'[g].task = agents[g].task
    BY ZenonT(60), <1>1, <1>5 DEF IInv, TypeOK, AgentRow, Unborn, excess_disposition
<1>6. ASSUME NEW g \in Agents, agents[g].state = "SUSPENDED"
      PROVE  agents'[g].state = "SUSPENDED"
    BY <1>1, <1>6 DEF IInv, TypeOK, Unborn, Members
<1> QED
    BY <1>1, <1>4, <1>5, <1>6, AgentsOnly

----------------------------------------------------------------------------
(* Claim, execution and physical history *)

\* claim_selected: a claimable task has neither attempt nor escalation, so no
\* writer of an older epoch is unaccounted for when the epoch grows.
LEMMA ClaimStep ==
    ASSUME IInv, NEW t \in Tasks, NEW g \in Agents, Claimable(t), Selectable(g),
           claim_selected(t, g)
    PROVE  IInv'
<1> USE Zenon
<1> DEFINE new == <<t, tasks[t].epoch + 1>>
<1>0. /\ new \in AttemptIds /\ new[1] = t /\ new[2] = tasks[t].epoch + 1
      /\ tasks[t].epoch \in 0..MaxClaims /\ MaxClaims \in Nat
    BY SMT, KernelAssumption DEF IInv, TypeOK, TaskRow, claim_selected, AttemptIds
<1>1. /\ attempts' = [attempts EXCEPT ![new] =
                         [state |-> "ACTIVE", agent |-> g, incarnation |-> 0]]
      /\ leases' = [leases EXCEPT ![new] = "ACTIVE"]
      /\ tasks' = [tasks EXCEPT ![t] = [state |-> "LEASED", current |-> tasks[t].epoch + 1,
                                        epoch |-> tasks[t].epoch + 1]]
      /\ agents' = [agents EXCEPT ![g].state = "ASSIGNED", ![g].task = t]
      /\ UNCHANGED <<executions, incarnations, batches, escalations, results,
                     wakeups, decisions, capacity, physical>>
    BY DEF claim_selected
<1>2. /\ tasks[t].state = "QUEUED" /\ batches[BatchOf[t]] = "ACTIVE"
      /\ agents[g].state = "READY"
    BY DEF Claimable, Selectable
<1>3. tasks[t].current = 0
    <2> SUFFICES ASSUME tasks[t].current # 0 PROVE FALSE
        OBVIOUS
    <2>1. Current(t) \in AttemptIds /\ Current(t)[1] = t /\ Current(t)[2] = tasks[t].current
        BY CurrentFacts DEF IInv
    <2> QED
        BY SMT, <2>1, <1>2 DEF IInv, Agreement
<1>4. escalations[t].state # "OPEN"
    BY <1>2 DEF IInv, SuspendedAsksRoot
<1>5. \A i \in AttemptIds : i[1] = t => ~Active(i) /\ ~Unquiet(i)
    BY SMT, <1>3, <1>4, AttemptIdFacts DEF IInv, Agreement, Accounted, Obligation
<1>6. ~Active(new)
    BY <1>0, <1>5
<1>7. TypeOK'
    <2>1. tasks' \in [Tasks -> TaskRow]
        BY SMT, <1>0, <1>1, KernelAssumption DEF IInv, TypeOK, TaskRow, TaskState, claim_selected
    <2>2. attempts' \in [AttemptIds -> AttemptRow]
        BY SMT, <1>0, <1>1, KernelAssumption DEF IInv, TypeOK, AttemptRow, AttemptState
    <2>3. leases' \in [AttemptIds -> LeaseState]
        BY <1>0, <1>1 DEF IInv, TypeOK, LeaseState
    <2>4. agents' \in [Agents -> AgentRow]
        BY ZenonT(60), <1>1 DEF IInv, TypeOK, AgentRow, AgentState
    <2> QED
        BY <2>1, <2>2, <2>3, <2>4, <1>1 DEF IInv, TypeOK
<1>8. \A i \in AttemptIds : i # new => attempts'[i] = attempts[i] /\ leases'[i] = leases[i]
    BY <1>1 DEF IInv, TypeOK
<1>9. attempts'[new] = [state |-> "ACTIVE", agent |-> g, incarnation |-> 0]
      /\ leases'[new] = "ACTIVE"
    BY <1>0, <1>1 DEF IInv, TypeOK
<1>10. /\ tasks'[t] = [state |-> "LEASED", current |-> tasks[t].epoch + 1,
                       epoch |-> tasks[t].epoch + 1]
       /\ \A u \in Tasks : u # t => tasks'[u] = tasks[u]
    BY <1>1 DEF IInv, TypeOK
<1>11. Agreement'
    <2> SUFFICES ASSUME NEW i \in AttemptIds
                 PROVE  /\ Active(i)' <=> leases'[i] \in {"ACTIVE", "ELAPSED"}
                        /\ Active(i)' <=> tasks'[i[1]].current = i[2]
                        /\ Active(i)' => /\ tasks'[i[1]].epoch = i[2]
                                         /\ tasks'[i[1]].state \in {"LEASED", "RUNNING"}
        BY DEF Agreement
    <2>1. CASE i = new
        BY SMT, <2>1, <1>0, <1>9, <1>10 DEF Active
    <2>2. CASE i # new /\ i[1] = t
        BY SMT, <2>2, <1>0, <1>5, <1>8, <1>10, AttemptIdFacts DEF IInv, Agreement, Active
    <2>3. CASE i[1] # t
        BY SMT, <2>3, <1>0, <1>8, <1>10, AttemptIdFacts DEF IInv, Agreement, Active
    <2> QED
        BY <2>1, <2>2, <2>3
<1>12. Binding'
    <2>1. agents'[g].task = t /\ agents'[g].state = "ASSIGNED"
        BY SMT, <1>1 DEF IInv, TypeOK, AgentRow
    <2>2. \A h \in Agents : h # g => agents'[h] = agents[h]
        BY <1>1 DEF IInv, TypeOK
    <2>3. \A i \in AttemptIds : Active(i) => attempts[i].agent # g
        BY <1>2 DEF IInv, Binding
    <2> QED
        BY SMT, <2>1, <2>2, <2>3, <1>0, <1>8, <1>9 DEF IInv, Binding, Active
<1>13. SuspendedAsksRoot'
    BY SMT, <1>1, <1>4, <1>10 DEF IInv, SuspendedAsksRoot
<1>14. Quarantine'
    <2>1. \A h \in Agents : agents[h].state = "SUSPENDED" => agents'[h] = agents[h]
        BY <1>1, <1>2 DEF IInv, TypeOK
    <2> QED
        BY ZenonT(60), <2>1, <1>1 DEF IInv, Quarantine, Obligation
<1>15. Unsubmitted'
    BY SMT, <1>1, <1>2, <1>10 DEF IInv, Unsubmitted
<1>16. Evidence'
    BY <1>1 DEF IInv, Evidence, HasExecution
<1>17. Accounted'
    <2> SUFFICES ASSUME NEW i \in AttemptIds, Unquiet(i)'
                 PROVE  /\ tasks'[i[1]].epoch = i[2]
                        /\ Active(i)' \/ Obligation(i[1])'
        BY DEF Accounted
    <2>1. Unquiet(i)
        BY <1>1 DEF Unquiet, HasExecution
    <2>2. i[1] # t
        BY <2>1, <1>5
    <2> QED
        BY SMT, <2>1, <2>2, <1>0, <1>1, <1>8, <1>10, AttemptIdFacts
           DEF IInv, Accounted, Active, Obligation
<1> QED
    BY <1>7, <1>11, <1>12, <1>13, <1>14, <1>15, <1>16, <1>17 DEF IInv

\* An operation that only writes physical history keeps the invariant if it
\* neither creates nor removes an execution and records quiescence truthfully.
LEMMA HistoryOnly ==
    ASSUME IInv, TypeOK',
           UNCHANGED <<tasks, attempts, leases, agents, batches, escalations, physical>>,
           \A id \in AttemptIds :
               /\ executions'[id].isolated = executions[id].isolated
               /\ HasExecution(id)' <=> HasExecution(id)
               /\ executions'[id].quiescent => physical[id] = "ended"
    PROVE  IInv'
<1> USE Zenon
<1>1. Evidence'
    BY DEF IInv, Evidence
<1>2. \A id \in AttemptIds : Unquiet(id)' => Unquiet(id)
    BY DEF Unquiet
<1>3. Accounted'
    BY <1>2 DEF IInv, Accounted, Active, Obligation
<1> QED
    BY SMT, <1>1, <1>3 DEF IInv, Agreement, Binding, SuspendedAsksRoot, Quarantine, Unsubmitted,
       Active, Obligation

\* record_physical_outcome: history is written, quiescence only of what has ended.
LEMMA RecordOutcomeStep ==
    ASSUME IInv, NEW id \in AttemptIds, NEW state \in ExecutionState,
           NEW classed \in BOOLEAN, NEW terminal \in BOOLEAN, NEW q \in BOOLEAN, Truthful(id, q),
           record_physical_outcome(id, state, classed, terminal, q)
    PROVE  IInv'
<1> USE Zenon
<1> DEFINE unresolved == state \in {"UNKNOWN", "LOST"}
           row == [executions[id] EXCEPT
                      !.state = state,
                      !.terminal = ~unresolved /\ (@ \/ terminal),
                      !.quiescent = ~unresolved /\ (@ \/ q),
                      !.classed = @ \/ classed]
           action == incarnation_presence(state, terminal, q, FALSE)
<1>1. /\ HasExecution(id)
      /\ executions' = [executions EXCEPT ![id] = row]
      /\ incarnations' = IF execution_still_attached(id)
                         THEN [incarnations EXCEPT ![IncarnationOf(id)] =
                                  PresenceState(action, @)]
                         ELSE incarnations
      /\ UNCHANGED <<tasks, attempts, leases, agents, batches, escalations, results,
                     wakeups, decisions, capacity, physical>>
    BY DEF record_physical_outcome
<1>2. /\ executions[id] \in ExecutionRow
      /\ row \in ExecutionRow
      /\ row.isolated = executions[id].isolated
      /\ row.state = state
      /\ row.quiescent => executions[id].quiescent \/ q
    BY ZenonT(60) DEF IInv, TypeOK, ExecutionRow
<1>3. incarnations' \in [IncarnationIds -> IncarnationState]
    BY <1>1 DEF IInv, TypeOK, PresenceState, IncarnationState
<1>4. executions' \in [AttemptIds -> ExecutionRow]
    BY <1>1, <1>2 DEF IInv, TypeOK
<1>5. TypeOK'
    BY <1>1, <1>3, <1>4 DEF IInv, TypeOK
<1>6. \A i \in AttemptIds : executions'[i] = IF i = id THEN row ELSE executions[i]
    BY <1>1 DEF IInv, TypeOK
<1>7. state # "NONE"
    BY DEF ExecutionState
<1>8. \A i \in AttemptIds :
          /\ executions'[i].isolated = executions[i].isolated
          /\ HasExecution(i)' <=> HasExecution(i)
          /\ executions'[i].quiescent => physical[i] = "ended"
    BY SMT, <1>1, <1>2, <1>6, <1>7 DEF IInv, Evidence, HasExecution, Truthful
<1> QED
    BY <1>1, <1>5, <1>8, HistoryOnly

\* record_pending_physical_terminal: the same for a collected end.
LEMMA RecordPendingStep ==
    ASSUME IInv, NEW id \in AttemptIds, NEW state, NEW classed \in BOOLEAN, NEW q \in BOOLEAN,
           Truthful(id, q),
           record_pending_physical_terminal(id, state, classed, q)
    PROVE  IInv'
<1> USE Zenon
<1>1. /\ HasExecution(id) /\ state \in EndedExecution
      /\ executions' = [executions EXCEPT ![id].state = state, ![id].terminal = TRUE,
                                          ![id].quiescent = q, ![id].classed = classed]
      /\ UNCHANGED <<tasks, attempts, leases, incarnations, agents, batches, escalations,
                     results, wakeups, decisions, capacity, physical>>
    BY DEF record_pending_physical_terminal
<1>0. state \in ExecutionState
    BY <1>1 DEF ExecutionState, EndedExecution
<1>2. executions' \in [AttemptIds -> ExecutionRow]
    <2> DEFINE row == [executions[id] EXCEPT !.state = state, !.terminal = TRUE,
                                             !.quiescent = q, !.classed = classed]
    <2>1. row \in ExecutionRow
        BY ZenonT(60), <1>0 DEF IInv, TypeOK, ExecutionRow
    <2>2. executions' = [executions EXCEPT ![id] = row]
        BY <1>1
    <2> QED
        BY <2>1, <2>2 DEF IInv, TypeOK
<1>3. TypeOK'
    BY <1>1, <1>2 DEF IInv, TypeOK
<1>4. \A i \in AttemptIds :
          /\ executions'[i].isolated = executions[i].isolated
          /\ HasExecution(i)' <=> HasExecution(i)
          /\ executions'[i].quiescent => physical[i] = "ended"
    BY SMTT(40), <1>1 DEF IInv, TypeOK, ExecutionRow, Evidence, HasExecution, Truthful, EndedExecution
<1> QED
    BY <1>1, <1>3, <1>4, HistoryOnly

\* create_execution: the new execution belongs to the attempt in authority.
LEMMA CreateExecutionStep ==
    ASSUME IInv, NEW id \in AttemptIds, NEW isolated \in BOOLEAN,
           create_execution(id, isolated)
    PROVE  IInv'
<1>1. PICK n \in 1..MaxGenerations :
          /\ ~HasExecution(id)
          /\ incarnations' = [incarnations EXCEPT ![<<attempts[id].agent, n>>] =
                                 IF @ = "NONE" THEN "STARTING" ELSE @]
          /\ attempts' = [attempts EXCEPT ![id].incarnation = n]
    BY Zenon DEF create_execution
<1>2. /\ validate_authority(id)
      /\ executions' = [executions EXCEPT ![id] =
                           [state |-> "STARTING", isolated |-> isolated,
                            terminal |-> FALSE, quiescent |-> FALSE, classed |-> FALSE]]
      /\ UNCHANGED <<tasks, leases, agents, batches, escalations, results, wakeups,
                     decisions, capacity, physical>>
    BY ZenonT(60) DEF create_execution
<1>3. TypeOK'
    <2>1. attempts' \in [AttemptIds -> AttemptRow]
        <3>1. n \in 0..MaxGenerations
            BY KernelAssumption
        <3>2. [attempts[id] EXCEPT !.incarnation = n] \in AttemptRow
            BY ZenonT(60), <3>1 DEF IInv, TypeOK, AttemptRow
        <3> QED
            BY ZenonT(60), <1>1, <3>2 DEF IInv, TypeOK
    <2>2. executions' \in [AttemptIds -> ExecutionRow]
        BY Zenon, <1>2 DEF IInv, TypeOK, ExecutionRow, ExecutionState
    <2>3. incarnations' \in [IncarnationIds -> IncarnationState]
        BY Zenon, <1>1 DEF IInv, TypeOK, IncarnationState
    <2> QED
        BY <2>1, <2>2, <2>3, <1>2 DEF IInv, TypeOK
<1>4. \A i \in AttemptIds : /\ attempts'[i].state = attempts[i].state
                            /\ attempts'[i].agent = attempts[i].agent
    BY <1>1 DEF IInv, TypeOK, AttemptRow
<1>5. Agreement' /\ Binding'
    BY <1>2, <1>4 DEF IInv, Agreement, Binding, Active
<1>6. executions'[id].state = "STARTING" /\ ~executions'[id].quiescent
    BY Zenon, <1>2 DEF IInv, TypeOK
<1>7. \A i \in AttemptIds : i # id => executions'[i] = executions[i]
    BY Zenon, <1>2 DEF IInv, TypeOK
<1>8. Evidence'
    BY <1>1, <1>2, <1>6, <1>7 DEF IInv, Evidence, HasExecution
<1>9. Accounted'
    BY <1>2, <1>4, <1>7, AttemptIdFacts
       DEF IInv, Accounted, Active, Obligation, Unquiet, HasExecution, validate_authority
<1> QED
    BY <1>2, <1>3, <1>5, <1>8, <1>9
       DEF IInv, SuspendedAsksRoot, Quarantine, Unsubmitted, Obligation

\* confirm_running_and_renew: the task of an ACTIVE attempt is RUNNING.
LEMMA ConfirmRunningStep ==
    ASSUME IInv, NEW id \in AttemptIds, confirm_running_and_renew(id)
    PROVE  IInv'
<1>1. /\ validate_authority(id)
      /\ executions[id].state \in LiveExecution
      /\ executions' = [executions EXCEPT ![id].state = "RUNNING"]
      /\ tasks' = [tasks EXCEPT ![id[1]].state = "RUNNING"]
      /\ incarnations' = [incarnations EXCEPT ![IncarnationOf(id)] = "WARM"]
      /\ UNCHANGED <<attempts, leases, agents, batches, escalations, results, wakeups,
                     decisions, capacity, physical>>
    BY Zenon DEF confirm_running_and_renew
<1>2. TypeOK'
    <2>1. tasks' \in [Tasks -> TaskRow]
        <3> DEFINE row == [tasks[id[1]] EXCEPT !.state = "RUNNING"]
        <3>1. row \in TaskRow
            BY ZenonT(60), AttemptIdFacts DEF IInv, TypeOK, TaskRow, TaskState
        <3>2. tasks' = [tasks EXCEPT ![id[1]] = row]
            BY Zenon, <1>1
        <3> QED
            BY Zenon, <3>1, <3>2 DEF IInv, TypeOK
    <2>2. executions' \in [AttemptIds -> ExecutionRow]
        BY ZenonT(60), <1>1 DEF IInv, TypeOK, ExecutionRow, ExecutionState
    <2>3. incarnations' \in [IncarnationIds -> IncarnationState]
        BY Zenon, <1>1 DEF IInv, TypeOK, IncarnationState
    <2> QED
        BY <2>1, <2>2, <2>3, <1>1 DEF IInv, TypeOK
<1>3. \A t \in Tasks : /\ tasks'[t].current = tasks[t].current
                       /\ tasks'[t].epoch = tasks[t].epoch
                       /\ t # id[1] => tasks'[t].state = tasks[t].state
    BY <1>1 DEF IInv, TypeOK, TaskRow
<1>4. /\ id[1] \in Tasks /\ tasks'[id[1]].state = "RUNNING"
      /\ tasks[id[1]].state \in {"LEASED", "RUNNING"}
    BY <1>1, AttemptIdFacts DEF IInv, TypeOK, TaskRow, Agreement, Active, validate_authority
<1>5. Agreement'
    BY <1>1, <1>3, <1>4, AttemptIdFacts DEF IInv, Agreement, Active
<1>6. SuspendedAsksRoot'
    BY <1>1, <1>3, <1>4 DEF IInv, SuspendedAsksRoot
<1>7. \A i \in AttemptIds :
          /\ executions'[i].isolated = executions[i].isolated
          /\ executions'[i].quiescent = executions[i].quiescent
          /\ HasExecution(i)' <=> HasExecution(i)
    BY <1>1 DEF IInv, TypeOK, ExecutionRow, HasExecution, LiveExecution
<1>8. Evidence'
    BY Zenon, <1>1, <1>7 DEF IInv, Evidence
<1>9. Accounted'
    BY <1>1, <1>3, <1>7, AttemptIdFacts DEF IInv, Accounted, Active, Obligation, Unquiet
<1> QED
    BY <1>1, <1>2, <1>3, <1>5, <1>6, <1>8, <1>9
       DEF IInv, Binding, Quarantine, Unsubmitted, Active, Obligation

----------------------------------------------------------------------------
(* The end of an attempt *)

\* What every caller of CloseAttempts provides.  The last conjunct is the duty of
\* the writer rules: whatever may still run after the step is escalated.
Consequences(out) ==
    \A id \in DOMAIN out :
        /\ id \in AttemptIds /\ Active(id)
        /\ out[id].attempt \in {"SUCCEEDED", "FAILED", "EXPIRED", "CANCELLED"}
        /\ out[id].lease \in {"RELEASED", "REVOKED", "EXPIRED"}
        /\ out[id].task \in {"COMPLETED", "RETRY_WAIT", "SUSPENDED", "QUEUED", "CANCELLED"}
        /\ out[id].cause \in Cause \cup {"NONE"}
        /\ out[id].task = "SUSPENDED" => out[id].cause # "NONE"
        /\ out[id].cause # "NONE" => out[id].task \in {"SUSPENDED", "CANCELLED"}
        /\ Unquiet(id)' => out[id].cause = WriterUnknown

\* What such a transaction may do to the tasks.
TaskConsequences(out) ==
    \A t \in Tasks :
        /\ tasks'[t].epoch = tasks[t].epoch
        /\ IF Current(t) \in DOMAIN out
           THEN tasks'[t].current = 0 /\ tasks'[t].state = out[Current(t)].task
           ELSE /\ tasks'[t].current = tasks[t].current
                /\ \/ tasks'[t].state = tasks[t].state
                   \/ tasks[t].state = "BLOCKED" /\ tasks'[t].state = "QUEUED"
                   \/ tasks[t].current = 0 /\ tasks'[t].state = "CANCELLED"

\* The escalations before the new ones: only those of cancelled tasks that are
\* not obligations of a writer may have been dropped.
Dropped(open) ==
    /\ open \in [Tasks -> EscalationRow]
    /\ \A t \in Tasks : \/ open[t] = escalations[t]
                        \/ /\ ~Obligation(t)
                           /\ open[t].state = "CANCELLED"
                           /\ tasks'[t].state = "CANCELLED"

\* An agent works for one attempt at a time.
LEMMA OneAttemptPerAgent ==
    ASSUME IInv, NEW i \in AttemptIds, NEW j \in AttemptIds, Active(i), Active(j),
           attempts[i].agent = attempts[j].agent
    PROVE  i = j
BY AttemptIdFacts DEF IInv, Binding, Agreement

\* The attempt of a task whose current attempt is i is i.
LEMMA ActiveIsCurrent ==
    ASSUME IInv, NEW i \in AttemptIds, Active(i)
    PROVE  /\ Current(i[1]) = i /\ i[1] \in Tasks /\ tasks[i[1]].current # 0
           /\ tasks[i[1]].state \in {"LEASED", "RUNNING"}
           /\ escalations[i[1]].state # "OPEN"
BY AttemptIdFacts DEF IInv, Agreement, Current, SuspendedAsksRoot

\* A new escalation is a row of its table.
LEMMA OpenRow ==
    ASSUME NEW c \in Cause \cup {"NONE"}, NEW h \in Agents
    PROVE  [state |-> "OPEN", cause |-> c, agent |-> h] \in EscalationRow
BY Zenon DEF EscalationRow, EscalationState

\* Closing attempts keeps the invariant, whichever operation does it.
LEMMA Closing ==
    ASSUME IInv, NEW out, NEW open, CloseAttempts(out, open),
           Consequences(out), TaskConsequences(out), Dropped(open),
           tasks' \in [Tasks -> TaskRow], executions' \in [AttemptIds -> ExecutionRow],
           batches' \in [Batches -> BatchState], wakeups' \in [Batches -> Nat],
           results' \in [Tasks -> {"NONE", "AVAILABLE", "ACKED"}],
           UNCHANGED <<capacity, physical>>,
           \A b \in Batches : batches'[b] = "NONE" => batches[b] = "NONE",
           \A id \in AttemptIds : Unquiet(id)' => Unquiet(id),
           Evidence'
    PROVE  IInv'
<1> USE Zenon
<1> DEFINE quarantined == {attempts[id].agent : id \in
                              {i \in DOMAIN out : out[i].cause = WriterUnknown}}
           released == {attempts[id].agent : id \in
                              {i \in DOMAIN out : out[i].cause # WriterUnknown}}
<1>1. /\ attempts' = [id \in AttemptIds |->
                         IF id \in DOMAIN out
                         THEN [attempts[id] EXCEPT !.state = out[id].attempt]
                         ELSE attempts[id]]
      /\ leases' = [id \in AttemptIds |->
                       IF id \in DOMAIN out THEN out[id].lease ELSE leases[id]]
      /\ agents' = [g \in Agents |->
                       IF g \in quarantined THEN SuspendedAgent(g)
                       ELSE IF g \in released THEN release_agent(g)
                       ELSE agents[g]]
      /\ escalations' = [t \in Tasks |->
                            IF Escalated(out, t) /\ open[t].state # "OPEN"
                            THEN [state |-> "OPEN", cause |-> out[Current(t)].cause,
                                  agent |-> attempts[Current(t)].agent]
                            ELSE open[t]]
      /\ decisions' = [t \in Tasks |->
                          IF Escalated(out, t) /\ open[t].state # "OPEN"
                          THEN decisions[t] + 1 ELSE decisions[t]]
    BY DEF CloseAttempts
<1>2. incarnations' \in [IncarnationIds -> IncarnationState]
    <2>1. \E G, fenced :
             /\ fenced \in [IncarnationIds -> IncarnationState]
             /\ incarnations' = RetireIncarnations(G, fenced)
        <3> DEFINE Observed(i, action) ==
                       \E id \in DOMAIN out :
                           IncarnationOf(id) = i /\ out[id].presence = action
                   fenced == [i \in IncarnationIds |->
                      IF Observed(i, "PromoteWarm")
                      THEN PresenceState("PromoteWarm", incarnations[i])
                      ELSE IF Observed(i, "FenceTerminated")
                      THEN PresenceState("FenceTerminated", incarnations[i])
                      ELSE IF Observed(i, "FenceLost")
                      THEN PresenceState("FenceLost", incarnations[i])
                      ELSE incarnations[i]]
        <3>1. incarnations' = RetireIncarnations({g \in released : Retires(g)}, fenced)
            BY DEF CloseAttempts
        <3>2. \A action, s : s \in IncarnationState => PresenceState(action, s) \in IncarnationState
            BY DEF PresenceState, IncarnationState
        <3> HIDE DEF Observed
        <3>3. fenced \in [IncarnationIds -> IncarnationState]
            BY <3>2 DEF IInv, TypeOK
        <3> QED
            BY <3>1, <3>3
    <2> QED
        BY <2>1 DEF RetireIncarnations, IncarnationState
<1>3. \A g \in quarantined \cup released :
          \E id \in DOMAIN out : Active(id) /\ id \in AttemptIds /\ attempts[id].agent = g
    BY DEF Consequences
<1>4. \A id \in AttemptIds : /\ id \in DOMAIN out => attempts'[id].state = out[id].attempt
                             /\ id \notin DOMAIN out => attempts'[id].state = attempts[id].state
                             /\ attempts'[id].agent = attempts[id].agent
    BY SMT, <1>1 DEF IInv, TypeOK, AttemptRow
<1>5. \A id \in AttemptIds : Active(id)' <=> Active(id) /\ id \notin DOMAIN out
    BY SMT, <1>4 DEF Active, Consequences
<1>6. \A t \in Tasks : Current(t) \in DOMAIN out =>
          /\ Current(t) \in AttemptIds /\ Active(Current(t))
          /\ escalations[t].state # "OPEN" /\ open[t].state # "OPEN"
          /\ tasks[t].state \in {"LEASED", "RUNNING"}
          /\ attempts[Current(t)].agent \in Agents
    <2> SUFFICES ASSUME NEW t \in Tasks, Current(t) \in DOMAIN out
                 PROVE  /\ Current(t) \in AttemptIds /\ Active(Current(t))
                        /\ escalations[t].state # "OPEN" /\ open[t].state # "OPEN"
                        /\ tasks[t].state \in {"LEASED", "RUNNING"}
                        /\ attempts[Current(t)].agent \in Agents
        OBVIOUS
    <2>1. Current(t) \in AttemptIds /\ Active(Current(t)) /\ Current(t)[1] = t
        BY DEF Consequences, Current
    <2> QED
        BY SMTT(40), <2>1, ActiveIsCurrent DEF IInv, Binding, Dropped
<1> HIDE DEF quarantined, released
<1>7. \A g \in Agents :
          (\A id \in DOMAIN out : attempts[id].agent # g) => agents'[g] = agents[g]
    BY ZenonT(60), <1>1, <1>3
<1>8. \A t \in Tasks :
          /\ Escalated(out, t) => /\ Current(t) \in DOMAIN out
                                  /\ out[Current(t)].cause # "NONE"
                                  /\ escalations'[t].state = "OPEN"
                                  /\ escalations'[t].cause = out[Current(t)].cause
                                  /\ escalations'[t].agent = attempts[Current(t)].agent
                                  /\ escalations'[t] \in EscalationRow
          /\ ~Escalated(out, t) => escalations'[t] = open[t]
    <2> SUFFICES ASSUME NEW t \in Tasks
                 PROVE  /\ Escalated(out, t) => /\ Current(t) \in DOMAIN out
                                                /\ out[Current(t)].cause # "NONE"
                                                /\ escalations'[t].state = "OPEN"
                                                /\ escalations'[t].cause = out[Current(t)].cause
                                                /\ escalations'[t].agent = attempts[Current(t)].agent
                                                /\ escalations'[t] \in EscalationRow
                        /\ ~Escalated(out, t) => escalations'[t] = open[t]
        BY ZenonT(60)
    <2>1. CASE Escalated(out, t)
        <3>1. Current(t) \in DOMAIN out /\ out[Current(t)].cause # "NONE"
              /\ open[t].state # "OPEN" /\ attempts[Current(t)].agent \in Agents
              /\ out[Current(t)].cause \in Cause \cup {"NONE"}
            BY <2>1, <1>6 DEF Escalated, Consequences
        <3>2. escalations'[t] = [state |-> "OPEN", cause |-> out[Current(t)].cause,
                                 agent |-> attempts[Current(t)].agent]
            BY SMT, <1>1, <2>1, <3>1
        <3>3. escalations'[t] \in EscalationRow
            BY ZenonT(60), <3>1, <3>2, OpenRow
        <3>4. /\ escalations'[t].state = "OPEN"
              /\ escalations'[t].cause = out[Current(t)].cause
              /\ escalations'[t].agent = attempts[Current(t)].agent
            BY SMT, <3>2
        <3> QED
            BY ZenonT(60), <2>1, <3>1, <3>3, <3>4
    <2>2. CASE ~Escalated(out, t)
        BY ZenonT(60), <1>1, <2>2
    <2> QED
        BY ZenonT(60), <2>1, <2>2
<1>9. \A t \in Tasks : Obligation(t) => Obligation(t)' /\ escalations'[t] = escalations[t]
    BY SMT, <1>6, <1>8 DEF Obligation, Dropped, Escalated
<1>10. TypeOK'
    <2>1. attempts' \in [AttemptIds -> AttemptRow]
        <3>1. \A id \in DOMAIN out : out[id].attempt \in AttemptState
            BY DEF Consequences, AttemptState
        <3>2. \A id \in AttemptIds : id \in DOMAIN out =>
                 [attempts[id] EXCEPT !.state = out[id].attempt] \in AttemptRow
            BY ZenonT(60), <3>1 DEF IInv, TypeOK, AttemptRow
        <3> QED
            BY SMT, <3>2, <1>1 DEF IInv, TypeOK
    <2>2. leases' \in [AttemptIds -> LeaseState]
        BY SMT, <1>1 DEF IInv, TypeOK, LeaseState, Consequences
    <2>3. agents' \in [Agents -> AgentRow]
        <3>1. \A g \in Agents : /\ SuspendedAgent(g) \in AgentRow
                                /\ release_agent(g) \in AgentRow
                                /\ agents[g] \in AgentRow
            BY ZenonT(60) DEF IInv, TypeOK, AgentRow, AgentState, SuspendedAgent, release_agent
        <3> QED
            BY <3>1, <1>1
    <2>4. escalations' \in [Tasks -> EscalationRow]
        <3>1. \A t \in Tasks : escalations'[t] \in EscalationRow
            BY SMT, <1>8 DEF Dropped
        <3> QED
            BY <3>1, <1>1
    <2>5. decisions' \in [Tasks -> Nat]
        BY SMT, <1>1 DEF IInv, TypeOK
    <2> QED
        BY <1>2, <2>1, <2>2, <2>3, <2>4, <2>5 DEF IInv, TypeOK
<1>11. Agreement'
    <2> SUFFICES ASSUME NEW i \in AttemptIds
                 PROVE  /\ Active(i)' <=> leases'[i] \in {"ACTIVE", "ELAPSED"}
                        /\ Active(i)' <=> tasks'[i[1]].current = i[2]
                        /\ Active(i)' => /\ tasks'[i[1]].epoch = i[2]
                                         /\ tasks'[i[1]].state \in {"LEASED", "RUNNING"}
        BY DEF Agreement
    <2>0. i[1] \in Tasks /\ i[2] # 0 /\ i[2] \in Nat /\ i = <<i[1], i[2]>>
        BY SMT, AttemptIdFacts
    <2>1. CASE i \in DOMAIN out
        <3>1. Current(i[1]) = i
            BY <2>1, ActiveIsCurrent DEF Consequences
        <3> QED
            BY ZenonT(60), <2>0, <2>1, <3>1, <1>1, <1>5 DEF Consequences, TaskConsequences
    <2>2. CASE i \notin DOMAIN out /\ Active(i)
        <3>1. Current(i[1]) = i /\ tasks[i[1]].current # 0
              /\ tasks[i[1]].state \in {"LEASED", "RUNNING"}
            BY <2>2, ActiveIsCurrent
        <3>2. /\ tasks'[i[1]].current = tasks[i[1]].current
              /\ tasks'[i[1]].epoch = tasks[i[1]].epoch
              /\ tasks'[i[1]].state = tasks[i[1]].state
            BY SMT, <2>0, <2>2, <3>1 DEF TaskConsequences
        <3> QED
            BY ZenonT(60), <2>2, <3>2, <1>1, <1>5 DEF IInv, Agreement
    <2>3. CASE i \notin DOMAIN out /\ ~Active(i)
        <3>1. tasks[i[1]].current # i[2]
            BY <2>3 DEF IInv, Agreement
        <3>2. tasks'[i[1]].current \in {0, tasks[i[1]].current}
            BY ZenonT(60), <2>0 DEF TaskConsequences
        <3> QED
            BY ZenonT(60), <2>0, <2>3, <3>1, <3>2, <1>1, <1>5 DEF IInv, Agreement
    <2> QED
        BY ZenonT(60), <2>1, <2>2, <2>3
<1>12. Binding'
    <2> SUFFICES ASSUME NEW i \in AttemptIds, Active(i)'
                 PROVE  /\ attempts'[i].agent \in Agents
                        /\ agents'[attempts'[i].agent].task = i[1]
                        /\ agents'[attempts'[i].agent].state \in {"ASSIGNED", "DRAINING"}
        BY DEF Binding
    <2>1. Active(i) /\ i \notin DOMAIN out
        BY ZenonT(60), <1>5
    <2>2. \A id \in DOMAIN out : attempts[id].agent # attempts[i].agent
        BY ZenonT(60), <2>1, OneAttemptPerAgent DEF Consequences
    <2>3. attempts'[i].agent = attempts[i].agent
        BY <1>4
    <2>4. /\ attempts[i].agent \in Agents
          /\ agents[attempts[i].agent].task = i[1]
          /\ agents[attempts[i].agent].state \in {"ASSIGNED", "DRAINING"}
        BY ZenonT(60), <2>1 DEF IInv, Binding
    <2>5. agents'[attempts[i].agent] = agents[attempts[i].agent]
        BY ZenonT(60), <2>2, <2>4, <1>7
    <2> QED
        BY ZenonT(60), <2>3, <2>4, <2>5
<1>13. SuspendedAsksRoot'
    <2> SUFFICES ASSUME NEW t \in Tasks
                 PROVE  /\ tasks'[t].state = "SUSPENDED" => escalations'[t].state = "OPEN"
                        /\ escalations'[t].state = "OPEN"
                           => tasks'[t].state \in {"SUSPENDED", "CANCELLED"}
        BY ZenonT(60) DEF SuspendedAsksRoot
    <2>1. CASE Current(t) \in DOMAIN out
        BY ZenonT(60), <2>1, <1>6, <1>8 DEF Escalated, Consequences, TaskConsequences
    <2>2. CASE Current(t) \notin DOMAIN out
        <3>1. escalations'[t] = open[t]
            BY ZenonT(60), <2>2, <1>8 DEF Escalated
        <3>2. \/ open[t] = escalations[t]
              \/ open[t].state = "CANCELLED" /\ tasks'[t].state = "CANCELLED"
            BY ZenonT(60) DEF Dropped
        <3>3. /\ tasks[t].state = "SUSPENDED" => escalations[t].state = "OPEN"
              /\ escalations[t].state = "OPEN" => tasks[t].state \in {"SUSPENDED", "CANCELLED"}
            BY ZenonT(60) DEF IInv, SuspendedAsksRoot
        <3>4. \/ tasks'[t].state = tasks[t].state
              \/ tasks[t].state = "BLOCKED" /\ tasks'[t].state = "QUEUED"
              \/ tasks'[t].state = "CANCELLED"
            BY ZenonT(60), <2>2 DEF TaskConsequences
        <3> QED
            BY ZenonT(60), <3>1, <3>2, <3>3, <3>4
    <2> QED
        BY <2>1, <2>2
<1>14. \A t \in Tasks : Obligation(t)' =>
          \/ Obligation(t) /\ escalations'[t] = escalations[t]
          \/ /\ Current(t) \in DOMAIN out
             /\ out[Current(t)].cause = WriterUnknown
             /\ escalations'[t].agent = attempts[Current(t)].agent
    BY ZenonT(60), <1>8, <1>9 DEF Obligation, Escalated, Dropped
<1>15. \A t \in Tasks : Obligation(t) =>
          \A id \in DOMAIN out : attempts[id].agent # escalations[t].agent
    BY SMT DEF IInv, Binding, Quarantine, Consequences
<1>16. Quarantine'
    <2>1. ASSUME NEW t \in Tasks, Obligation(t)'
          PROVE  /\ escalations'[t].agent \in Agents
                 /\ agents'[escalations'[t].agent].state = "SUSPENDED"
        <3>1. CASE Obligation(t) /\ escalations'[t] = escalations[t]
            BY SMT, <3>1, <1>7, <1>15 DEF IInv, Quarantine
        <3>2. CASE /\ Current(t) \in DOMAIN out
                   /\ out[Current(t)].cause = WriterUnknown
                   /\ escalations'[t].agent = attempts[Current(t)].agent
            <4> DEFINE g == attempts[Current(t)].agent
            <4>1. g \in Agents /\ agents[g].state \in {"ASSIGNED", "DRAINING"}
                BY ZenonT(60), <3>2, <1>6 DEF IInv, Binding
            <4>2. g \in quarantined
                BY <3>2 DEF quarantined
            <4>3. agents'[g] = SuspendedAgent(g)
                BY <4>1, <4>2, <1>1
            <4>4. SuspendedAgent(g).state = "SUSPENDED"
                BY ZenonT(60), <4>1 DEF IInv, TypeOK, AgentRow, SuspendedAgent
            <4> QED
                BY ZenonT(60), <3>2, <4>1, <4>3, <4>4
        <3> QED
            BY ZenonT(60), <2>1, <3>1, <3>2, <1>14
    <2>2. ASSUME NEW t \in Tasks, NEW u \in Tasks, Obligation(t)', Obligation(u)',
                 escalations'[t].agent = escalations'[u].agent
          PROVE  t = u
        <3>1. CASE Obligation(t) /\ Obligation(u)
            BY ZenonT(60), <3>1, <2>2, <1>9 DEF IInv, Quarantine
        <3>2. CASE Obligation(t) /\ ~Obligation(u)
            BY ZenonT(60), <3>2, <2>2, <1>9, <1>14, <1>15
        <3>3. CASE ~Obligation(t) /\ Obligation(u)
            BY ZenonT(60), <3>3, <2>2, <1>9, <1>14, <1>15
        <3>4. CASE ~Obligation(t) /\ ~Obligation(u)
            <4>1. Current(t) \in DOMAIN out /\ Current(u) \in DOMAIN out
                  /\ attempts[Current(t)].agent = attempts[Current(u)].agent
                BY ZenonT(60), <3>4, <2>2, <1>14
            <4>2. Current(t) = Current(u)
                BY ZenonT(60), <4>1, <1>6, OneAttemptPerAgent
            <4> QED
                BY ZenonT(60), <4>2 DEF Current
        <3> QED
            BY ZenonT(60), <3>1, <3>2, <3>3, <3>4
    <2> QED
        BY <2>1, <2>2 DEF Quarantine
<1>17. Unsubmitted'
    <2> SUFFICES ASSUME NEW t \in Tasks, batches'[BatchOf[t]] = "NONE"
                 PROVE  /\ tasks'[t].epoch = 0
                        /\ tasks'[t].current = 0
                        /\ escalations'[t].state # "OPEN"
        BY ZenonT(60) DEF Unsubmitted
    <2>1. /\ tasks[t].epoch = 0 /\ tasks[t].current = 0 /\ escalations[t].state # "OPEN"
        BY ZenonT(60), KernelAssumption DEF IInv, Unsubmitted
    <2>2. Current(t) \notin DOMAIN out
        BY ZenonT(60), <2>1, CurrentFacts DEF IInv, Consequences
    <2> QED
        BY ZenonT(60), <2>1, <2>2, <1>8 DEF TaskConsequences, Escalated, Dropped
<1>18. Accounted'
    <2> SUFFICES ASSUME NEW i \in AttemptIds, Unquiet(i)'
                 PROVE  /\ tasks'[i[1]].epoch = i[2]
                        /\ Active(i)' \/ Obligation(i[1])'
        BY DEF Accounted
    <2>1. i[1] \in Tasks /\ tasks[i[1]].epoch = i[2] /\ (Active(i) \/ Obligation(i[1]))
        BY ZenonT(60), AttemptIdFacts DEF IInv, Accounted
    <2>2. CASE Active(i) /\ i \in DOMAIN out
        <3>1. Current(i[1]) = i /\ out[i].cause = WriterUnknown
            BY <2>2, ActiveIsCurrent DEF Consequences
        <3>2. Escalated(out, i[1])
            BY ZenonT(60), <2>2, <3>1 DEF Escalated, WriterUnknown
        <3>3. Obligation(i[1])'
            BY ZenonT(60), <2>1, <3>1, <3>2, <1>8 DEF Obligation
        <3> QED
            BY ZenonT(60), <2>1, <3>3 DEF TaskConsequences
    <2>3. CASE Active(i) /\ i \notin DOMAIN out
        BY ZenonT(60), <2>1, <2>3, <1>5 DEF TaskConsequences
    <2>4. CASE Obligation(i[1])
        BY <2>1, <2>4, <1>9 DEF TaskConsequences
    <2> QED
        BY ZenonT(60), <2>1, <2>2, <2>3, <2>4
<1> QED
    BY SMT, <1>10, <1>11, <1>12, <1>13, <1>16, <1>17, <1>18 DEF IInv

\* recompute_batch writes states and counts, and never un-submits a batch.
LEMMA RecomputeFacts ==
    ASSUME TypeOK, NEW B, recompute_batch(B)
    PROVE  /\ batches' \in [Batches -> BatchState]
           /\ wakeups' \in [Batches -> Nat]
           /\ \A b \in Batches : batches'[b] = "NONE" => batches[b] = "NONE"
<1> USE Zenon
<1>1. \A b : batch_next_state(b, tasks') \in BatchState \ {"NONE"}
    BY DEF batch_next_state, BatchState
<1>2. batches' = [b \in Batches |-> IF b \in B /\ batches[b] # "CANCELLED"
                                    THEN batch_next_state(b, tasks') ELSE batches[b]]
    BY DEF recompute_batch
<1>3. wakeups' = [b \in Batches |->
                    IF b \in B /\ batches[b] \notin {"CANCELLED", "COMPLETED"}
                          /\ batch_next_state(b, tasks') = "COMPLETED"
                    THEN wakeups[b] + 1 ELSE wakeups[b]]
    BY DEF recompute_batch
<1>4. batches' \in [Batches -> BatchState]
    BY <1>1, <1>2 DEF TypeOK
<1>5. wakeups' \in [Batches -> Nat]
    BY SMTT(40), <1>3 DEF TypeOK
<1> QED
    BY <1>1, <1>2, <1>4, <1>5 DEF TypeOK

\* ClosedTasks moves the tasks of the attempts that end, and no others.
LEMMA ClosedTasksFacts ==
    ASSUME IInv, NEW out, Consequences(out)
    PROVE  /\ ClosedTasks(out) \in [Tasks -> TaskRow]
           /\ \A t \in Tasks :
                 /\ ClosedTasks(out)[t].epoch = tasks[t].epoch
                 /\ Current(t) \in DOMAIN out =>
                       /\ ClosedTasks(out)[t].current = 0
                       /\ ClosedTasks(out)[t].state = out[Current(t)].task
                 /\ Current(t) \notin DOMAIN out => ClosedTasks(out)[t] = tasks[t]
<1> USE Zenon
<1>1. \A id \in DOMAIN out : out[id].task \in TaskState
    BY DEF Consequences, TaskState
<1>2. 0 \in 0..MaxClaims
    BY SMT, KernelAssumption
<1>3. \A t \in Tasks, s \in TaskState :
          LET row == [tasks[t] EXCEPT !.state = s, !.current = 0]
          IN  row \in TaskRow /\ row.state = s /\ row.current = 0 /\ row.epoch = tasks[t].epoch
    BY ZenonT(60), <1>2 DEF IInv, TypeOK, TaskRow
<1>4. \A t \in Tasks : Current(t) \in DOMAIN out =>
          ClosedTasks(out)[t] = [tasks[t] EXCEPT !.state = out[Current(t)].task, !.current = 0]
    BY DEF ClosedTasks
<1>5. \A t \in Tasks : Current(t) \notin DOMAIN out => ClosedTasks(out)[t] = tasks[t]
    BY DEF ClosedTasks
<1>6. \A t \in Tasks : Current(t) \in DOMAIN out =>
          /\ ClosedTasks(out)[t] \in TaskRow
          /\ ClosedTasks(out)[t].epoch = tasks[t].epoch
          /\ ClosedTasks(out)[t].current = 0
          /\ ClosedTasks(out)[t].state = out[Current(t)].task
    <2> SUFFICES ASSUME NEW t \in Tasks, Current(t) \in DOMAIN out
                 PROVE  /\ ClosedTasks(out)[t] \in TaskRow
                        /\ ClosedTasks(out)[t].epoch = tasks[t].epoch
                        /\ ClosedTasks(out)[t].current = 0
                        /\ ClosedTasks(out)[t].state = out[Current(t)].task
        OBVIOUS
    <2> DEFINE s == out[Current(t)].task
               row == [tasks[t] EXCEPT !.state = s, !.current = 0]
    <2>1. s \in TaskState
        BY <1>1
    <2>2. row \in TaskRow /\ row.state = s /\ row.current = 0 /\ row.epoch = tasks[t].epoch
        BY <2>1, <1>3
    <2>3. ClosedTasks(out)[t] = row
        BY ZenonT(60), <1>4
    <2> QED
        BY <2>2, <2>3
<1>7. ClosedTasks(out) \in [Tasks -> TaskRow]
    <2>1. \A t \in Tasks : ClosedTasks(out)[t] \in TaskRow
        BY ZenonT(60), <1>5, <1>6 DEF IInv, TypeOK
    <2> QED
        BY ZenonT(60), <2>1 DEF ClosedTasks
<1> QED
    BY ZenonT(60), <1>5, <1>6, <1>7

\* Nothing is dropped when the escalations are taken as they are.
LEMMA NothingDropped == ASSUME IInv PROVE Dropped(escalations)
BY ZenonT(60) DEF IInv, TypeOK, Dropped

\* A failure, whatever its path, ends one attempt and leaves the batch up to date.
LEMMA FailureClosing ==
    ASSUME IInv, NEW id \in AttemptIds, NEW out, Consequences(out),
           FailureConsequence(id, out),
           executions' \in [AttemptIds -> ExecutionRow],
           \A i \in AttemptIds : Unquiet(i)' => Unquiet(i),
           Evidence'
    PROVE  IInv'
<1>1. /\ CloseAttempts(out, escalations)
      /\ tasks' = ClosedTasks(out)
      /\ recompute_batch(IF out[id].task = "SUSPENDED" THEN {BatchOf[id[1]]} ELSE {})
      /\ UNCHANGED <<results, capacity, physical>>
    BY ZenonT(60) DEF FailureConsequence
<1>2. /\ batches' \in [Batches -> BatchState]
      /\ wakeups' \in [Batches -> Nat]
      /\ \A b \in Batches : batches'[b] = "NONE" => batches[b] = "NONE"
    BY ZenonT(60), <1>1, RecomputeFacts DEF IInv
<1>3. tasks' \in [Tasks -> TaskRow] /\ TaskConsequences(out)
    BY ZenonT(60), <1>1, ClosedTasksFacts DEF TaskConsequences
<1>4. results' \in [Tasks -> {"NONE", "AVAILABLE", "ACKED"}]
    BY Zenon, <1>1 DEF IInv, TypeOK
<1> QED
    BY ZenonT(60), <1>1, <1>2, <1>3, <1>4, NothingDropped, Closing

\* validate_authority admits only the attempt in authority.
LEMMA AuthorityIsActive ==
    ASSUME NEW id, validate_authority(id) PROVE Active(id)
BY ZenonT(60) DEF validate_authority, Active

\* The failure rules escalate a writer that may still run.
LEMMA FailedConsequences ==
    ASSUME IInv, NEW id \in AttemptIds, Active(id), NEW class \in FailureClass,
           NEW quiescent \in BOOLEAN, NEW presence,
           quiescent => physical[id] = "ended",
           Unquiet(id)' => Unquiet(id)
    PROVE  Consequences(Failed(id, class, quiescent, presence))
<1> USE Zenon
<1> DEFINE safe == writer_is_safe_to_replace(id[1] \in Writers, HasExecution(id), quiescent,
                                             executions[id].isolated)
           out == Failed(id, class, quiescent, presence)
<1>1. Unquiet(id) => ~safe
    BY DEF Unquiet, writer_is_safe_to_replace
<1>2. class \in Cause /\ WriterUnknown \in Cause /\ class # "NONE" /\ WriterUnknown # "NONE"
    BY KernelAssumption DEF Cause, WriterUnknown
<1>3. CASE retry_allowed(id[1], class, id[2]) /\ safe
    <2>1. out = CloseOne(id, "FAILED", "RELEASED", "RETRY_WAIT", presence, "NONE")
        BY <1>3 DEF Failed
    <2> HIDE DEF out
    <2>2. DOMAIN out = {id} /\ out[id].attempt = "FAILED" /\ out[id].lease = "RELEASED"
          /\ out[id].task = "RETRY_WAIT" /\ out[id].cause = "NONE"
        BY ZenonT(60), <2>1 DEF CloseOne
    <2>3. Consequences(out)
        BY ZenonT(60), <2>2, <1>1, <1>3 DEF Consequences
    <2> QED
        BY ZenonT(60), <2>3 DEF out
<1>4. CASE ~(retry_allowed(id[1], class, id[2]) /\ safe)
    <2> DEFINE cause == suspension_failure_class(safe, class)
    <2>1. out = CloseOne(id, "FAILED", "REVOKED", "SUSPENDED", presence, cause)
        BY ZenonT(60), <1>4 DEF Failed
    <2>2. cause \in Cause /\ cause # "NONE" /\ (Unquiet(id) => cause = WriterUnknown)
        BY <1>1, <1>2 DEF suspension_failure_class
    <2> HIDE DEF cause, out
    <2>3. DOMAIN out = {id} /\ out[id].attempt = "FAILED" /\ out[id].lease = "REVOKED"
          /\ out[id].task = "SUSPENDED" /\ out[id].cause = cause
        BY ZenonT(60), <2>1 DEF CloseOne
    <2>4. Consequences(out)
        BY <2>2, <2>3 DEF Consequences
    <2> QED
        BY <2>4 DEF out
<1> QED
    BY ZenonT(60), <1>3, <1>4

\* nack: the failed attempt is closed, and a writer without proof becomes an obligation.
LEMMA NackStep ==
    ASSUME IInv, NEW id \in AttemptIds, NEW class \in FailureClass, NEW terminal \in BOOLEAN,
           NEW q \in BOOLEAN, NEW reusable, Truthful(id, q),
           nack(id, class, terminal, q, reusable)
    PROVE  IInv'
<1> USE Zenon
<1> DEFINE durable == durable_quiescence(terminal, q)
           presence == incarnation_presence(PresenceOfFailure(class), terminal, durable,
                                            reusable)
           row == [executions[id] EXCEPT !.state = IF terminal THEN "FAILED" ELSE "UNKNOWN",
                                         !.terminal = terminal, !.quiescent = durable,
                                         !.classed = TRUE]
<1>1. /\ validate_authority(id)
      /\ FailureConsequence(id, Failed(id, class, durable, presence))
    BY DEF nack
<1>2. executions' = IF executions[id].state \in LiveExecution
                    THEN [executions EXCEPT ![id] = row] ELSE executions
    BY DEF nack
<1>3. physical' = physical
    BY <1>1 DEF FailureConsequence
<1>4. durable \in BOOLEAN /\ (durable => physical[id] = "ended")
    BY DEF durable_quiescence, Truthful
<1>5. /\ row \in ExecutionRow /\ row.isolated = executions[id].isolated
      /\ row.state # "NONE" /\ row.quiescent = durable
    BY ZenonT(60), <1>4 DEF IInv, TypeOK, ExecutionRow, ExecutionState
<1> HIDE DEF row, durable, presence
<1>6. executions' \in [AttemptIds -> ExecutionRow]
    BY <1>2, <1>5 DEF IInv, TypeOK
<1>7. \A i \in AttemptIds : executions'[i] = executions[i]
                            \/ (i = id /\ executions[id].state \in LiveExecution
                                /\ executions'[i] = row)
    BY <1>2 DEF IInv, TypeOK
<1>8. \A i \in AttemptIds : Unquiet(i)' => Unquiet(i)
    BY <1>3, <1>5, <1>7 DEF Unquiet, HasExecution, LiveExecution
<1>9. Evidence'
    BY <1>3, <1>4, <1>5, <1>7 DEF IInv, Evidence, HasExecution, LiveExecution
<1>10. Consequences(Failed(id, class, durable, presence))
    BY <1>1, <1>4, <1>8, AuthorityIsActive, FailedConsequences
<1> QED
    BY <1>1, <1>6, <1>8, <1>9, <1>10, FailureClosing

\* nack_preserving_physical_history: the same, and the execution row is kept.
LEMMA NackPreservingStep ==
    ASSUME IInv, NEW id \in AttemptIds, NEW class \in FailureClass,
           nack_preserving_physical_history(id, class)
    PROVE  IInv'
<1> USE Zenon
<1> DEFINE presence == incarnation_presence(PresenceOfFailure(class), FALSE, FALSE, FALSE)
<1>1. /\ validate_authority(id)
      /\ FailureConsequence(id, Failed(id, class, FALSE, presence))
      /\ executions' = executions
    BY ZenonT(60) DEF nack_preserving_physical_history
<1>2. physical' = physical
    BY <1>1 DEF FailureConsequence
<1>3. executions' \in [AttemptIds -> ExecutionRow] /\ Evidence'
    BY ZenonT(60), <1>1, <1>2 DEF IInv, TypeOK, Evidence, HasExecution
<1>4. \A i \in AttemptIds : Unquiet(i)' => Unquiet(i)
    BY <1>1, <1>2 DEF Unquiet, HasExecution
<1>5. Consequences(Failed(id, class, FALSE, presence))
    BY ZenonT(60), <1>1, <1>4, AuthorityIsActive, FailedConsequences
<1> QED
    BY <1>1, <1>3, <1>4, <1>5, FailureClosing

\* abort_before_physical_start: no process was started, so the row may go.
LEMMA AbortStep ==
    ASSUME IInv, NEW id \in AttemptIds, physical[id] = "none",
           abort_before_physical_start(id)
    PROVE  IInv'
<1> USE Zenon
<1> DEFINE out == CloseOne(id, "FAILED", "RELEASED", "QUEUED", "Ignore", "NONE")
<1>1. /\ validate_authority(id)
      /\ executions' = [executions EXCEPT ![id] = NoExecution]
      /\ FailureConsequence(id, out)
    BY ZenonT(60) DEF abort_before_physical_start
<1>2. physical' = physical
    BY <1>1 DEF FailureConsequence
<1>3. executions' \in [AttemptIds -> ExecutionRow]
    BY <1>1 DEF IInv, TypeOK, ExecutionRow, NoExecution
<1>4. executions'[id] = NoExecution /\ \A i \in AttemptIds \ {id} : executions'[i] = executions[i]
    BY ZenonT(60), <1>1 DEF IInv, TypeOK
<1>5. \A i \in AttemptIds : Unquiet(i)' => Unquiet(i) /\ i # id
    <2>1. ~HasExecution(id)'
        BY SMT, <1>4 DEF HasExecution, NoExecution
    <2>2. \A i \in AttemptIds : Unquiet(i)' => HasExecution(i)'
        BY DEF Unquiet
    <2>3. \A i \in AttemptIds \ {id} : Unquiet(i)' => Unquiet(i)
        BY ZenonT(60), <1>2, <1>4 DEF Unquiet, HasExecution
    <2> QED
        BY ZenonT(60), <2>1, <2>2, <2>3
<1>6. Evidence'
    BY SMTT(40), <1>2, <1>4 DEF IInv, Evidence, HasExecution, NoExecution
<1>7. DOMAIN out = {id} /\ out[id].attempt = "FAILED" /\ out[id].lease = "RELEASED"
      /\ out[id].task = "QUEUED" /\ out[id].cause = "NONE"
    BY ZenonT(60) DEF CloseOne
<1> HIDE DEF out
<1>8. Consequences(out)
    BY <1>1, <1>5, <1>7, AuthorityIsActive DEF Consequences
<1> QED
    BY <1>1, <1>3, <1>5, <1>6, <1>8, FailureClosing

\* release_dependencies only turns BLOCKED tasks into QUEUED ones.
LEMMA ReleaseFacts ==
    ASSUME NEW b, NEW ts \in [Tasks -> TaskRow]
    PROVE  /\ release_dependencies(b, ts) \in [Tasks -> TaskRow]
           /\ \A t \in Tasks :
                 \/ release_dependencies(b, ts)[t] = ts[t]
                 \/ /\ ts[t].state = "BLOCKED"
                    /\ release_dependencies(b, ts)[t].state = "QUEUED"
                    /\ release_dependencies(b, ts)[t].epoch = ts[t].epoch
                    /\ release_dependencies(b, ts)[t].current = ts[t].current
<1> USE Zenon
<1>1. \A t \in Tasks :
          LET row == [ts[t] EXCEPT !.state = "QUEUED"]
          IN  row \in TaskRow /\ row.state = "QUEUED" /\ row.epoch = ts[t].epoch
              /\ row.current = ts[t].current
    BY DEF TaskRow, TaskState
<1>2. \A t \in Tasks : \/ release_dependencies(b, ts)[t] = ts[t]
                       \/ /\ ts[t].state = "BLOCKED"
                          /\ release_dependencies(b, ts)[t] = [ts[t] EXCEPT !.state = "QUEUED"]
    BY DEF release_dependencies
<1>3. \A t \in Tasks : release_dependencies(b, ts)[t] \in TaskRow
    BY ZenonT(60), <1>1, <1>2
<1>4. release_dependencies(b, ts) \in [Tasks -> TaskRow]
    BY <1>3 DEF release_dependencies
<1> QED
    BY <1>1, <1>2, <1>4

\* ack_success: a writer that is not known to be quiet suspends its task instead.
LEMMA AckSuccessStep ==
    ASSUME IInv, NEW id \in AttemptIds, NEW q \in BOOLEAN, NEW reusable, Truthful(id, q),
           ack_success(id, q, reusable)
    PROVE  IInv'
<1> USE Zenon
<1> DEFINE t == id[1]
           unsafe == ~writer_is_safe_to_replace(t \in Writers, HasExecution(id), q,
                                                executions[id].isolated)
           presence == incarnation_presence("SUCCEEDED", TRUE, q /\ ~unsafe,
                                            reusable /\ ~unsafe)
           out == IF unsafe
                  THEN CloseOne(id, "FAILED", "REVOKED", "SUSPENDED", presence, WriterUnknown)
                  ELSE CloseOne(id, "SUCCEEDED", "RELEASED", "COMPLETED", presence, "NONE")
           row == [executions[id] EXCEPT !.state = "SUCCEEDED", !.terminal = TRUE,
                                         !.quiescent = q /\ ~unsafe]
<1>1. /\ validate_authority(id)
      /\ executions' = IF HasExecution(id) THEN [executions EXCEPT ![id] = row]
                       ELSE executions
      /\ CloseAttempts(out, escalations)
      /\ tasks' = IF unsafe THEN ClosedTasks(out)
                  ELSE release_dependencies(BatchOf[t], ClosedTasks(out))
      /\ results' = IF unsafe THEN results ELSE [results EXCEPT ![t] = "AVAILABLE"]
      /\ recompute_batch({BatchOf[t]})
      /\ UNCHANGED <<capacity, physical>>
    BY DEF ack_success
<1>2. Unquiet(id) => unsafe
    BY DEF Unquiet, Truthful, writer_is_safe_to_replace
<1>3. /\ row \in ExecutionRow /\ row.isolated = executions[id].isolated
      /\ row.state # "NONE" /\ (row.quiescent => q)
    BY ZenonT(60) DEF IInv, TypeOK, ExecutionRow, ExecutionState
<1> HIDE DEF row, presence
<1>4. executions' \in [AttemptIds -> ExecutionRow]
    BY <1>1, <1>3 DEF IInv, TypeOK
<1>5. \A i \in AttemptIds : executions'[i] = executions[i]
                            \/ (i = id /\ HasExecution(id) /\ executions'[i] = row)
    BY ZenonT(60), <1>1 DEF IInv, TypeOK
<1>6. \A i \in AttemptIds : Unquiet(i)' => Unquiet(i)
    BY ZenonT(60), <1>1, <1>3, <1>5 DEF Unquiet, HasExecution
<1>7. Evidence'
    BY ZenonT(60), <1>1, <1>3, <1>5 DEF IInv, Evidence, HasExecution, Truthful
<1>8. WriterUnknown \in Cause /\ WriterUnknown # "NONE"
    BY ZenonT(60) DEF Cause, WriterUnknown
<1> HIDE DEF unsafe
<1>9. /\ DOMAIN out = {id}
      /\ out[id].attempt = IF unsafe THEN "FAILED" ELSE "SUCCEEDED"
      /\ out[id].lease = IF unsafe THEN "REVOKED" ELSE "RELEASED"
      /\ out[id].task = IF unsafe THEN "SUSPENDED" ELSE "COMPLETED"
      /\ out[id].cause = IF unsafe THEN WriterUnknown ELSE "NONE"
    BY ZenonT(60) DEF CloseOne
<1> HIDE DEF out
<1>10. Consequences(out)
    BY ZenonT(60), <1>1, <1>2, <1>6, <1>8, <1>9, AuthorityIsActive DEF Consequences
<1>11. tasks' \in [Tasks -> TaskRow] /\ TaskConsequences(out)
    <2>1. ClosedTasks(out) \in [Tasks -> TaskRow]
        BY ZenonT(60), <1>10, ClosedTasksFacts
    <2>2. /\ tasks' \in [Tasks -> TaskRow]
          /\ \A u \in Tasks :
                \/ tasks'[u] = ClosedTasks(out)[u]
                \/ /\ ClosedTasks(out)[u].state = "BLOCKED"
                   /\ tasks'[u].state = "QUEUED"
                   /\ tasks'[u].epoch = ClosedTasks(out)[u].epoch
                   /\ tasks'[u].current = ClosedTasks(out)[u].current
        <3>1. CASE unsafe
            BY ZenonT(60), <3>1, <2>1, <1>1
        <3>2. CASE ~unsafe
            BY SMTT(40), <3>2, <2>1, <1>1, ReleaseFacts
        <3> QED
            BY <3>1, <3>2
    <2>3. \A i \in DOMAIN out : out[i].task # "BLOCKED"
        BY <1>9
    <2> QED
        BY SMTT(40), <2>2, <2>3, <1>10, ClosedTasksFacts DEF TaskConsequences
<1>12. results' \in [Tasks -> {"NONE", "AVAILABLE", "ACKED"}]
    BY <1>1 DEF IInv, TypeOK
<1>13. /\ batches' \in [Batches -> BatchState]
       /\ wakeups' \in [Batches -> Nat]
       /\ \A b \in Batches : batches'[b] = "NONE" => batches[b] = "NONE"
    BY ZenonT(60), <1>1, RecomputeFacts DEF IInv
<1> QED
    BY ZenonT(60), <1>1, <1>4, <1>6, <1>7, <1>10, <1>11, <1>12, <1>13, NothingDropped, Closing

\* Cancellation escalates a writer that may still run.
LEMMA CancelledFacts ==
    ASSUME NEW id, NEW confirmed \in BOOLEAN, executions[id].quiescent => physical[id] = "ended",
           confirmed => physical[id] = "ended"
    PROVE  /\ Cancelled(id, confirmed).attempt = "CANCELLED"
           /\ Cancelled(id, confirmed).lease = "REVOKED"
           /\ Cancelled(id, confirmed).task = "CANCELLED"
           /\ Cancelled(id, confirmed).cause \in Cause \cup {"NONE"}
           /\ Unquiet(id) => Cancelled(id, confirmed).cause = WriterUnknown
<1> USE Zenon
<1> DEFINE quiet == Quiet(executions[id], confirmed)
           safe == writer_is_safe_to_replace(id[1] \in Writers, HasExecution(id), quiet,
                                             executions[id].isolated)
<1>1. Unquiet(id) => ~safe
    BY ZenonT(60) DEF Unquiet, writer_is_safe_to_replace, Quiet, durable_quiescence
<1>2. /\ Cancelled(id, confirmed).attempt = "CANCELLED"
      /\ Cancelled(id, confirmed).lease = "REVOKED"
      /\ Cancelled(id, confirmed).task = "CANCELLED"
      /\ Cancelled(id, confirmed).cause = IF safe THEN "NONE" ELSE WriterUnknown
    BY DEF Cancelled
<1> QED
    BY <1>1, <1>2 DEF Cause

\* cancel_task: a writer that may run leaves its obligation with the cancelled task.
LEMMA CancelTaskStep ==
    ASSUME IInv, NEW t \in Tasks, NEW q \in BOOLEAN, Truthful(Current(t), q),
           cancel_task(t, q)
    PROVE  IInv'
<1> USE Zenon
<1> DEFINE ending == IF tasks[t].current = 0 THEN {} ELSE {Current(t)}
           out == [i \in ending |-> Cancelled(i, q)]
           Row(i) == [executions[i] EXCEPT !.state = IF Quiet(executions[i], q)
                                                     THEN "TERMINATED" ELSE "LOST"]
<1>1. /\ executions' = [i \in AttemptIds |->
                           IF i \in ending /\ executions[i].state \in LiveExecution
                           THEN Row(i) ELSE executions[i]]
      /\ CloseAttempts(out, escalations)
      /\ tasks' = [tasks EXCEPT ![t].state = "CANCELLED", ![t].current = 0]
      /\ recompute_batch({BatchOf[t]})
      /\ UNCHANGED <<results, capacity, physical>>
    BY ZenonT(60) DEF cancel_task
<1>2. \A i \in ending : i \in AttemptIds /\ Active(i) /\ i = Current(t) /\ i[1] = t
    <2>1. \A i \in ending : tasks[t].current # 0 /\ i = Current(t)
        BY ZenonT(60)
    <2> HIDE DEF ending
    <2>2. \A i \in ending : i \in AttemptIds /\ i[1] = t /\ i[2] = tasks[t].current
        BY ZenonT(60), <2>1, CurrentFacts DEF IInv
    <2> QED
        BY ZenonT(60), <2>1, <2>2 DEF IInv, Agreement
<1>3. \A i \in AttemptIds : /\ Row(i) \in ExecutionRow
                            /\ Row(i).isolated = executions[i].isolated
                            /\ Row(i).quiescent = executions[i].quiescent
                            /\ Row(i).state # "NONE"
    BY SMT DEF IInv, TypeOK, ExecutionRow, ExecutionState
<1> HIDE DEF Row
<1>4. executions' \in [AttemptIds -> ExecutionRow]
    BY <1>1, <1>3 DEF IInv, TypeOK
<1>5. \A i \in AttemptIds : \/ executions'[i] = executions[i]
                            \/ executions[i].state \in LiveExecution /\ executions'[i] = Row(i)
    BY <1>1
<1>6. \A i \in AttemptIds : Unquiet(i)' => Unquiet(i)
    BY <1>1, <1>3, <1>5 DEF Unquiet, HasExecution, LiveExecution
<1>7. Evidence'
    BY <1>1, <1>3, <1>5 DEF IInv, Evidence, HasExecution, LiveExecution
<1>8. \A i \in ending : executions[i].quiescent => physical[i] = "ended"
    BY <1>2 DEF IInv, Evidence
<1>9. \A i \in ending : q => physical[i] = "ended"
    BY ZenonT(60), <1>2 DEF Truthful
<1>10. \A i \in DOMAIN out :
          /\ i \in ending /\ out[i] = Cancelled(i, q)
          /\ Cancelled(i, q).attempt = "CANCELLED" /\ Cancelled(i, q).lease = "REVOKED"
          /\ Cancelled(i, q).task = "CANCELLED"
          /\ Cancelled(i, q).cause \in Cause \cup {"NONE"}
          /\ Unquiet(i) => Cancelled(i, q).cause = WriterUnknown
    BY SMT, <1>8, <1>9, CancelledFacts
<1>11. DOMAIN out = ending
    BY ZenonT(60)
<1> HIDE DEF out
<1>12. Consequences(out)
    BY <1>2, <1>6, <1>10 DEF Consequences
<1>13. tasks' \in [Tasks -> TaskRow]
    <2> DEFINE row == [tasks[t] EXCEPT !.state = "CANCELLED", !.current = 0]
    <2>0. 0 \in 0 .. MaxClaims
        BY SMT, KernelAssumption
    <2>1. row \in TaskRow
        BY ZenonT(60), <2>0 DEF IInv, TypeOK, TaskRow, TaskState
    <2>2. tasks' = [tasks EXCEPT ![t] = row]
        BY <1>1
    <2> QED
        BY <2>1, <2>2 DEF IInv, TypeOK
<1>14. /\ tasks'[t].state = "CANCELLED" /\ tasks'[t].current = 0
       /\ tasks'[t].epoch = tasks[t].epoch
       /\ \A u \in Tasks \ {t} : tasks'[u] = tasks[u]
    BY <1>1 DEF IInv, TypeOK, TaskRow
<1>15. \A u \in Tasks : Current(u) \in DOMAIN out <=> u = t /\ tasks[t].current # 0
    BY SMTT(40), <1>11, <1>2 DEF Current
<1>16. TaskConsequences(out)
    BY SMT, <1>10, <1>14, <1>15 DEF TaskConsequences
<1>17. results' \in [Tasks -> {"NONE", "AVAILABLE", "ACKED"}]
    BY <1>1 DEF IInv, TypeOK
<1>18. /\ batches' \in [Batches -> BatchState]
       /\ wakeups' \in [Batches -> Nat]
       /\ \A b \in Batches : batches'[b] = "NONE" => batches[b] = "NONE"
    BY ZenonT(60), <1>1, RecomputeFacts DEF IInv
<1> QED
    BY <1>1, <1>4, <1>6, <1>7, <1>12, <1>13, <1>16, <1>17, <1>18, NothingDropped, Closing

\* cancel_batch: the same for every ACTIVE attempt of the batch.
LEMMA CancelBatchStep ==
    ASSUME IInv, NEW b \in Batches, cancel_batch(b)
    PROVE  IInv'
<1> USE Zenon
<1> DEFINE ending == {i \in AttemptIds : i[1] \in TasksOf(b) /\ attempts[i].state = "ACTIVE"}
           out == [i \in ending |-> Cancelled(i, FALSE)]
           dropped == [t \in Tasks |->
                          IF /\ t \in TasksOf(b) /\ escalations[t].state = "OPEN"
                             /\ escalations[t].cause # WriterUnknown
                          THEN [escalations[t] EXCEPT !.state = "CANCELLED"]
                          ELSE escalations[t]]
<1>1. /\ batches[b] \in {"ACTIVE", "SUSPENDED"}
      /\ CloseAttempts(out, dropped)
      /\ tasks' = [t \in Tasks |->
                      IF t \in TasksOf(b) /\ tasks[t].state \notin {"COMPLETED", "CANCELLED"}
                      THEN [tasks[t] EXCEPT !.state = "CANCELLED", !.current = 0]
                      ELSE tasks[t]]
      /\ batches' = [batches EXCEPT ![b] = "CANCELLED"]
      /\ UNCHANGED <<executions, results, wakeups, capacity, physical>>
    BY ZenonT(60) DEF cancel_batch
<1>2. \A i \in ending : i \in AttemptIds /\ Active(i) /\ i[1] \in TasksOf(b)
    BY ZenonT(60) DEF Active
<1>3. \A i \in ending : executions[i].quiescent => physical[i] = "ended"
    BY ZenonT(60), <1>2 DEF IInv, Evidence
<1>4. \A i \in DOMAIN out :
          /\ i \in ending /\ out[i] = Cancelled(i, FALSE)
          /\ Cancelled(i, FALSE).attempt = "CANCELLED" /\ Cancelled(i, FALSE).lease = "REVOKED"
          /\ Cancelled(i, FALSE).task = "CANCELLED"
          /\ Cancelled(i, FALSE).cause \in Cause \cup {"NONE"}
          /\ Unquiet(i) => Cancelled(i, FALSE).cause = WriterUnknown
    BY ZenonT(60), <1>3, CancelledFacts
<1>5. DOMAIN out = ending
    OBVIOUS
<1>6. \A i \in AttemptIds : Unquiet(i)' => Unquiet(i)
    BY <1>1 DEF Unquiet, HasExecution
<1>7. Evidence'
    BY ZenonT(60), <1>1 DEF IInv, Evidence, HasExecution
<1> HIDE DEF out
<1>8. Consequences(out)
    BY ZenonT(60), <1>2, <1>4, <1>6 DEF Consequences
<1>9. \A t \in Tasks :
          IF t \in TasksOf(b) /\ tasks[t].state \notin {"COMPLETED", "CANCELLED"}
          THEN /\ tasks'[t] \in TaskRow /\ tasks'[t].epoch = tasks[t].epoch
               /\ tasks'[t].state = "CANCELLED" /\ tasks'[t].current = 0
          ELSE tasks'[t] = tasks[t]
    <2> SUFFICES ASSUME NEW t \in Tasks
                 PROVE  IF t \in TasksOf(b) /\ tasks[t].state \notin {"COMPLETED", "CANCELLED"}
                        THEN /\ tasks'[t] \in TaskRow /\ tasks'[t].epoch = tasks[t].epoch
                             /\ tasks'[t].state = "CANCELLED" /\ tasks'[t].current = 0
                        ELSE tasks'[t] = tasks[t]
        OBVIOUS
    <2> DEFINE row == [tasks[t] EXCEPT !.state = "CANCELLED", !.current = 0]
    <2>1. 0 \in 0 .. MaxClaims
        BY SMT, KernelAssumption
    <2>2. /\ row \in TaskRow /\ row.epoch = tasks[t].epoch
          /\ row.state = "CANCELLED" /\ row.current = 0
        BY ZenonT(60), <2>1 DEF IInv, TypeOK, TaskRow, TaskState
    <2> QED
        BY <2>2, <1>1
<1>10. tasks' \in [Tasks -> TaskRow]
    <2>1. \A t \in Tasks : tasks'[t] \in TaskRow
        BY ZenonT(60), <1>9 DEF IInv, TypeOK
    <2> QED
        BY <1>1, <2>1
<1>11. \A t \in Tasks : /\ Current(t) \in ending => t \in TasksOf(b) /\ tasks[t].state \in {"LEASED", "RUNNING"}
                        /\ t \in TasksOf(b) /\ Current(t) \notin ending => tasks[t].current = 0
    <2> SUFFICES ASSUME NEW t \in Tasks
                 PROVE  /\ Current(t) \in ending => t \in TasksOf(b) /\ tasks[t].state \in {"LEASED", "RUNNING"}
                        /\ t \in TasksOf(b) /\ Current(t) \notin ending => tasks[t].current = 0
        BY ZenonT(60)
    <2>1. Current(t)[1] = t /\ Current(t)[2] = tasks[t].current
          /\ (tasks[t].current # 0 <=> Current(t) \in AttemptIds)
        BY ZenonT(60), CurrentFacts DEF IInv
    <2>2. Current(t) \in AttemptIds => /\ Active(Current(t))
                                       /\ tasks[t].state \in {"LEASED", "RUNNING"}
        BY ZenonT(60), <2>1 DEF IInv, Agreement
    <2> QED
        BY ZenonT(60), <2>1, <2>2 DEF Active
<1>12. TaskConsequences(out)
    <2> SUFFICES ASSUME NEW t \in Tasks
                 PROVE  /\ tasks'[t].epoch = tasks[t].epoch
                        /\ IF Current(t) \in DOMAIN out
                           THEN tasks'[t].current = 0 /\ tasks'[t].state = out[Current(t)].task
                           ELSE /\ tasks'[t].current = tasks[t].current
                                /\ \/ tasks'[t].state = tasks[t].state
                                   \/ tasks[t].state = "BLOCKED" /\ tasks'[t].state = "QUEUED"
                                   \/ tasks[t].current = 0 /\ tasks'[t].state = "CANCELLED"
        BY DEF TaskConsequences
    <2> HIDE DEF ending
    <2> QED
        BY ZenonT(60), <1>4, <1>5, <1>9, <1>11
<1>13. Dropped(dropped)
    <2>1. \A t \in Tasks : LET row == [escalations[t] EXCEPT !.state = "CANCELLED"]
                           IN  row \in EscalationRow /\ row.state = "CANCELLED"
        BY DEF IInv, TypeOK, EscalationRow, EscalationState
    <2>2. \A t \in Tasks : \/ dropped[t] = escalations[t]
                           \/ /\ t \in TasksOf(b) /\ escalations[t].state = "OPEN"
                              /\ escalations[t].cause # WriterUnknown
                              /\ dropped[t] = [escalations[t] EXCEPT !.state = "CANCELLED"]
        OBVIOUS
    <2>3. dropped \in [Tasks -> EscalationRow]
        <3>1. \A t \in Tasks : dropped[t] \in EscalationRow
            BY ZenonT(60), <2>1, <2>2 DEF IInv, TypeOK
        <3> QED
            BY <3>1
    <2>4. \A t \in Tasks : escalations[t].state = "OPEN" /\ t \in TasksOf(b)
                           => tasks'[t].state = "CANCELLED"
        BY ZenonT(60), <1>9 DEF IInv, SuspendedAsksRoot
    <2> HIDE DEF dropped
    <2> QED
        BY ZenonT(60), <2>1, <2>2, <2>3, <2>4 DEF Dropped, Obligation
<1>14. /\ executions' \in [AttemptIds -> ExecutionRow]
       /\ results' \in [Tasks -> {"NONE", "AVAILABLE", "ACKED"}]
       /\ wakeups' \in [Batches -> Nat]
       /\ batches' \in [Batches -> BatchState]
       /\ \A c \in Batches : batches'[c] = "NONE" => batches[c] = "NONE"
    BY ZenonT(60), <1>1 DEF IInv, TypeOK, BatchState
<1> QED
    BY ZenonT(60), <1>1, <1>6, <1>7, <1>8, <1>10, <1>12, <1>13, <1>14, Closing

\* The sweep ends attempts whose lease elapsed; only a durable proof of
\* quiescence or isolation lets a write task go to another attempt.
LEMMA ExpireStep ==
    ASSUME IInv, NEW recovering \in BOOLEAN, expire_leases(recovering)
    PROVE  IInv'
<1> USE Zenon
<1> DEFINE out == [id \in Expirable(recovering) |-> Expired(id)]
           suspended == {BatchOf[id[1]] : id \in {i \in DOMAIN out : out[i].task = "SUSPENDED"}}
<1>1. /\ CloseAttempts(out, escalations)
      /\ tasks' = ClosedTasks(out)
      /\ recompute_batch(suspended)
      /\ UNCHANGED <<executions, results, capacity, physical>>
    BY ZenonT(60) DEF expire_leases
<1>2. \A i \in Expirable(recovering) : i \in AttemptIds /\ Active(i)
    BY ZenonT(60) DEF Expirable, IInv, Agreement
<1>3. \A i \in AttemptIds : Unquiet(i)' => Unquiet(i)
    BY ZenonT(60), <1>1 DEF Unquiet, HasExecution
<1>4. Evidence'
    BY <1>1 DEF IInv, Evidence, HasExecution
<1>5. \A i \in Expirable(recovering) :
          /\ out[i].attempt = "EXPIRED" /\ out[i].lease = "EXPIRED"
          /\ out[i].task \in {"RETRY_WAIT", "SUSPENDED"}
          /\ out[i].cause \in Cause \cup {"NONE"}
          /\ out[i].task = "SUSPENDED" <=> out[i].cause # "NONE"
          /\ Unquiet(i) => out[i].cause = WriterUnknown
    <2> SUFFICES ASSUME NEW i \in Expirable(recovering)
                 PROVE  /\ Expired(i).attempt = "EXPIRED" /\ Expired(i).lease = "EXPIRED"
                        /\ Expired(i).task \in {"RETRY_WAIT", "SUSPENDED"}
                        /\ Expired(i).cause \in Cause \cup {"NONE"}
                        /\ Expired(i).task = "SUSPENDED" <=> Expired(i).cause # "NONE"
                        /\ Unquiet(i) => Expired(i).cause = WriterUnknown
        BY ZenonT(60)
    <2> DEFINE safe == writer_is_safe_to_replace(i[1] \in Writers, HasExecution(i),
                           durable_quiescence(executions[i].terminal, executions[i].quiescent),
                           executions[i].isolated)
               retry == retry_allowed(i[1], "EXECUTION_LOST", i[2]) /\ safe
    <2>1. /\ Expired(i).attempt = "EXPIRED" /\ Expired(i).lease = "EXPIRED"
          /\ Expired(i).task = IF retry THEN "RETRY_WAIT" ELSE "SUSPENDED"
          /\ Expired(i).cause = IF retry THEN "NONE"
                                ELSE suspension_failure_class(safe, "EXECUTION_LOST")
        BY ZenonT(60) DEF Expired
    <2>2. Unquiet(i) => ~safe
        BY <1>2 DEF Unquiet, writer_is_safe_to_replace, durable_quiescence, IInv, Evidence
    <2>3. {"EXECUTION_LOST", WriterUnknown} \subseteq Cause
        BY KernelAssumption DEF Cause
    <2>4. WriterUnknown # "NONE" /\ "EXECUTION_LOST" # "NONE"
        BY DEF WriterUnknown
    <2> HIDE DEF safe
    <2> QED
        BY ZenonT(60), <2>1, <2>2, <2>3, <2>4 DEF suspension_failure_class
<1>6. DOMAIN out = Expirable(recovering)
    BY ZenonT(60)
<1> HIDE DEF out
<1>7. Consequences(out)
    BY ZenonT(60), <1>2, <1>3, <1>5, <1>6 DEF Consequences
<1>8. tasks' \in [Tasks -> TaskRow] /\ TaskConsequences(out)
    BY ZenonT(60), <1>1, <1>7, ClosedTasksFacts DEF TaskConsequences
<1>9. /\ batches' \in [Batches -> BatchState]
      /\ wakeups' \in [Batches -> Nat]
      /\ \A b \in Batches : batches'[b] = "NONE" => batches[b] = "NONE"
    BY ZenonT(60), <1>1, RecomputeFacts DEF IInv
<1>10. /\ results' \in [Tasks -> {"NONE", "AVAILABLE", "ACKED"}]
       /\ executions' \in [AttemptIds -> ExecutionRow]
    BY ZenonT(60), <1>1 DEF IInv, TypeOK
<1> QED
    BY ZenonT(60), <1>1, <1>3, <1>4, <1>7, <1>8, <1>9, <1>10, NothingDropped, Closing

----------------------------------------------------------------------------
(* Root *)

\* Finalizing a writer closes its presence and moves one agent, its own.
LEMMA FinalizeFacts ==
    ASSUME IInv, NEW t \in Tasks, NEW confirmed \in BOOLEAN, Obligation(t),
           FinalizeWriter(t, confirmed)
    PROVE  /\ executions' \in [AttemptIds -> ExecutionRow]
           /\ agents' \in [Agents -> AgentRow]
           /\ incarnations' \in [IncarnationIds -> IncarnationState]
           /\ \A i \in AttemptIds :
                 /\ executions'[i].isolated = executions[i].isolated
                 /\ executions'[i].state = "NONE" <=> executions[i].state = "NONE"
                 /\ executions'[i].quiescent => \/ executions[i].quiescent
                                                \/ confirmed /\ i = Latest(t)
           /\ \A h \in Agents : h # escalations[t].agent => agents'[h] = agents[h]
<1> USE Zenon
<1> DEFINE g == escalations[t].agent
           closed == [i \in IncarnationIds |->
                        IF i = IncarnationOf(Latest(t))
                        THEN FinalizedIncarnation(incarnations[i], confirmed)
                        ELSE incarnations[i]]
<1>1. /\ executions' = [executions EXCEPT ![Latest(t)] =
                           FinalizedExecution(executions[Latest(t)], confirmed)]
      /\ agents' = [agents EXCEPT ![g] = RevivedAgent(g)]
      /\ incarnations' = IF agents[g].state # "RETIRED" /\ Retires(g)
                         THEN RetireIncarnations({g}, closed) ELSE closed
    BY ZenonT(60) DEF FinalizeWriter
<1>2. g \in Agents
    BY ZenonT(60) DEF IInv, Quarantine
<1>3. \A row \in ExecutionRow :
          /\ FinalizedExecution(row, confirmed) \in ExecutionRow
          /\ FinalizedExecution(row, confirmed).isolated = row.isolated
          /\ FinalizedExecution(row, confirmed).state = "NONE" <=> row.state = "NONE"
          /\ FinalizedExecution(row, confirmed).quiescent => row.quiescent \/ confirmed
    <2> SUFFICES ASSUME NEW row \in ExecutionRow
                 PROVE  /\ FinalizedExecution(row, confirmed) \in ExecutionRow
                        /\ FinalizedExecution(row, confirmed).isolated = row.isolated
                        /\ FinalizedExecution(row, confirmed).state = "NONE" <=> row.state = "NONE"
                        /\ FinalizedExecution(row, confirmed).quiescent => row.quiescent \/ confirmed
        OBVIOUS
    <2>1. CASE row.state = "NONE"
        BY <2>1 DEF FinalizedExecution
    <2>2. CASE row.state # "NONE" /\ confirmed
        <3> DEFINE s == IF row.state \in LiveExecution \cup {"LOST"} THEN "TERMINATED" ELSE row.state
                   new == [row EXCEPT !.state = s, !.terminal = TRUE, !.quiescent = TRUE]
        <3>1. FinalizedExecution(row, confirmed) = new
            BY <2>2 DEF FinalizedExecution
        <3>2. s \in ExecutionState /\ s # "NONE"
            BY <2>2 DEF ExecutionRow, ExecutionState
        <3> HIDE DEF s
        <3>3. new \in ExecutionRow /\ new.isolated = row.isolated /\ new.state = s
            BY <3>2 DEF ExecutionRow
        <3> QED
            BY <2>2, <3>1, <3>2, <3>3
    <2>3. CASE row.state # "NONE" /\ ~confirmed /\ row.isolated
        <3> DEFINE s == IF row.state \in LiveExecution THEN "LOST" ELSE row.state
                   new == [row EXCEPT !.state = s]
        <3>1. FinalizedExecution(row, confirmed) = new
            BY <2>3 DEF FinalizedExecution
        <3>2. s \in ExecutionState /\ s # "NONE"
            BY <2>3 DEF ExecutionRow, ExecutionState
        <3> HIDE DEF s
        <3>3. /\ new \in ExecutionRow /\ new.isolated = row.isolated /\ new.state = s
              /\ new.quiescent = row.quiescent
            BY <3>2 DEF ExecutionRow
        <3> QED
            BY <2>3, <3>1, <3>2, <3>3
    <2>4. CASE row.state # "NONE" /\ ~confirmed /\ ~row.isolated
        BY <2>4 DEF FinalizedExecution
    <2> QED
        BY <2>1, <2>2, <2>3, <2>4
<1>4. /\ executions' \in [AttemptIds -> ExecutionRow]
      /\ \A i \in AttemptIds :
            \/ executions'[i] = executions[i]
            \/ i = Latest(t) /\ executions'[i] = FinalizedExecution(executions[i], confirmed)
    <2>1. CASE Latest(t) \in AttemptIds
        <3> DEFINE new == FinalizedExecution(executions[Latest(t)], confirmed)
        <3>1. new \in ExecutionRow
            BY SMT, <1>3, <2>1 DEF IInv, TypeOK
        <3> HIDE DEF new
        <3>2. executions' = [executions EXCEPT ![Latest(t)] = new]
            BY <1>1 DEF new
        <3>3. \A i \in AttemptIds : \/ executions'[i] = executions[i]
                                    \/ i = Latest(t) /\ executions'[i] = new
            BY <3>2 DEF IInv, TypeOK
        <3> QED
            BY <3>1, <3>2, <3>3 DEF IInv, TypeOK, new
    <2>2. CASE Latest(t) \notin AttemptIds
        BY ZenonT(60), <1>1, <2>2 DEF IInv, TypeOK
    <2> QED
        BY <2>1, <2>2
<1>5. RevivedAgent(g) \in AgentRow
    <2> DEFINE s == IF Retires(g) THEN "RETIRED" ELSE "READY"
               s2 == IF s = "READY" THEN "REVIVING" ELSE s
    <2>1. release_agent(g) \in AgentRow /\ release_agent(g).state = s
        BY DEF release_agent, AgentRow, AgentState
    <2>2. s2 \in AgentState
        BY DEF AgentState
    <2>3. RevivedAgent(g) = IF agents[g].state = "RETIRED" THEN agents[g]
                            ELSE [release_agent(g) EXCEPT !.state = s2]
        BY <2>1 DEF RevivedAgent
    <2> HIDE DEF s2
    <2>4. [release_agent(g) EXCEPT !.state = s2] \in AgentRow
        BY <2>1, <2>2 DEF AgentRow
    <2> QED
        BY SMT, <1>2, <2>3, <2>4 DEF IInv, TypeOK
<1>6. /\ agents' \in [Agents -> AgentRow]
      /\ \A h \in Agents : h # g => agents'[h] = agents[h]
    BY <1>1, <1>2, <1>5 DEF IInv, TypeOK
<1>7. closed \in [IncarnationIds -> IncarnationState]
    BY DEF IInv, TypeOK, FinalizedIncarnation, IncarnationState
<1> HIDE DEF closed
<1>8. RetireIncarnations({g}, closed) \in [IncarnationIds -> IncarnationState]
    BY ZenonT(60), <1>7 DEF RetireIncarnations, IncarnationState
<1>9. incarnations' \in [IncarnationIds -> IncarnationState]
    BY ZenonT(60), <1>1, <1>7, <1>8
<1>10. \A i \in AttemptIds : executions[i] \in ExecutionRow
    BY DEF IInv, TypeOK
<1>11. \A i \in AttemptIds :
           /\ executions'[i].isolated = executions[i].isolated
           /\ executions'[i].state = "NONE" <=> executions[i].state = "NONE"
           /\ executions'[i].quiescent => \/ executions[i].quiescent
                                          \/ confirmed /\ i = Latest(t)
    <2> SUFFICES ASSUME NEW i \in AttemptIds
                 PROVE  /\ executions'[i].isolated = executions[i].isolated
                        /\ executions'[i].state = "NONE" <=> executions[i].state = "NONE"
                        /\ executions'[i].quiescent => \/ executions[i].quiescent
                                                       \/ confirmed /\ i = Latest(t)
        BY ZenonT(60)
    <2>1. CASE i = Latest(t)
        <3> DEFINE row == executions[i]
                   new == FinalizedExecution(row, confirmed)
        <3>1. /\ new.isolated = row.isolated
              /\ new.state = "NONE" <=> row.state = "NONE"
              /\ new.quiescent => row.quiescent \/ confirmed
            BY ZenonT(60), <1>3, <1>10
        <3>2. executions'[i] \in {row, new}
            BY ZenonT(60), <1>4
        <3> HIDE DEF new
        <3> QED
            BY ZenonT(60), <2>1, <3>1, <3>2
    <2>2. CASE i # Latest(t)
        BY ZenonT(60), <2>2, <1>4
    <2> QED
        BY <2>1, <2>2
<1> QED
    BY ZenonT(60), <1>4, <1>6, <1>9, <1>11

\* A resolution that leaves attempts and leases alone and either finalizes the
\* writer of the task or finds that there was none to finalize.
LEMMA ResolutionStep ==
    ASSUME IInv, NEW t \in Tasks, NEW confirmed \in BOOLEAN, Truthful(Latest(t), confirmed),
           escalations[t].state = "OPEN", Resolve(t),
           t \in Writers /\ Obligation(t) => WriterSafe(t, confirmed),
           \/ Obligation(t) /\ FinalizeWriter(t, confirmed)
           \/ ~Obligation(t) /\ UNCHANGED <<executions, agents, incarnations>>,
           tasks' \in [Tasks -> TaskRow],
           \A u \in Tasks \ {t} : tasks'[u] = tasks[u],
           tasks'[t].epoch = tasks[t].epoch, tasks'[t].current = tasks[t].current,
           tasks'[t].state # "SUSPENDED",
           recompute_batch({BatchOf[t]}),
           UNCHANGED <<attempts, leases, results, decisions, capacity, physical>>
    PROVE  IInv'
<1> USE Zenon
<1>1. /\ executions' \in [AttemptIds -> ExecutionRow]
      /\ agents' \in [Agents -> AgentRow]
      /\ incarnations' \in [IncarnationIds -> IncarnationState]
      /\ \A i \in AttemptIds :
            /\ executions'[i].isolated = executions[i].isolated
            /\ executions'[i].state = "NONE" <=> executions[i].state = "NONE"
            /\ executions'[i].quiescent => \/ executions[i].quiescent
                                           \/ confirmed /\ i = Latest(t)
      /\ \A h \in Agents : \/ agents'[h] = agents[h]
                           \/ Obligation(t) /\ h = escalations[t].agent
    <2>1. CASE Obligation(t) /\ FinalizeWriter(t, confirmed)
        BY ZenonT(60), <2>1, FinalizeFacts
    <2>2. CASE UNCHANGED <<executions, agents, incarnations>>
        BY ZenonT(60), <2>2 DEF IInv, TypeOK
    <2> QED
        BY ZenonT(60), <2>1, <2>2
<1>2. /\ escalations' \in [Tasks -> EscalationRow]
      /\ escalations'[t].state = "RESOLVED"
      /\ \A u \in Tasks \ {t} : escalations'[u] = escalations[u]
    <2> DEFINE row == [escalations[t] EXCEPT !.state = "RESOLVED"]
    <2>1. row \in EscalationRow /\ row.state = "RESOLVED"
        BY ZenonT(60) DEF IInv, TypeOK, EscalationRow, EscalationState
    <2>2. escalations' = [escalations EXCEPT ![t] = row]
        BY DEF Resolve
    <2> HIDE DEF row
    <2> QED
        BY <2>1, <2>2 DEF IInv, TypeOK
<1>3. /\ batches' \in [Batches -> BatchState]
      /\ wakeups' \in [Batches -> Nat]
      /\ \A b \in Batches : batches'[b] = "NONE" => batches[b] = "NONE"
    BY RecomputeFacts DEF IInv
<1>4. TypeOK'
    BY ZenonT(60), <1>1, <1>2, <1>3 DEF IInv, TypeOK
<1>5. \A i \in AttemptIds : i[1] = t => ~Active(i)
    BY ZenonT(60), ActiveIsCurrent
<1>6. Agreement'
    <2>1. \A i \in AttemptIds :
             /\ tasks'[i[1]].epoch = tasks[i[1]].epoch
             /\ tasks'[i[1]].current = tasks[i[1]].current
             /\ i[1] # t => tasks'[i[1]].state = tasks[i[1]].state
        BY ZenonT(60), AttemptIdFacts
    <2>2. \A i \in AttemptIds : (Active(i)' <=> Active(i)) /\ leases'[i] = leases[i]
        BY ZenonT(60) DEF Active
    <2> QED
        BY ZenonT(60), <1>5, <2>1, <2>2 DEF IInv, Agreement
<1>7. Binding'
    <2>1. \A i \in AttemptIds : Active(i) /\ Obligation(t) => attempts[i].agent # escalations[t].agent
        BY DEF IInv, Binding, Quarantine
    <2>2. \A i \in AttemptIds : /\ Active(i)' => Active(i)
                                 /\ attempts'[i].agent = attempts[i].agent
        BY ZenonT(60) DEF Active
    <2>3. \A i \in AttemptIds : Active(i) => /\ attempts[i].agent \in Agents
                                             /\ agents'[attempts[i].agent] = agents[attempts[i].agent]
        BY ZenonT(60), <1>1, <2>1 DEF IInv, Binding
    <2> QED
        BY ZenonT(60), <2>2, <2>3 DEF IInv, Binding
<1>8. SuspendedAsksRoot'
    BY ZenonT(60), <1>2 DEF IInv, SuspendedAsksRoot
<1>9. Quarantine'
    <2>1. \A u \in Tasks : Obligation(u)' => /\ u # t /\ Obligation(u)
                                             /\ escalations'[u] = escalations[u]
        BY <1>2 DEF Obligation
    <2>2. \A u \in Tasks : Obligation(u)' => agents'[escalations[u].agent] = agents[escalations[u].agent]
        <3> SUFFICES ASSUME NEW u \in Tasks, Obligation(u)'
                     PROVE  agents'[escalations[u].agent] = agents[escalations[u].agent]
            BY ZenonT(60)
        <3>1. u # t /\ Obligation(u) /\ escalations[u].agent \in Agents
            BY ZenonT(60), <2>1 DEF IInv, Quarantine
        <3>2. Obligation(t) => escalations[u].agent # escalations[t].agent
            BY ZenonT(60), <3>1 DEF IInv, Quarantine
        <3> QED
            BY ZenonT(60), <3>1, <3>2, <1>1
    <2>3. ASSUME NEW u \in Tasks, Obligation(u)'
          PROVE  /\ escalations'[u].agent \in Agents
                 /\ agents'[escalations'[u].agent].state = "SUSPENDED"
        BY ZenonT(60), <2>1, <2>2, <2>3 DEF IInv, Quarantine
    <2>4. ASSUME NEW u \in Tasks, NEW v \in Tasks, Obligation(u)', Obligation(v)',
                 escalations'[u].agent = escalations'[v].agent
          PROVE  u = v
        BY ZenonT(60), <2>1, <2>4 DEF IInv, Quarantine
    <2> QED
        BY ZenonT(60), <2>3, <2>4 DEF Quarantine
<1>10. Unsubmitted'
    <2> SUFFICES ASSUME NEW u \in Tasks, batches'[BatchOf[u]] = "NONE"
                 PROVE  /\ tasks'[u].epoch = 0 /\ tasks'[u].current = 0
                        /\ escalations'[u].state # "OPEN"
        BY ZenonT(60) DEF Unsubmitted
    <2>1. batches[BatchOf[u]] = "NONE"
        BY ZenonT(60), <1>3, KernelAssumption
    <2>2. /\ tasks[u].epoch = 0 /\ tasks[u].current = 0 /\ escalations[u].state # "OPEN"
        BY ZenonT(60), <2>1 DEF IInv, Unsubmitted
    <2> QED
        BY ZenonT(60), <2>2, <1>2
<1>11. Evidence'
    BY ZenonT(60), <1>1 DEF IInv, Evidence, HasExecution, Truthful
<1>12. \A i \in AttemptIds : Unquiet(i)' => Unquiet(i) /\ i[1] # t
    <2> SUFFICES ASSUME NEW i \in AttemptIds, Unquiet(i)'
                 PROVE  Unquiet(i) /\ i[1] # t
        BY ZenonT(60)
    <2>1. Unquiet(i)
        BY ZenonT(60), <1>1 DEF Unquiet, HasExecution
    <2>2. ASSUME i[1] = t PROVE FALSE
        <3>1. i = Latest(t) /\ Obligation(t)
            BY ZenonT(60), <1>5, <2>1, <2>2, AttemptIdFacts DEF IInv, Accounted, Latest
        <3> QED
            BY ZenonT(60), <2>1, <2>2, <3>1 DEF Unquiet, WriterSafe, Truthful
    <2> QED
        BY ZenonT(60), <2>1, <2>2
<1>13. Accounted'
    BY SMT, <1>2, <1>12, AttemptIdFacts DEF IInv, Accounted, Active, Obligation
<1> QED
    BY ZenonT(60), <1>4, <1>6, <1>7, <1>8, <1>9, <1>10, <1>11, <1>13 DEF IInv

\* Root retries: the obligation is discharged before the task is queued again.
LEMMA ResolveRetryStep ==
    ASSUME IInv, NEW t \in Tasks, NEW confirmed \in BOOLEAN, Truthful(Latest(t), confirmed),
           resolve_retry(t, confirmed)
    PROVE  IInv'
<1> USE Zenon
<1> DEFINE row == [tasks[t] EXCEPT !.state = "QUEUED"]
<1>1. /\ row \in TaskRow /\ row.state = "QUEUED"
      /\ row.epoch = tasks[t].epoch /\ row.current = tasks[t].current
    BY DEF IInv, TypeOK, TaskRow, TaskState
<1>2. tasks' = [tasks EXCEPT ![t] = row]
    BY DEF resolve_retry
<1> HIDE DEF row
<1>3. /\ tasks' \in [Tasks -> TaskRow]
      /\ tasks'[t] = row
      /\ \A u \in Tasks \ {t} : tasks'[u] = tasks[u]
    BY <1>1, <1>2 DEF IInv, TypeOK
<1>4. Obligation(t) <=> WriterObligation(t)
    BY ZenonT(60) DEF resolve_retry, Obligation, WriterObligation
<1> QED
    BY <1>1, <1>3, <1>4, ResolutionStep DEF resolve_retry

\* Root releases the writer of a cancelled task.
LEMMA ReleaseCancelledStep ==
    ASSUME IInv, NEW t \in Tasks, NEW confirmed \in BOOLEAN, Truthful(Latest(t), confirmed),
           release_cancelled_writer(t, confirmed)
    PROVE  IInv'
<1> USE Zenon
<1>1. Obligation(t) /\ tasks' = tasks /\ tasks[t].state = "CANCELLED"
    BY DEF release_cancelled_writer, Obligation, WriterObligation
<1>2. tasks' \in [Tasks -> TaskRow]
    BY <1>1 DEF IInv, TypeOK
<1> QED
    BY ZenonT(60), <1>1, <1>2, ResolutionStep DEF release_cancelled_writer

\* Root's cancellation keeps the obligation of a writer that may still run.
LEMMA ResolveCancelStep ==
    ASSUME IInv, NEW t \in Tasks, resolve_cancel_task(t)
    PROVE  IInv'
<1> USE Zenon
<1> DEFINE row == [tasks[t] EXCEPT !.state = "CANCELLED"]
           closed == [escalations[t] EXCEPT !.state = "RESOLVED"]
<1>0. /\ escalations[t].state = "OPEN"
      /\ recompute_batch({BatchOf[t]})
      /\ UNCHANGED <<attempts, leases, executions, incarnations, agents, results,
                     decisions, capacity, physical>>
    BY DEF resolve_cancel_task
<1>1. /\ row \in TaskRow /\ row.state = "CANCELLED"
      /\ row.epoch = tasks[t].epoch /\ row.current = tasks[t].current
    BY DEF IInv, TypeOK, TaskRow, TaskState
<1>2. /\ tasks' = [tasks EXCEPT ![t] = row]
      /\ \/ escalations' = escalations
         \/ ~Obligation(t) /\ escalations' = [escalations EXCEPT ![t] = closed]
    BY DEF resolve_cancel_task, Resolve, WriterObligation, Obligation
<1>3. closed \in EscalationRow /\ closed.state = "RESOLVED"
    BY ZenonT(60) DEF IInv, TypeOK, EscalationRow, EscalationState
<1> HIDE DEF row, closed
<1>4. /\ tasks' \in [Tasks -> TaskRow]
      /\ tasks'[t] = row
      /\ \A u \in Tasks \ {t} : tasks'[u] = tasks[u]
    BY <1>1, <1>2 DEF IInv, TypeOK
<1>5. /\ escalations' \in [Tasks -> EscalationRow]
      /\ \A u \in Tasks : \/ escalations'[u] = escalations[u]
                          \/ u = t /\ ~Obligation(t) /\ escalations'[u].state = "RESOLVED"
    BY <1>2, <1>3 DEF IInv, TypeOK
<1>6. /\ batches' \in [Batches -> BatchState]
      /\ wakeups' \in [Batches -> Nat]
      /\ \A b \in Batches : batches'[b] = "NONE" => batches[b] = "NONE"
    BY ZenonT(60), <1>0, RecomputeFacts DEF IInv
<1>7. TypeOK'
    BY ZenonT(60), <1>0, <1>4, <1>5, <1>6 DEF IInv, TypeOK
<1>8. \A i \in AttemptIds : i[1] = t => ~Active(i)
    BY ZenonT(60), <1>0, ActiveIsCurrent
<1>9. Agreement'
    BY SMT, <1>0, <1>1, <1>4, <1>8, AttemptIdFacts DEF IInv, Agreement, Active
<1>10. \A u \in Tasks : Obligation(u)' <=> Obligation(u)
    BY <1>5 DEF Obligation
<1>11. \A u \in Tasks : Obligation(u) => escalations'[u] = escalations[u]
    BY ZenonT(60), <1>5
<1>12. Binding' /\ Evidence'
    BY ZenonT(60), <1>0 DEF IInv, Binding, Evidence, Active, HasExecution
<1>13. Quarantine'
    BY ZenonT(60), <1>0, <1>10, <1>11 DEF IInv, Quarantine
<1>14. SuspendedAsksRoot'
    BY ZenonT(60), <1>1, <1>4, <1>5 DEF IInv, SuspendedAsksRoot
<1>15. Unsubmitted'
    <2> SUFFICES ASSUME NEW u \in Tasks, batches'[BatchOf[u]] = "NONE"
                 PROVE  /\ tasks'[u].epoch = 0 /\ tasks'[u].current = 0
                        /\ escalations'[u].state # "OPEN"
        BY ZenonT(60) DEF Unsubmitted
    <2>1. batches[BatchOf[u]] = "NONE"
        BY ZenonT(60), <1>6, KernelAssumption
    <2>2. /\ tasks[u].epoch = 0 /\ tasks[u].current = 0 /\ escalations[u].state # "OPEN"
        BY ZenonT(60), <2>1 DEF IInv, Unsubmitted
    <2> QED
        BY ZenonT(60), <2>2, <1>1, <1>4, <1>5
<1>16. Accounted'
    BY <1>0, <1>1, <1>4, <1>10, AttemptIdFacts DEF IInv, Accounted, Active, Unquiet, HasExecution
<1> QED
    BY <1>7, <1>9, <1>12, <1>13, <1>14, <1>15, <1>16 DEF IInv

----------------------------------------------------------------------------
(* The invariant and its consequences *)

\* Every step of the system preserves the inductive invariant.
LEMMA NextInvariant == IInv /\ [Next]_vars => IInv'
<1> USE Zenon
<1> SUFFICES ASSUME IInv, [Next]_vars PROVE IInv'
    OBVIOUS
<1>1. CASE Host
    <2>1. ASSUME NEW b \in Batches, submit_batch(b) PROVE IInv'
        BY <2>1, SubmitStep
    <2>2. ASSUME NEW n \in 0..MaxCapacity, resize_partition(n) PROVE IInv'
        BY <2>2, ResizeStep
    <2>3. ASSUME reconcile_pool PROVE IInv'
        BY <2>3, ReconcileStep
    <2>4. ASSUME NEW t \in Tasks, NEW q \in BOOLEAN, Truthful(Current(t), q), cancel_task(t, q)
          PROVE  IInv'
        BY <2>4, CancelTaskStep
    <2>5. ASSUME NEW b \in Batches, cancel_batch(b) PROVE IInv'
        BY <2>5, CancelBatchStep
    <2>6. ASSUME NEW t \in Tasks, ack_result(t) PROVE IInv'
        BY <2>6, AckResultStep
    <2> QED
        BY <1>1, <2>1, <2>2, <2>3, <2>4, <2>5, <2>6 DEF Host
<1>2. CASE Root
    <2>1. ASSUME NEW t \in Tasks, NEW q \in BOOLEAN, Truthful(Latest(t), q), resolve_retry(t, q)
          PROVE  IInv'
        BY <2>1, ResolveRetryStep
    <2>2. ASSUME NEW t \in Tasks, NEW q \in BOOLEAN, Truthful(Latest(t), q),
                 release_cancelled_writer(t, q)
          PROVE  IInv'
        BY <2>2, ReleaseCancelledStep
    <2>3. ASSUME NEW t \in Tasks, resolve_cancel_task(t) PROVE IInv'
        BY <2>3, ResolveCancelStep
    <2> QED
        BY <1>2, <2>1, <2>2, <2>3 DEF Root
<1>3. CASE Dispatch
    <2>1. ASSUME ensure_task_consumers PROVE IInv'
        BY <2>1, EnsureStep
    <2>2. ASSUME NEW g \in Agents, revive_agent(g) PROVE IInv'
        BY <2>2, ReviveStep
    <2>3. ASSUME NEW t \in Tasks, NEW g \in Agents, Claimable(t), Selectable(g),
                 claim_selected(t, g)
          PROVE  IInv'
        BY <2>3, ClaimStep
    <2>4. ASSUME NEW id \in AttemptIds, NEW isolated \in BOOLEAN, create_execution(id, isolated)
          PROVE  IInv'
        BY <2>4, CreateExecutionStep
    <2>5. ASSUME NEW id \in AttemptIds, confirm_running_and_renew(id) PROVE IInv'
        BY <2>5, ConfirmRunningStep
    <2>6. ASSUME NEW id \in AttemptIds, physical[id] = "none", abort_before_physical_start(id)
          PROVE  IInv'
        BY <2>6, AbortStep
    <2>7. ASSUME NEW id \in AttemptIds, report_configuration_unavailable(id) PROVE IInv'
        BY <2>7, NackStep, KernelAssumption DEF report_configuration_unavailable, Truthful
    <2> QED
        BY <1>3, <2>1, <2>2, <2>3, <2>4, <2>5, <2>6, <2>7 DEF Dispatch, claim_next_available
<1>4. CASE Observe
    <2>1. ASSUME NEW id \in AttemptIds, NEW state \in Observable, NEW terminal \in BOOLEAN,
                 NEW q \in BOOLEAN, Truthful(id, q), NEW classed \in ReportedClass(state),
                 record_physical_outcome(id, state, classed, terminal, q)
          PROVE  IInv'
        BY SMT, <2>1, RecordOutcomeStep, KernelAssumption DEF ExecutionState, ReportedClass
    <2>2. ASSUME NEW id \in AttemptIds, NEW state \in Observable, NEW q \in BOOLEAN,
                 Truthful(id, q), NEW classed \in ReportedClass(state),
                 record_pending_physical_terminal(id, state, classed, q)
          PROVE  IInv'
        BY SMT, <2>2, RecordPendingStep, KernelAssumption DEF ExecutionState, ReportedClass
    <2>3. ASSUME NEW id \in AttemptIds, NEW q \in BOOLEAN, NEW reusable \in BOOLEAN,
                 Truthful(id, q), ack_success(id, q, reusable)
          PROVE  IInv'
        BY <2>3, AckSuccessStep
    <2>4. ASSUME NEW id \in AttemptIds, NEW class \in FailureClass, NEW terminal \in BOOLEAN,
                 NEW q \in BOOLEAN, NEW reusable \in BOOLEAN, Truthful(id, q),
                 nack(id, class, terminal, q, reusable)
          PROVE  IInv'
        BY <2>4, NackStep
    <2>5. ASSUME NEW id \in AttemptIds, NEW class \in FailureClass,
                 nack_preserving_physical_history(id, class)
          PROVE  IInv'
        BY <2>5, NackPreservingStep
    <2> QED
        BY <1>4, <2>1, <2>2, <2>3, <2>4, <2>5 DEF Observe
<1>5. CASE Clock
    <2>1. ASSUME NEW recovering \in BOOLEAN, expire_leases(recovering) PROVE IInv'
        BY <2>1, ExpireStep
    <2>2. ASSUME NEW due \in SUBSET Tasks, promote_retry_wait(due) PROVE IInv'
        BY <2>2, PromoteStep
    <2>3. ASSUME NEW id \in AttemptIds, LeaseElapses(id) PROVE IInv'
        BY <2>3, LeaseElapsesStep
    <2> QED
        BY <1>5, <2>1, <2>2, <2>3 DEF Clock
<1>6. CASE Physical
    BY ZenonT(60), <1>6, PhysicalStepStep DEF Physical
<1>7. CASE UNCHANGED vars
    <2>1. TypeOK'
        BY ZenonT(60), <1>7 DEF vars, IInv, TypeOK
    <2>2. Agreement' /\ Binding'
        BY ZenonT(60), <1>7 DEF vars, IInv, Agreement, Binding, Active
    <2>3. SuspendedAsksRoot' /\ Quarantine' /\ Unsubmitted'
        BY ZenonT(60), <1>7 DEF vars, IInv, SuspendedAsksRoot, Quarantine, Unsubmitted, Obligation
    <2>4. Evidence' /\ Accounted'
        BY ZenonT(60), <1>7 DEF vars, IInv, Evidence, Accounted, Active, Obligation, Unquiet,
           HasExecution
    <2> QED
        BY <2>1, <2>2, <2>3, <2>4 DEF IInv
<1> QED
    BY <1>1, <1>2, <1>3, <1>4, <1>5, <1>6, <1>7 DEF Next

\* The inductive invariant holds in every reachable state.
THEOREM Invariant == Spec => []IInv
BY InitInvariant, NextInvariant, PTL DEF Spec

\* Every table of the kernel keeps its type, for any number of tasks, agents,
\* attempts and incarnations.
THEOREM TypeCorrect == Spec => []TypeOK
<1>1. IInv => TypeOK
    BY Zenon DEF IInv
<1> QED
    BY <1>1, Invariant, PTL

\* No two processes write the same workspace: kernel operations in any order and
\* from any caller, lease expiry, retries, cancellation and Root's resolutions
\* included, never let two unisolated processes of a write task run at once.
THEOREM WritersExcluded == Spec => []WriterExclusion
<1>1. IInv => WriterExclusion
    <2> SUFFICES ASSUME IInv, NEW i \in AttemptIds, NEW j \in AttemptIds,
                        i[1] = j[1], i[1] \in Writers,
                        physical[i] = "running", physical[j] = "running",
                        ~executions[i].isolated, ~executions[j].isolated
                 PROVE  i = j
        BY ZenonT(60) DEF WriterExclusion
    <2>1. Unquiet(i) /\ Unquiet(j)
        BY ZenonT(60) DEF Unquiet, IInv, Evidence
    <2> QED
        BY Zenon, <2>1, AttemptIdFacts DEF IInv, Accounted
<1> QED
    BY <1>1, Invariant, PTL

\* Attempt, lease, task and agent always tell the same story about who works.
THEOREM AuthorityIsSingle == Spec => []SingleAuthority
<1>1. IInv => SingleAuthority
    <2> SUFFICES ASSUME IInv PROVE SingleAuthority
        BY Zenon
    <2>1. \A id, other \in AttemptIds :
              Active(id) /\ Active(other) /\ attempts[other].agent = attempts[id].agent
              => other = id
        BY ZenonT(60), OneAttemptPerAgent
    <2> QED
        BY <2>1 DEF IInv, Agreement, Binding, Active, SingleAuthority
<1> QED
    BY <1>1, Invariant, PTL

\* The agent behind an undischarged writer obligation is never back in service.
THEOREM WriterQuarantined == Spec => []WriterQuarantine
<1>1. IInv => WriterQuarantine
    BY Zenon DEF IInv, Quarantine, Obligation, WriterQuarantine
<1> QED
    BY <1>1, Invariant, PTL

\* A suspended task always has an open escalation, and an open escalation always
\* belongs to a suspended or cancelled task.
THEOREM SuspensionEscalated == Spec => []SuspendedAsksRoot
<1>1. IInv => SuspendedAsksRoot
    BY Zenon DEF IInv
<1> QED
    BY <1>1, Invariant, PTL

----------------------------------------------------------------------------
(* Work: the inductive invariant *)

\* The states of a task that may be or was worked on.
Started == {"QUEUED", "LEASED", "RUNNING", "RETRY_WAIT", "SUSPENDED", "COMPLETED"}

Ordered ==
    \A t \in Tasks : tasks[t].epoch > 0 \/ tasks[t].state \in Started =>
        \A d \in DependsOn[t] : tasks[d].state = "COMPLETED"

Submitted == \A t \in Tasks : tasks[t].state = "NONE" <=> batches[BatchOf[t]] = "NONE"

Reported == \A t \in Tasks : results[t] # "NONE" <=> tasks[t].state = "COMPLETED"

WorkInv == Ordered /\ Submitted /\ Reported /\ BatchUpToDate

\* What a step may do to a task: an end is final, a claim is of a QUEUED task, and a
\* task is released when all it depends on is COMPLETED.
TaskStep(t) ==
    /\ tasks[t].state \in {"COMPLETED", "CANCELLED"} => tasks'[t].state = tasks[t].state
    /\ tasks'[t].epoch >= tasks[t].epoch
    /\ tasks'[t].epoch # tasks[t].epoch => tasks[t].state = "QUEUED"
    /\ tasks'[t].state \in Started =>
          tasks[t].state \in Started \/ \A d \in DependsOn[t] : tasks'[d].state = "COMPLETED"
    /\ tasks'[t].state = "NONE" <=> batches'[BatchOf[t]] = "NONE"
    /\ results'[t] # "NONE" <=> tasks'[t].state = "COMPLETED"

WorkStep == (\A t \in Tasks : TaskStep(t)) /\ BatchUpToDate'

\* A step that makes no difference to the state of the task's batch.
SameClass(t) ==
    /\ tasks'[t].state \in {"SUSPENDED", "CANCELLED"} <=>
          tasks[t].state \in {"SUSPENDED", "CANCELLED"}
    /\ tasks'[t].state = "COMPLETED" <=> tasks[t].state = "COMPLETED"

\* Initially there is no work.
LEMMA WorkInit == Init => WorkInv
<1> USE Zenon
<1> SUFFICES ASSUME Init PROVE WorkInv
    OBVIOUS
<1>1. /\ \A t \in Tasks : tasks[t].state = "NONE" /\ tasks[t].epoch = 0 /\ results[t] = "NONE"
      /\ \A b \in Batches : batches[b] = "NONE" /\ wakeups[b] = 0
    BY DEF Init
<1>2. Ordered /\ Submitted /\ Reported
    BY SMT, <1>1, KernelAssumption DEF Ordered, Submitted, Reported, Started
<1>3. BatchUpToDate
    BY <1>1 DEF BatchUpToDate
<1> QED
    BY <1>2, <1>3 DEF WorkInv

\* Steps of this kind keep the order of the work.
LEMMA WorkKept ==
    ASSUME IInv, IInv', WorkInv, WorkStep
    PROVE  WorkInv'
<1> USE Zenon
<1>1. \A t \in Tasks : tasks[t].epoch \in Nat /\ tasks'[t].epoch \in Nat
    BY SMT, KernelAssumption DEF IInv, TypeOK, TaskRow
<1>2. \A t \in Tasks : tasks[t].state = "COMPLETED" => tasks'[t].state = "COMPLETED"
    BY DEF WorkStep, TaskStep
<1>3. Ordered'
    <2> SUFFICES ASSUME NEW t \in Tasks, tasks'[t].epoch > 0 \/ tasks'[t].state \in Started,
                        NEW d \in DependsOn[t]
                 PROVE  tasks'[d].state = "COMPLETED"
        BY DEF Ordered
    <2>1. d \in Tasks
        BY KernelAssumption
    <2>2. TaskStep(t)
        BY DEF WorkStep
    <2>3. \/ tasks[t].epoch > 0
          \/ tasks[t].state \in Started
          \/ \A e \in DependsOn[t] : tasks'[e].state = "COMPLETED"
        BY <1>1, <2>2 DEF TaskStep, Started
    <2> QED
        BY <1>2, <2>1, <2>3 DEF WorkInv, Ordered
<1>4. Submitted' /\ Reported'
    BY DEF WorkStep, TaskStep, Submitted, Reported
<1> QED
    BY <1>3, <1>4 DEF WorkInv, WorkStep

\* The state of a batch depends on what its tasks are to it.
LEMMA SameBatchState ==
    ASSUME NEW b \in Batches, \A t \in TasksOf(b) : SameClass(t)
    PROVE  batch_next_state(b, tasks') = batch_next_state(b, tasks)
BY Zenon DEF batch_next_state, SameClass

\* Steps that leave the work alone.
LEMMA NoWork ==
    ASSUME IInv, WorkInv, UNCHANGED <<tasks, batches, results, wakeups>>
    PROVE  WorkStep
<1>1. \A t \in Tasks : tasks[t].epoch \in Nat
    BY KernelAssumption DEF IInv, TypeOK, TaskRow
<1>2. BatchUpToDate'
    BY Zenon DEF WorkInv, BatchUpToDate, batch_next_state
<1>3. \A t \in Tasks : TaskStep(t)
    BY <1>1 DEF WorkInv, Submitted, Reported, TaskStep
<1> QED
    BY Zenon, <1>2, <1>3 DEF WorkStep

\* Steps after which no batch needs to be recomputed.
LEMMA BatchesKept ==
    ASSUME WorkInv, UNCHANGED <<batches, wakeups>>, \A t \in Tasks : SameClass(t)
    PROVE  BatchUpToDate'
<1> USE Zenon
<1> SUFFICES ASSUME NEW b \in Batches
             PROVE  /\ batches[b] \notin {"NONE", "CANCELLED"} =>
                          batches[b] = batch_next_state(b, tasks')
                    /\ wakeups[b] = IF batches[b] = "COMPLETED" THEN 1 ELSE 0
    BY DEF BatchUpToDate
<1>1. batch_next_state(b, tasks') = batch_next_state(b, tasks)
    BY SameBatchState DEF TasksOf
<1> QED
    BY <1>1 DEF WorkInv, BatchUpToDate

\* Steps that recompute the batches of the tasks they touch.
LEMMA BatchesRecomputed ==
    ASSUME IInv, WorkInv, NEW B, recompute_batch(B),
           \A b \in B : b \in Batches /\ batches[b] # "NONE",
           \A t \in Tasks : BatchOf[t] \notin B => SameClass(t),
           \A t \in Tasks : tasks[t].state = "COMPLETED" => tasks'[t].state = "COMPLETED"
    PROVE  BatchUpToDate'
<1> USE Zenon
<1> SUFFICES ASSUME NEW b \in Batches
             PROVE  /\ batches'[b] \notin {"NONE", "CANCELLED"} =>
                          batches'[b] = batch_next_state(b, tasks')
                    /\ wakeups'[b] = IF batches'[b] = "COMPLETED" THEN 1 ELSE 0
    BY DEF BatchUpToDate
<1>1. /\ batches'[b] = IF b \in B /\ batches[b] # "CANCELLED"
                       THEN batch_next_state(b, tasks') ELSE batches[b]
      /\ wakeups'[b] = IF b \in B /\ batches[b] \notin {"CANCELLED", "COMPLETED"}
                             /\ batch_next_state(b, tasks') = "COMPLETED"
                       THEN wakeups[b] + 1 ELSE wakeups[b]
    BY DEF recompute_batch
<1>2. /\ batches[b] \notin {"NONE", "CANCELLED"} => batches[b] = batch_next_state(b, tasks)
      /\ wakeups[b] = IF batches[b] = "COMPLETED" THEN 1 ELSE 0
    BY DEF WorkInv, BatchUpToDate
<1>3. CASE b \notin B
    <2>1. batch_next_state(b, tasks') = batch_next_state(b, tasks)
        BY <1>3, SameBatchState DEF TasksOf
    <2> QED
        BY <1>1, <1>2, <1>3, <2>1
<1>4. CASE b \in B /\ batches[b] = "COMPLETED"
    <2>1. \A t \in TasksOf(b) : tasks[t].state = "COMPLETED"
        BY <1>2, <1>4 DEF batch_next_state
    <2>2. \A t \in TasksOf(b) : tasks'[t].state = "COMPLETED"
        BY <2>1 DEF TasksOf
    <2>3. batch_next_state(b, tasks') = "COMPLETED"
        BY <2>2 DEF batch_next_state
    <2> QED
        BY <1>1, <1>2, <1>4, <2>3
<1>5. CASE b \in B /\ batches[b] = "CANCELLED"
    BY <1>1, <1>2, <1>5
<1>6. CASE b \in B /\ batches[b] \notin {"COMPLETED", "CANCELLED"}
    BY SMT, <1>1, <1>2, <1>6
<1> QED
    BY <1>3, <1>4, <1>5, <1>6


----------------------------------------------------------------------------
(* Work: the steps *)

\* submit_batch: the tasks are new, and those that depend on nothing are QUEUED.
LEMMA SubmitWork ==
    ASSUME IInv, WorkInv, NEW b \in Batches, submit_batch(b)
    PROVE  WorkStep
<1> USE Zenon
<1>1. /\ batches[b] = "NONE" /\ batches' = [batches EXCEPT ![b] = "ACTIVE"]
      /\ TasksOf(b) # {}
      /\ results' = results /\ wakeups' = wakeups
    BY DEF submit_batch
<1>2. \A t \in Tasks :
          /\ BatchOf[t] # b => tasks'[t] = tasks[t]
          /\ BatchOf[t] = b => /\ tasks'[t].state = IF DependsOn[t] = {} THEN "QUEUED"
                                                    ELSE "BLOCKED"
                               /\ tasks'[t].epoch = 0
    BY DEF submit_batch, TasksOf
<1>3. \A t \in Tasks : BatchOf[t] = b =>
          tasks[t].state = "NONE" /\ tasks[t].epoch = 0 /\ results[t] = "NONE"
    BY <1>1, KernelAssumption DEF IInv, Unsubmitted, WorkInv, Submitted, Reported
<1>4. \A c \in Batches : batches'[c] = IF c = b THEN "ACTIVE" ELSE batches[c]
    BY <1>1 DEF IInv, TypeOK
<1>5. \A t \in Tasks : tasks[t].epoch \in Nat /\ BatchOf[t] \in Batches
    BY SMT, KernelAssumption DEF IInv, TypeOK, TaskRow
<1>6. ASSUME NEW t \in Tasks PROVE TaskStep(t)
    <2>1. CASE BatchOf[t] = b
        BY SMT, <2>1, <1>1, <1>2, <1>3, <1>4, <1>5 DEF TaskStep, Started
    <2>2. CASE BatchOf[t] # b
        BY SMT, <2>2, <1>1, <1>2, <1>4, <1>5 DEF TaskStep, WorkInv, Submitted, Reported
    <2> QED
        BY <2>1, <2>2
<1>7. ASSUME NEW c \in Batches
      PROVE  /\ batches'[c] \notin {"NONE", "CANCELLED"} =>
                   batches'[c] = batch_next_state(c, tasks')
             /\ wakeups'[c] = IF batches'[c] = "COMPLETED" THEN 1 ELSE 0
    <2>1. CASE c = b
        <3>1. \A t \in TasksOf(b) : tasks'[t].state \in {"QUEUED", "BLOCKED"}
            BY <1>2 DEF TasksOf
        <3>2. batch_next_state(b, tasks') = "ACTIVE"
            BY <1>1, <3>1 DEF batch_next_state
        <3> QED
            BY <2>1, <3>2, <1>1, <1>4 DEF WorkInv, BatchUpToDate
    <2>2. CASE c # b
        <3>1. \A t \in TasksOf(c) : SameClass(t)
            BY <2>2, <1>2 DEF TasksOf, SameClass
        <3>2. batch_next_state(c, tasks') = batch_next_state(c, tasks)
            BY <3>1, SameBatchState
        <3> QED
            BY <2>2, <3>2, <1>1, <1>4 DEF WorkInv, BatchUpToDate
    <2> QED
        BY <2>1, <2>2
<1>8. BatchUpToDate'
    BY <1>7 DEF BatchUpToDate
<1> QED
    BY <1>6, <1>8 DEF WorkStep

\* ack_result: an ACK by Root is of a result that exists.
LEMMA AckResultWork ==
    ASSUME IInv, WorkInv, NEW t \in Tasks, ack_result(t)
    PROVE  WorkStep
<1> USE Zenon
<1>1. /\ results[t] # "NONE" /\ results' = [results EXCEPT ![t] = "ACKED"]
      /\ UNCHANGED <<tasks, batches, wakeups>>
    BY DEF ack_result
<1>2. \A u \in Tasks : results'[u] # "NONE" <=> results[u] # "NONE"
    BY <1>1 DEF IInv, TypeOK
<1>3. \A u \in Tasks : tasks[u].epoch \in Nat
    BY SMT, KernelAssumption DEF IInv, TypeOK, TaskRow
<1>4. \A u \in Tasks : TaskStep(u)
    BY SMT, <1>1, <1>2, <1>3 DEF WorkInv, Submitted, Reported, TaskStep
<1>5. BatchUpToDate'
    BY <1>1, BatchesKept DEF SameClass
<1> QED
    BY <1>4, <1>5 DEF WorkStep

\* A step that moves tasks on and touches nothing else of the work.
LEMMA TasksOnlyWork ==
    ASSUME IInv, WorkInv, UNCHANGED <<batches, results, wakeups>>,
           \A t \in Tasks :
               \/ tasks'[t] = tasks[t]
               \/ /\ tasks[t].state \in {"QUEUED", "LEASED", "RUNNING", "RETRY_WAIT"}
                  /\ tasks'[t].state \in {"QUEUED", "LEASED", "RUNNING", "RETRY_WAIT"}
                  /\ tasks'[t].epoch >= tasks[t].epoch
                  /\ tasks'[t].epoch # tasks[t].epoch => tasks[t].state = "QUEUED"
    PROVE  WorkStep
<1> USE Zenon
<1>1. \A t \in Tasks : SameClass(t)
    BY DEF SameClass
<1>2. BatchUpToDate'
    BY <1>1, BatchesKept
<1>3. \A u \in Tasks : tasks[u].epoch \in Nat
    BY SMT, KernelAssumption DEF IInv, TypeOK, TaskRow
<1>4. ASSUME NEW t \in Tasks PROVE TaskStep(t)
    <2>1. CASE tasks'[t] = tasks[t]
        BY SMT, <2>1, <1>3 DEF TaskStep, WorkInv, Submitted, Reported
    <2>2. CASE tasks'[t] # tasks[t]
        BY <2>2 DEF TaskStep, WorkInv, Submitted, Reported, Started
    <2> QED
        BY <2>1, <2>2
<1> QED
    BY <1>2, <1>4 DEF WorkStep

\* claim_selected: a QUEUED task is claimed under the next epoch.
LEMMA ClaimWork ==
    ASSUME IInv, WorkInv, NEW t \in Tasks, NEW g \in Agents, Claimable(t), claim_selected(t, g)
    PROVE  WorkStep
<1>1. /\ tasks' = [tasks EXCEPT ![t] = [state |-> "LEASED", current |-> tasks[t].epoch + 1,
                                        epoch |-> tasks[t].epoch + 1]]
      /\ UNCHANGED <<batches, results, wakeups>>
      /\ tasks[t].state = "QUEUED"
    BY Zenon DEF claim_selected, Claimable
<1>2. tasks[t].epoch \in Nat /\ t \in DOMAIN tasks
    BY KernelAssumption DEF IInv, TypeOK, TaskRow
<1>3. tasks'[t].state = "LEASED" /\ tasks'[t].epoch = tasks[t].epoch + 1
    BY Zenon, <1>1, <1>2
<1>4. \A u \in Tasks \ {t} : tasks'[u] = tasks[u]
    BY Zenon, <1>1 DEF IInv, TypeOK
<1> QED
    BY <1>1, <1>2, <1>3, <1>4, TasksOnlyWork

\* confirm_running_and_renew: the task in authority is RUNNING.
LEMMA ConfirmWork ==
    ASSUME IInv, WorkInv, NEW id \in AttemptIds, confirm_running_and_renew(id)
    PROVE  WorkStep
<1>1. /\ tasks' = [tasks EXCEPT ![id[1]].state = "RUNNING"]
      /\ UNCHANGED <<batches, results, wakeups>>
      /\ validate_authority(id)
    BY Zenon DEF confirm_running_and_renew
<1>2. id[1] \in Tasks /\ tasks[id[1]].state \in {"LEASED", "RUNNING"}
    BY Zenon, <1>1, AuthorityIsActive, ActiveIsCurrent
<1>3. \A u \in Tasks : tasks[u].epoch \in Nat
    BY KernelAssumption DEF IInv, TypeOK, TaskRow
<1>4. tasks'[id[1]].state = "RUNNING" /\ tasks'[id[1]].epoch = tasks[id[1]].epoch
    BY <1>1, <1>2 DEF IInv, TypeOK, TaskRow
<1>5. \A u \in Tasks \ {id[1]} : tasks'[u] = tasks[u]
    BY Zenon, <1>1 DEF IInv, TypeOK
<1> QED
    BY <1>1, <1>2, <1>3, <1>4, <1>5, TasksOnlyWork

\* promote_retry_wait: tasks that backed off are QUEUED again.
LEMMA PromoteWork ==
    ASSUME IInv, WorkInv, NEW due \in SUBSET Tasks, promote_retry_wait(due)
    PROVE  WorkStep
<1>1. UNCHANGED <<batches, results, wakeups>>
    BY Zenon DEF promote_retry_wait
<1>2. \A u \in Tasks : tasks[u].epoch \in Nat
    BY KernelAssumption DEF IInv, TypeOK, TaskRow
<1>3. \A t \in Tasks :
          \/ tasks'[t] = tasks[t]
          \/ /\ tasks[t].state = "RETRY_WAIT"
             /\ tasks'[t].state = "QUEUED" /\ tasks'[t].epoch = tasks[t].epoch
    BY DEF promote_retry_wait, IInv, TypeOK, TaskRow
<1> QED
    BY <1>1, <1>2, <1>3, TasksOnlyWork


----------------------------------------------------------------------------
(* Work: steps that recompute batches *)

\* What happens to a task in a transaction that recomputes the batches B: nothing, or
\* it moves on from a state that is no end, and its batch is recomputed if it has to be.
Moved(t, B) ==
    /\ tasks'[t].epoch = tasks[t].epoch
    /\ \/ tasks'[t].state = tasks[t].state /\ results'[t] = results[t]
       \/ /\ tasks[t].state \notin {"NONE", "COMPLETED", "CANCELLED"}
          /\ tasks'[t].state # "NONE"
          /\ BatchOf[t] \in B \/ SameClass(t)
          /\ tasks'[t].state \in Started =>
                \/ tasks[t].state \in Started
                \/ \A d \in DependsOn[t] : tasks'[d].state = "COMPLETED"
          /\ results'[t] # "NONE" <=> tasks'[t].state = "COMPLETED"

\* recompute_batch neither submits a batch nor undoes a submission.
LEMMA RecomputeKeeps ==
    ASSUME NEW B, recompute_batch(B), \A b \in B : batches[b] # "NONE"
    PROVE  \A b \in Batches : batches'[b] = "NONE" <=> batches[b] = "NONE"
BY Zenon DEF recompute_batch, batch_next_state

\* A transaction that moves tasks and recomputes their batches keeps the order.
LEMMA RecomputedWork ==
    ASSUME IInv, WorkInv, NEW B, recompute_batch(B),
           \A b \in B : b \in Batches /\ batches[b] # "NONE",
           \A t \in Tasks : Moved(t, B)
    PROVE  WorkStep
<1> USE Zenon
<1>1. \A t \in Tasks : BatchOf[t] \notin B => SameClass(t)
    BY DEF SameClass, Moved
<1>2. \A t \in Tasks : tasks[t].state = "COMPLETED" => tasks'[t].state = "COMPLETED"
    BY DEF Moved
<1>3. BatchUpToDate'
    BY <1>1, <1>2, BatchesRecomputed
<1>4. \A b \in Batches : batches'[b] = "NONE" <=> batches[b] = "NONE"
    BY RecomputeKeeps
<1>5. ASSUME NEW t \in Tasks PROVE TaskStep(t)
    <2>1. tasks[t].epoch \in Nat /\ BatchOf[t] \in Batches /\ Moved(t, B)
        BY SMT, KernelAssumption DEF IInv, TypeOK, TaskRow
    <2>2. CASE tasks'[t].state = tasks[t].state /\ results'[t] = results[t]
        BY SMT, <2>1, <2>2, <1>4 DEF TaskStep, Moved, WorkInv, Submitted, Reported
    <2>3. CASE ~(tasks'[t].state = tasks[t].state /\ results'[t] = results[t])
        BY SMT, <2>1, <2>3, <1>4 DEF TaskStep, Moved, WorkInv, Submitted
    <2> QED
        BY <2>2, <2>3
<1> QED
    BY <1>3, <1>5 DEF WorkStep

----------------------------------------------------------------------------
(* Work: the ends of attempts *)

\* The attempts that a transaction closes are in authority.
Ending(out) ==
    \A id \in DOMAIN out :
        /\ id \in AttemptIds /\ Active(id)
        /\ out[id].task \in {"COMPLETED", "RETRY_WAIT", "SUSPENDED", "QUEUED", "CANCELLED"}

\* CloseAttempts moves the tasks of those attempts, which are being worked on.
LEMMA ClosedTasksMove ==
    ASSUME IInv, NEW out, Ending(out), NEW t \in Tasks
    PROVE  /\ ClosedTasks(out)[t].epoch = tasks[t].epoch
           /\ Current(t) \in DOMAIN out =>
                 /\ ClosedTasks(out)[t].state = out[Current(t)].task
                 /\ tasks[t].state \in {"LEASED", "RUNNING"}
                 /\ Current(t)[1] = t
           /\ Current(t) \notin DOMAIN out => ClosedTasks(out)[t] = tasks[t]
<1> USE Zenon
<1>1. CASE Current(t) \in DOMAIN out
    <2>1. Current(t) \in AttemptIds /\ Active(Current(t)) /\ Current(t)[1] = t
        BY <1>1 DEF Ending, Current
    <2>2. tasks[t].state \in {"LEASED", "RUNNING"}
        BY <2>1, ActiveIsCurrent
    <2>3. ClosedTasks(out)[t] = [tasks[t] EXCEPT !.state = out[Current(t)].task, !.current = 0]
        BY <1>1 DEF ClosedTasks
    <2>4. tasks[t] \in TaskRow
        BY DEF IInv, TypeOK
    <2>5. /\ ClosedTasks(out)[t].epoch = tasks[t].epoch
          /\ ClosedTasks(out)[t].state = out[Current(t)].task
        BY ZenonT(60), <2>3, <2>4 DEF TaskRow
    <2> QED
        BY <1>1, <2>1, <2>2, <2>5
<1>2. CASE Current(t) \notin DOMAIN out
    BY <1>2 DEF ClosedTasks
<1> QED
    BY <1>1, <1>2

\* The tasks stay rows of their table.
LEMMA ClosedRows ==
    ASSUME IInv, NEW out, Ending(out), NEW t \in Tasks
    PROVE  ClosedTasks(out)[t] \in TaskRow
<1> USE Zenon
<1>1. tasks[t] \in TaskRow /\ 0 \in 0 .. MaxClaims
    BY SMT, KernelAssumption DEF IInv, TypeOK
<1>2. CASE Current(t) \in DOMAIN out
    <2>1. out[Current(t)].task \in TaskState
        BY <1>2 DEF Ending, TaskState
    <2>2. [tasks[t] EXCEPT !.state = out[Current(t)].task, !.current = 0] \in TaskRow
        BY ZenonT(60), <1>1, <2>1 DEF TaskRow
    <2> QED
        BY <1>2, <2>2 DEF ClosedTasks
<1>3. CASE Current(t) \notin DOMAIN out
    BY <1>1, <1>3 DEF ClosedTasks
<1> QED
    BY <1>2, <1>3

\* A closing of attempts that recomputes the batch of every task it suspends.
LEMMA ClosedWork ==
    ASSUME IInv, WorkInv, NEW out, NEW B, Ending(out),
           tasks' = ClosedTasks(out), recompute_batch(B), results' = results,
           \A id \in DOMAIN out : \/ out[id].task \in {"RETRY_WAIT", "QUEUED"}
                                  \/ out[id].task = "SUSPENDED" /\ BatchOf[id[1]] \in B,
           \A b \in B : \E id \in DOMAIN out : b = BatchOf[id[1]]
    PROVE  WorkStep
<1> USE Zenon
<1>1. \A t \in Tasks :
          /\ tasks'[t].epoch = tasks[t].epoch
          /\ \/ tasks'[t] = tasks[t]
             \/ /\ tasks[t].state \in {"LEASED", "RUNNING"}
                /\ \/ tasks'[t].state \in {"RETRY_WAIT", "QUEUED"}
                   \/ tasks'[t].state = "SUSPENDED" /\ BatchOf[t] \in B
    BY SMT, ClosedTasksMove
<1>2. \A b \in B : b \in Batches /\ batches[b] # "NONE"
    <2> SUFFICES ASSUME NEW b \in B PROVE b \in Batches /\ batches[b] # "NONE"
        OBVIOUS
    <2>1. PICK id \in DOMAIN out : b = BatchOf[id[1]]
        OBVIOUS
    <2>2. id[1] \in Tasks /\ tasks[id[1]].state \in {"LEASED", "RUNNING"}
        BY ActiveIsCurrent, AttemptIdFacts DEF Ending
    <2> QED
        BY <2>1, <2>2, KernelAssumption DEF WorkInv, Submitted
<1>3. ASSUME NEW t \in Tasks PROVE Moved(t, B)
    <2>1. CASE tasks'[t] = tasks[t]
        BY <2>1, <1>1 DEF Moved
    <2>2. CASE tasks'[t] # tasks[t]
        BY <2>2, <1>1 DEF Moved, SameClass, Started, WorkInv, Reported
    <2> QED
        BY <2>1, <2>2
<1> QED
    BY <1>2, <1>3, RecomputedWork

\* One failed attempt: nack, nack_preserving_physical_history, abort.
LEMMA FailureWork ==
    ASSUME IInv, WorkInv, NEW id \in AttemptIds, Active(id), NEW out, DOMAIN out = {id},
           out[id].task \in {"RETRY_WAIT", "QUEUED", "SUSPENDED"},
           FailureConsequence(id, out)
    PROVE  WorkStep
<1> USE Zenon
<1> DEFINE B == IF out[id].task = "SUSPENDED" THEN {BatchOf[id[1]]} ELSE {}
<1>1. /\ tasks' = ClosedTasks(out) /\ recompute_batch(B) /\ results' = results
    BY DEF FailureConsequence
<1>2. Ending(out)
    BY DEF Ending
<1>3. /\ \A i \in DOMAIN out : \/ out[i].task \in {"RETRY_WAIT", "QUEUED"}
                               \/ out[i].task = "SUSPENDED" /\ BatchOf[i[1]] \in B
      /\ \A b \in B : \E i \in DOMAIN out : b = BatchOf[i[1]]
    OBVIOUS
<1> HIDE DEF B
<1> QED
    BY <1>1, <1>2, <1>3, ClosedWork

\* The failure rules ask whether the attempt's writer may be replaced.
SafeToReplace(id, quiescent) ==
    writer_is_safe_to_replace(id[1] \in Writers, HasExecution(id), quiescent,
                              executions[id].isolated)

\* What the failure rules make of an attempt.
FailureOutcome(out, id, class, quiescent, presence) ==
    /\ DOMAIN out = {id}
    /\ out[id].task \in {"RETRY_WAIT", "SUSPENDED"}
    /\ out[id].attempt = "FAILED"
    /\ out[id].presence = presence
    /\ out[id].cause = WriterUnknown => class = WriterUnknown \/ ~SafeToReplace(id, quiescent)

LEMMA FailedRow ==
    ASSUME NEW id, NEW class, NEW quiescent, NEW presence
    PROVE  FailureOutcome(Failed(id, class, quiescent, presence), id, class, quiescent, presence)
<1> USE Zenon
<1> DEFINE out == Failed(id, class, quiescent, presence)
           safe == writer_is_safe_to_replace(id[1] \in Writers, HasExecution(id),
                                             quiescent, executions[id].isolated)
           cause == suspension_failure_class(safe, class)
<1>1. \/ out = CloseOne(id, "FAILED", "RELEASED", "RETRY_WAIT", presence, "NONE")
      \/ out = CloseOne(id, "FAILED", "REVOKED", "SUSPENDED", presence, cause)
    BY DEF Failed
<1>2. cause = WriterUnknown => class = WriterUnknown \/ ~safe
    BY DEF suspension_failure_class
<1>3. WriterUnknown # "NONE"
    BY DEF WriterUnknown
<1> HIDE DEF cause, safe, out
<1>4. CASE out = CloseOne(id, "FAILED", "RELEASED", "RETRY_WAIT", presence, "NONE")
    <2>1. /\ DOMAIN out = {id} /\ out[id].task = "RETRY_WAIT" /\ out[id].attempt = "FAILED"
          /\ out[id].presence = presence /\ out[id].cause = "NONE"
        BY ZenonT(60), <1>4 DEF CloseOne
    <2> QED
        BY ZenonT(60), <2>1, <1>3 DEF out, FailureOutcome
<1>5. CASE out = CloseOne(id, "FAILED", "REVOKED", "SUSPENDED", presence, cause)
    <2>1. /\ DOMAIN out = {id} /\ out[id].task = "SUSPENDED" /\ out[id].attempt = "FAILED"
          /\ out[id].presence = presence /\ out[id].cause = cause
        BY ZenonT(60), <1>5 DEF CloseOne
    <2> QED
        BY ZenonT(60), <2>1, <1>2 DEF out, safe, SafeToReplace, FailureOutcome
<1> QED
    BY <1>1, <1>4, <1>5

\* The failure rules retry the task or suspend it.
LEMMA FailedWork ==
    ASSUME IInv, WorkInv, NEW id \in AttemptIds, NEW class, NEW quiescent, NEW presence,
           validate_authority(id), FailureConsequence(id, Failed(id, class, quiescent, presence))
    PROVE  WorkStep
<1> USE Zenon
<1> DEFINE out == Failed(id, class, quiescent, presence)
<1>1. FailureOutcome(out, id, class, quiescent, presence)
    BY FailedRow
<1>2. Active(id) /\ FailureConsequence(id, out)
    BY AuthorityIsActive
<1> HIDE DEF out
<1>3. DOMAIN out = {id} /\ out[id].task \in {"RETRY_WAIT", "QUEUED", "SUSPENDED"}
    BY <1>1 DEF FailureOutcome
<1> QED
    BY <1>2, <1>3, FailureWork

\* nack.
LEMMA NackWork ==
    ASSUME IInv, WorkInv, NEW id \in AttemptIds, NEW class, NEW terminal, NEW q, NEW reusable,
           nack(id, class, terminal, q, reusable)
    PROVE  WorkStep
<1> USE Zenon
<1> DEFINE durable == durable_quiescence(terminal, q)
           presence == incarnation_presence(PresenceOfFailure(class), terminal, durable,
                                            reusable)
<1>1. validate_authority(id) /\ FailureConsequence(id, Failed(id, class, durable, presence))
    BY DEF nack
<1> HIDE DEF durable, presence
<1> QED
    BY <1>1, FailedWork

\* nack_preserving_physical_history.
LEMMA NackPreservingWork ==
    ASSUME IInv, WorkInv, NEW id \in AttemptIds, NEW class,
           nack_preserving_physical_history(id, class)
    PROVE  WorkStep
<1> USE Zenon
<1> DEFINE presence == incarnation_presence(PresenceOfFailure(class), FALSE, FALSE, FALSE)
<1>1. validate_authority(id) /\ FailureConsequence(id, Failed(id, class, FALSE, presence))
    BY DEF nack_preserving_physical_history
<1> HIDE DEF presence
<1> QED
    BY <1>1, FailedWork

\* abort_before_physical_start.
LEMMA AbortWork ==
    ASSUME IInv, WorkInv, NEW id \in AttemptIds, abort_before_physical_start(id)
    PROVE  WorkStep
<1> USE Zenon
<1> DEFINE out == CloseOne(id, "FAILED", "RELEASED", "QUEUED", "Ignore", "NONE")
<1>1. validate_authority(id) /\ FailureConsequence(id, out)
    BY DEF abort_before_physical_start
<1>2. DOMAIN out = {id} /\ out[id].task = "QUEUED"
    BY ZenonT(60) DEF CloseOne
<1> HIDE DEF out
<1> QED
    BY <1>1, <1>2, AuthorityIsActive, FailureWork

\* expire_leases sweeps attempts in authority.
LEMMA ExpirableActive ==
    ASSUME IInv, NEW recovering, NEW id \in Expirable(recovering)
    PROVE  id \in AttemptIds /\ Active(id)
BY Zenon DEF Expirable, IInv, Agreement

\* expire_leases.
LEMMA ExpireWork ==
    ASSUME IInv, WorkInv, NEW recovering \in BOOLEAN, expire_leases(recovering)
    PROVE  WorkStep
<1> USE Zenon
<1> DEFINE out == [id \in Expirable(recovering) |-> Expired(id)]
           suspended == {BatchOf[id[1]] : id \in {i \in DOMAIN out : out[i].task = "SUSPENDED"}}
<1>1. tasks' = ClosedTasks(out) /\ recompute_batch(suspended) /\ results' = results
    BY DEF expire_leases
<1>2. \A id \in DOMAIN out : /\ id \in AttemptIds /\ Active(id)
                             /\ out[id].task \in {"RETRY_WAIT", "SUSPENDED"}
    BY ExpirableActive DEF Expired
<1> HIDE DEF out
<1>3. /\ \A i \in DOMAIN out : \/ out[i].task \in {"RETRY_WAIT", "QUEUED"}
                               \/ out[i].task = "SUSPENDED" /\ BatchOf[i[1]] \in suspended
      /\ \A b \in suspended : \E i \in DOMAIN out : b = BatchOf[i[1]]
    BY <1>2
<1>4. Ending(out)
    BY <1>2 DEF Ending
<1> HIDE DEF suspended
<1> QED
    BY <1>1, <1>3, <1>4, ClosedWork

\* A task that is moved is in a batch that was submitted.
LEMMA OwnBatch ==
    ASSUME IInv, WorkInv, NEW t \in Tasks, tasks[t].state # "NONE"
    PROVE  \A b \in {BatchOf[t]} : b \in Batches /\ batches[b] # "NONE"
BY KernelAssumption DEF WorkInv, Submitted

\* ack_success: the task is COMPLETED with its result and what waited for it last is
\* released, or the writer may still run and the task is SUSPENDED.
LEMMA AckWork ==
    ASSUME IInv, WorkInv, NEW id \in AttemptIds, NEW q, NEW reusable,
           ack_success(id, q, reusable)
    PROVE  WorkStep
<1> USE Zenon
<1> DEFINE t == id[1]
           unsafe == ~writer_is_safe_to_replace(t \in Writers, HasExecution(id), q,
                                                executions[id].isolated)
           presence == incarnation_presence("SUCCEEDED", TRUE, q /\ ~unsafe,
                                            reusable /\ ~unsafe)
           bad == CloseOne(id, "FAILED", "REVOKED", "SUSPENDED", presence, WriterUnknown)
           good == CloseOne(id, "SUCCEEDED", "RELEASED", "COMPLETED", presence, "NONE")
<1>1. /\ validate_authority(id)
      /\ recompute_batch({BatchOf[t]})
      /\ \/ tasks' = ClosedTasks(bad) /\ results' = results
         \/ /\ tasks' = release_dependencies(BatchOf[t], ClosedTasks(good))
            /\ results' = [results EXCEPT ![t] = "AVAILABLE"]
    BY ZenonT(60) DEF ack_success
<1>2. /\ DOMAIN bad = {id} /\ bad[id].task = "SUSPENDED"
      /\ DOMAIN good = {id} /\ good[id].task = "COMPLETED"
    BY ZenonT(60) DEF CloseOne
<1> HIDE DEF bad, good, unsafe, presence
<1>3. Active(id)
    BY <1>1, AuthorityIsActive
<1>4. Ending(bad) /\ Ending(good)
    BY <1>2, <1>3 DEF Ending
<1>5. CASE tasks' = ClosedTasks(bad) /\ results' = results
    BY <1>1, <1>2, <1>4, <1>5, ClosedWork
<1>6. CASE /\ tasks' = release_dependencies(BatchOf[t], ClosedTasks(good))
           /\ results' = [results EXCEPT ![t] = "AVAILABLE"]
    <2> DEFINE ts == ClosedTasks(good)
    <2>1. /\ t \in Tasks /\ id = <<t, id[2]>> /\ Current(t) = id
          /\ tasks[t].state \in {"LEASED", "RUNNING"}
        BY <1>3, ActiveIsCurrent, AttemptIdFacts DEF Current
    <2>2. ts[t].state = "COMPLETED" /\ ts[t].epoch = tasks[t].epoch
        BY SMT, <1>2, <1>4, <2>1, ClosedTasksMove
    <2>3. \A u \in Tasks \ {t} : ts[u] = tasks[u]
        <3> SUFFICES ASSUME NEW u \in Tasks \ {t} PROVE ts[u] = tasks[u]
            OBVIOUS
        <3>1. Current(u)[1] = u
            BY DEF Current
        <3>2. Current(u) \notin DOMAIN good
            BY <3>1, <1>2
        <3> QED
            BY SMT, <3>2, <1>4, ClosedTasksMove
    <2>4. \A u \in Tasks : ts[u] \in TaskRow
        BY <1>4, ClosedRows
    <2> HIDE DEF ts
    <2>5. \A u \in Tasks :
              /\ tasks'[u].epoch = ts[u].epoch
              /\ \/ tasks'[u].state = ts[u].state
                 \/ /\ u \in TasksOf(BatchOf[t]) /\ ts[u].state = "BLOCKED"
                    /\ tasks'[u].state = "QUEUED"
                    /\ \A d \in DependsOn[u] : ts[d].state = "COMPLETED"
        BY <1>6, <2>4 DEF release_dependencies, ts, TaskRow
    <2>6. \A u \in Tasks : results'[u] = IF u = t THEN "AVAILABLE" ELSE results[u]
        BY <1>6 DEF IInv, TypeOK
    <2>7. Moved(t, {BatchOf[t]})
        BY <2>1, <2>2, <2>5, <2>6 DEF Moved, Started
    <2>8. ASSUME NEW u \in Tasks \ {t} PROVE Moved(u, {BatchOf[t]})
        <3>1. CASE tasks'[u].state = ts[u].state
            BY <3>1, <2>3, <2>5, <2>6 DEF Moved
        <3>2. CASE tasks'[u].state # ts[u].state
            <4>1. /\ BatchOf[u] = BatchOf[t] /\ tasks[u].state = "BLOCKED"
                  /\ tasks'[u].state = "QUEUED" /\ tasks'[u].epoch = tasks[u].epoch
                  /\ \A d \in DependsOn[u] : ts[d].state = "COMPLETED"
                BY <3>2, <2>3, <2>5 DEF TasksOf
            <4>2. \A d \in DependsOn[u] : tasks'[d].state = "COMPLETED"
                BY SMT, <4>1, <2>5, KernelAssumption
            <4>3. results'[u] = "NONE"
                BY <4>1, <2>6 DEF WorkInv, Reported
            <4> QED
                BY <4>1, <4>2, <4>3 DEF Moved
        <3> QED
            BY <3>1, <3>2
    <2>9. \A b \in {BatchOf[t]} : b \in Batches /\ batches[b] # "NONE"
        BY <2>1, OwnBatch
    <2> QED
        BY <1>1, <2>7, <2>8, <2>9, RecomputedWork
<1> QED
    BY <1>1, <1>5, <1>6

\* A transaction that moves one task and recomputes its batch.
LEMMA OneTaskWork ==
    ASSUME IInv, WorkInv, NEW t \in Tasks, NEW row,
           tasks' = [tasks EXCEPT ![t] = row], row.epoch = tasks[t].epoch,
           \/ row.state = tasks[t].state
           \/ /\ tasks[t].state \notin {"COMPLETED", "CANCELLED"}
              /\ row.state = "CANCELLED" \/ (row.state = "QUEUED" /\ tasks[t].state \in Started),
           tasks[t].state # "NONE",
           recompute_batch({BatchOf[t]}), results' = results
    PROVE  WorkStep
<1> USE Zenon
<1>1. tasks'[t] = row /\ \A u \in Tasks \ {t} : tasks'[u] = tasks[u]
    BY DEF IInv, TypeOK
<1>2. \A u \in Tasks \ {t} : Moved(u, {BatchOf[t]})
    BY <1>1 DEF Moved
<1>3. Moved(t, {BatchOf[t]})
    <2>1. tasks'[t].epoch = tasks[t].epoch /\ results'[t] = results[t]
        BY <1>1
    <2>2. CASE row.state = tasks[t].state
        BY <1>1, <2>1, <2>2 DEF Moved
    <2>3. CASE /\ tasks[t].state \notin {"NONE", "COMPLETED", "CANCELLED"}
               /\ row.state = "CANCELLED" \/ (row.state = "QUEUED" /\ tasks[t].state \in Started)
        <3>1. results'[t] = "NONE" /\ tasks'[t].state \in {"CANCELLED", "QUEUED"}
            BY <1>1, <2>1, <2>3 DEF WorkInv, Reported
        <3>2. tasks'[t].state \in Started => tasks[t].state \in Started
            BY <1>1, <2>3 DEF Started
        <3> QED
            BY <2>1, <2>3, <3>1, <3>2 DEF Moved
    <2> QED
        BY <2>2, <2>3
<1>4. \A b \in {BatchOf[t]} : b \in Batches /\ batches[b] # "NONE"
    BY OwnBatch
<1> QED
    BY <1>2, <1>3, <1>4, RecomputedWork

\* cancel_task.
LEMMA CancelTaskWork ==
    ASSUME IInv, WorkInv, NEW t \in Tasks, NEW q, cancel_task(t, q)
    PROVE  WorkStep
<1> USE Zenon
<1> DEFINE row == [tasks[t] EXCEPT !.state = "CANCELLED", !.current = 0]
<1>1. /\ tasks[t].state \notin {"NONE", "COMPLETED", "CANCELLED"}
      /\ tasks' = [tasks EXCEPT ![t].state = "CANCELLED", ![t].current = 0]
      /\ recompute_batch({BatchOf[t]}) /\ results' = results
    BY DEF cancel_task
<1>2. tasks' = [tasks EXCEPT ![t] = row]
    BY <1>1 DEF IInv, TypeOK
<1>3. row.state = "CANCELLED" /\ row.epoch = tasks[t].epoch
    BY ZenonT(60) DEF IInv, TypeOK, TaskRow
<1> HIDE DEF row
<1> QED
    BY <1>1, <1>2, <1>3, OneTaskWork

\* cancel_batch: what has not ended is CANCELLED, and so is the batch.
LEMMA CancelBatchWork ==
    ASSUME IInv, WorkInv, NEW b \in Batches, cancel_batch(b)
    PROVE  WorkStep
<1> USE Zenon
<1>1. /\ batches[b] \in {"ACTIVE", "SUSPENDED"}
      /\ tasks' = [t \in Tasks |->
                      IF t \in TasksOf(b) /\ tasks[t].state \notin {"COMPLETED", "CANCELLED"}
                      THEN [tasks[t] EXCEPT !.state = "CANCELLED", !.current = 0]
                      ELSE tasks[t]]
      /\ batches' = [batches EXCEPT ![b] = "CANCELLED"]
      /\ results' = results /\ wakeups' = wakeups
    BY DEF cancel_batch
<1>a. batches[b] \in {"ACTIVE", "SUSPENDED"} /\ results' = results /\ wakeups' = wakeups
    BY <1>1
<1>2. \A t \in Tasks : \/ tasks'[t] = tasks[t]
                       \/ /\ t \in TasksOf(b)
                          /\ tasks[t].state \notin {"COMPLETED", "CANCELLED"}
                          /\ tasks'[t].state = "CANCELLED" /\ tasks'[t].epoch = tasks[t].epoch
    BY <1>1 DEF IInv, TypeOK, TaskRow
<1>3. \A c \in Batches : batches'[c] = IF c = b THEN "CANCELLED" ELSE batches[c]
    BY <1>1 DEF IInv, TypeOK
<1>4. ASSUME NEW t \in Tasks PROVE TaskStep(t)
    <2>1. tasks[t].epoch \in Nat /\ BatchOf[t] \in Batches
        BY SMT, KernelAssumption DEF IInv, TypeOK, TaskRow
    <2>2. tasks'[t].state = "NONE" <=> batches'[BatchOf[t]] = "NONE"
        BY SMT, <1>a, <1>2, <1>3, <2>1 DEF WorkInv, Submitted, TasksOf
    <2>3. CASE tasks'[t] = tasks[t]
        BY SMT, <2>1, <2>2, <2>3, <1>a DEF TaskStep, WorkInv, Reported
    <2>4. CASE tasks'[t] # tasks[t]
        BY SMT, <2>1, <2>2, <2>4, <1>a, <1>2 DEF TaskStep, WorkInv, Reported, Started
    <2> QED
        BY <2>3, <2>4
<1>5. ASSUME NEW c \in Batches
      PROVE  /\ batches'[c] \notin {"NONE", "CANCELLED"} =>
                   batches'[c] = batch_next_state(c, tasks')
             /\ wakeups'[c] = IF batches'[c] = "COMPLETED" THEN 1 ELSE 0
    <2>1. CASE c = b
        BY <2>1, <1>a, <1>3 DEF WorkInv, BatchUpToDate
    <2>2. CASE c # b
        <3>1. \A t \in TasksOf(c) : SameClass(t)
            BY <2>2, <1>2 DEF TasksOf, SameClass
        <3>2. batch_next_state(c, tasks') = batch_next_state(c, tasks)
            BY <3>1, SameBatchState
        <3> QED
            BY <2>2, <3>2, <1>a, <1>3 DEF WorkInv, BatchUpToDate
    <2> QED
        BY <2>1, <2>2
<1>6. BatchUpToDate'
    BY <1>5 DEF BatchUpToDate
<1> QED
    BY <1>4, <1>6 DEF WorkStep

\* resolve_retry, release_cancelled_writer and resolve_cancel_task: Root's answers.
LEMMA ResolveWork ==
    ASSUME IInv, WorkInv, NEW t \in Tasks, NEW q,
           resolve_retry(t, q) \/ release_cancelled_writer(t, q) \/ resolve_cancel_task(t)
    PROVE  WorkStep
<1> USE Zenon
<1>1. CASE resolve_retry(t, q)
    <2> DEFINE row == [tasks[t] EXCEPT !.state = "QUEUED"]
    <2>1. /\ tasks[t].state = "SUSPENDED" /\ tasks' = [tasks EXCEPT ![t].state = "QUEUED"]
          /\ recompute_batch({BatchOf[t]}) /\ results' = results
        BY <1>1 DEF resolve_retry
    <2>2. tasks' = [tasks EXCEPT ![t] = row]
        BY <2>1 DEF IInv, TypeOK
    <2>3. row.state = "QUEUED" /\ row.epoch = tasks[t].epoch
        BY ZenonT(60) DEF IInv, TypeOK, TaskRow
    <2> HIDE DEF row
    <2> QED
        BY <2>1, <2>2, <2>3, OneTaskWork DEF Started
<1>2. CASE release_cancelled_writer(t, q)
    <2>1. /\ tasks[t].state = "CANCELLED" /\ tasks' = tasks
          /\ recompute_batch({BatchOf[t]}) /\ results' = results
        BY <1>2 DEF release_cancelled_writer
    <2>2. tasks' = [tasks EXCEPT ![t] = tasks[t]]
        BY <2>1 DEF IInv, TypeOK
    <2> QED
        BY <2>1, <2>2, OneTaskWork
<1>3. CASE resolve_cancel_task(t)
    <2> DEFINE row == [tasks[t] EXCEPT !.state = "CANCELLED"]
    <2>1. /\ escalations[t].state = "OPEN" /\ tasks' = [tasks EXCEPT ![t].state = "CANCELLED"]
          /\ recompute_batch({BatchOf[t]}) /\ results' = results
        BY <1>3 DEF resolve_cancel_task
    <2>2. tasks' = [tasks EXCEPT ![t] = row]
        BY <2>1 DEF IInv, TypeOK
    <2>3. row.state = "CANCELLED" /\ row.epoch = tasks[t].epoch
        BY ZenonT(60) DEF IInv, TypeOK, TaskRow
    <2>4. tasks[t].state \in {"SUSPENDED", "CANCELLED"}
        BY <2>1 DEF IInv, SuspendedAsksRoot
    <2> HIDE DEF row
    <2> QED
        BY <2>1, <2>2, <2>3, <2>4, OneTaskWork
<1> QED
    BY <1>1, <1>2, <1>3

\* Every step of the kernel keeps to the order of the work.
LEMMA NextWork == IInv /\ WorkInv /\ [Next]_vars => WorkStep
<1> USE Zenon
<1> SUFFICES ASSUME IInv, WorkInv, [Next]_vars PROVE WorkStep
    OBVIOUS
<1>1. CASE Host
    <2>1. ASSUME NEW b \in Batches, submit_batch(b) PROVE WorkStep
        BY <2>1, SubmitWork
    <2>2. ASSUME NEW n \in 0..MaxCapacity, resize_partition(n) PROVE WorkStep
        BY <2>2, NoWork DEF resize_partition
    <2>3. ASSUME reconcile_pool PROVE WorkStep
        <3>1. UNCHANGED <<tasks, batches, results, wakeups>>
            BY <2>3 DEF reconcile_pool
        <3> QED
            BY <3>1, NoWork
    <2>4. ASSUME NEW t \in Tasks, NEW q \in BOOLEAN, cancel_task(t, q) PROVE WorkStep
        BY <2>4, CancelTaskWork
    <2>5. ASSUME NEW b \in Batches, cancel_batch(b) PROVE WorkStep
        BY <2>5, CancelBatchWork
    <2>6. ASSUME NEW t \in Tasks, ack_result(t) PROVE WorkStep
        BY <2>6, AckResultWork
    <2> QED
        BY <1>1, <2>1, <2>2, <2>3, <2>4, <2>5, <2>6 DEF Host
<1>2. CASE Root
    BY <1>2, ResolveWork DEF Root
<1>3. CASE Dispatch
    <2>1. ASSUME ensure_task_consumers PROVE WorkStep
        BY <2>1, NoWork DEF ensure_task_consumers
    <2>2. ASSUME NEW g \in Agents, revive_agent(g) PROVE WorkStep
        BY <2>2, NoWork DEF revive_agent
    <2>3. ASSUME NEW t \in Tasks, NEW g \in Agents, Claimable(t), claim_selected(t, g)
          PROVE  WorkStep
        BY <2>3, ClaimWork
    <2>4. ASSUME NEW id \in AttemptIds, NEW isolated \in BOOLEAN, create_execution(id, isolated)
          PROVE  WorkStep
        <3>1. UNCHANGED <<tasks, batches, results, wakeups>>
            BY <2>4 DEF create_execution
        <3> QED
            BY <3>1, NoWork
    <2>5. ASSUME NEW id \in AttemptIds, confirm_running_and_renew(id) PROVE WorkStep
        BY <2>5, ConfirmWork
    <2>6. ASSUME NEW id \in AttemptIds, abort_before_physical_start(id) PROVE WorkStep
        BY <2>6, AbortWork
    <2>7. ASSUME NEW id \in AttemptIds, report_configuration_unavailable(id) PROVE WorkStep
        BY <2>7, NackWork DEF report_configuration_unavailable
    <2> QED
        BY <1>3, <2>1, <2>2, <2>3, <2>4, <2>5, <2>6, <2>7 DEF Dispatch, claim_next_available
<1>4. CASE Observe
    <2>1. ASSUME NEW id \in AttemptIds, NEW state, NEW classed, NEW terminal, NEW q,
                 record_physical_outcome(id, state, classed, terminal, q)
          PROVE  WorkStep
        <3>1. UNCHANGED <<tasks, batches, results, wakeups>>
            BY <2>1 DEF record_physical_outcome
        <3> QED
            BY <3>1, NoWork
    <2>2. ASSUME NEW id \in AttemptIds, NEW state, NEW classed, NEW q,
                 record_pending_physical_terminal(id, state, classed, q)
          PROVE  WorkStep
        BY <2>2, NoWork DEF record_pending_physical_terminal
    <2>3. ASSUME NEW id \in AttemptIds, NEW q, NEW reusable, ack_success(id, q, reusable)
          PROVE  WorkStep
        BY <2>3, AckWork
    <2>4. ASSUME NEW id \in AttemptIds, NEW class, NEW terminal, NEW q, NEW reusable,
                 nack(id, class, terminal, q, reusable)
          PROVE  WorkStep
        BY <2>4, NackWork
    <2>5. ASSUME NEW id \in AttemptIds, NEW class, nack_preserving_physical_history(id, class)
          PROVE  WorkStep
        BY <2>5, NackPreservingWork
    <2> QED
        BY <1>4, <2>1, <2>2, <2>3, <2>4, <2>5 DEF Observe
<1>5. CASE Clock
    <2>1. ASSUME NEW recovering \in BOOLEAN, expire_leases(recovering) PROVE WorkStep
        BY <2>1, ExpireWork
    <2>2. ASSUME NEW due \in SUBSET Tasks, promote_retry_wait(due) PROVE WorkStep
        BY <2>2, PromoteWork
    <2>3. ASSUME NEW id \in AttemptIds, LeaseElapses(id) PROVE WorkStep
        BY <2>3, NoWork DEF LeaseElapses
    <2> QED
        BY <1>5, <2>1, <2>2, <2>3 DEF Clock
<1>6. CASE Physical
    <2>1. ASSUME NEW id \in AttemptIds, NEW to, PhysicalStep(id, to) PROVE WorkStep
        BY <2>1, NoWork DEF PhysicalStep
    <2> QED
        BY <1>6, <2>1 DEF Physical
<1>7. CASE UNCHANGED vars
    BY <1>7, NoWork DEF vars
<1> QED
    BY <1>1, <1>2, <1>3, <1>4, <1>5, <1>6, <1>7 DEF Next

\* The order of the work holds in every reachable state.
THEOREM WorkInvariant == Spec => []WorkInv
<1>1. IInv /\ IInv' /\ WorkInv /\ [Next]_vars => WorkInv'
    BY Zenon, NextWork, WorkKept
<1> QED
    BY <1>1, WorkInit, Invariant, PTL DEF Spec

\* Dependencies order the work: claim_next_available takes a task only after every
\* task it depends on is COMPLETED with its result, whatever is retried, cancelled or
\* resumed by Root meanwhile, and no other task has a result.
THEOREM DependenciesComeFirst == Spec => []DependenciesFirst
<1>1. WorkInv => DependenciesFirst
    BY Zenon DEF WorkInv, Ordered, Reported, DependenciesFirst
<1> QED
    BY <1>1, WorkInvariant, PTL

\* Every path that moves a task recomputes its batch, and the completion of a batch is
\* announced exactly once (recompute_batch and its BATCH_RESULTS_READY row).
THEOREM BatchesAreUpToDate == Spec => []BatchUpToDate
<1>1. WorkInv => BatchUpToDate
    BY Zenon DEF WorkInv
<1> QED
    BY <1>1, WorkInvariant, PTL

----------------------------------------------------------------------------
(* Hosts: the inductive invariant *)

Running(id) == executions[id].state \in LiveExecution
HostLive(id) == incarnations[IncarnationOf(id)] \in LiveIncarnation

\* The obligation of a writer is about the execution of the task's newest attempt.
Charged(t) ==
    /\ t \in Writers /\ Latest(t) \in AttemptIds
    /\ HasExecution(Latest(t))
    /\ attempts[Latest(t)].agent = escalations[t].agent

\* The converse of HostExclusive is what confirm_running_and_renew relies on when it
\* writes WARM: the host of a live execution in authority has not been fenced.
Housed(id) ==
    /\ HasExecution(id) => id[2] <= tasks[id[1]].epoch /\ IncarnationOf(id) \in IncarnationIds
    /\ Active(id) /\ ~HasExecution(id) => attempts[id].incarnation = 0
    /\ Running(id) => (Active(id) <=> HostLive(id))

Hosted == (\A id \in AttemptIds : Housed(id)) /\ (\A t \in Tasks : Obligation(t) => Charged(t))

\* What a step may do to an attempt and its host, claims and new executions aside.
AttemptStep(id) ==
    /\ attempts'[id].agent = attempts[id].agent
    /\ attempts'[id].incarnation = attempts[id].incarnation
    /\ HasExecution(id)' => HasExecution(id)
    /\ Running(id)' => Running(id)
    /\ Active(id)' => Active(id) /\ (HasExecution(id)' <=> HasExecution(id))
    /\ Active(id)' /\ Running(id)' /\ HostLive(id) => HostLive(id)'
    /\ Active(id) /\ ~Active(id)' /\ Running(id)' => ~HostLive(id)'

\* What any step may do to the incarnations: a fence is final.
FenceStep ==
    \A i \in IncarnationIds :
        incarnations[i] \in {"LOST", "TERMINATED"} => incarnations'[i] \in {"LOST", "TERMINATED"}

\* What any step may do to the obligation of a writer.
ObligationStep(t) ==
    Obligation(t) =>
        \/ escalations'[t] = escalations[t]
        \/ /\ escalations'[t].state = "RESOLVED"
           /\ executions'[Latest(t)].quiescent \/ executions[Latest(t)].isolated

\* An obligation after the step is an old one, or that of an execution that ended now.
DutyStep(t) ==
    Obligation(t)' =>
        \/ /\ Obligation(t) /\ escalations'[t].agent = escalations[t].agent
           /\ HasExecution(Latest(t)) => HasExecution(Latest(t))'
        \/ /\ t \in Writers /\ Latest(t) \in AttemptIds
           /\ HasExecution(Latest(t))'
           /\ attempts[Latest(t)].agent = escalations'[t].agent

HostStep ==
    /\ \A id \in AttemptIds : AttemptStep(id)
    /\ \A i \in IncarnationIds :
          incarnations'[i] \in LiveIncarnation => incarnations[i] \in LiveIncarnation
    /\ \A t \in Tasks : tasks'[t].epoch = tasks[t].epoch
    /\ \A t \in Tasks : DutyStep(t)

\* Initially there is neither an execution nor an escalation.
LEMMA HostedInit == Init => Hosted
BY DEF Init, Hosted, Housed, HasExecution, NoExecution, Active, Obligation, Running,
   LiveExecution

\* A live execution is an execution.
LEMMA RunningExists == ASSUME NEW id, Running(id) PROVE HasExecution(id)
BY Zenon DEF Running, HasExecution, LiveExecution

\* Steps of this kind keep the hosts in order.
LEMMA HostKept ==
    ASSUME IInv, Hosted, HostStep
    PROVE  Hosted'
<1> USE Zenon
<1>1. ASSUME NEW id \in AttemptIds PROVE Housed(id)'
    <2>1. /\ AttemptStep(id) /\ Housed(id) /\ id[1] \in Tasks
          /\ tasks'[id[1]].epoch = tasks[id[1]].epoch
        BY AttemptIdFacts DEF HostStep, Hosted
    <2>2. IncarnationOf(id)' = IncarnationOf(id)
        BY <2>1 DEF AttemptStep, IncarnationOf
    <2>3. /\ HasExecution(id)' =>
                id[2] <= tasks'[id[1]].epoch /\ IncarnationOf(id)' \in IncarnationIds
          /\ Active(id)' /\ ~HasExecution(id)' => attempts'[id].incarnation = 0
        BY <2>1, <2>2 DEF AttemptStep, Housed
    <2>4. ASSUME Running(id)' PROVE Active(id)' <=> HostLive(id)'
        <3>1. Running(id) /\ HasExecution(id) /\ (Active(id) <=> HostLive(id))
            BY <2>1, <2>4, RunningExists DEF AttemptStep, Housed
        <3>2. HostLive(id)' => HostLive(id)
            BY <2>1, <2>2, <3>1 DEF HostStep, HostLive, Housed
        <3> QED
            BY <2>1, <2>4, <3>1, <3>2 DEF AttemptStep
    <2> QED
        BY <2>3, <2>4 DEF Housed
<1>2. ASSUME NEW t \in Tasks, Obligation(t)' PROVE Charged(t)'
    <2>1. Latest(t)' = Latest(t) /\ DutyStep(t)
        BY DEF HostStep, Latest
    <2>2. Latest(t) \in AttemptIds => attempts'[Latest(t)].agent = attempts[Latest(t)].agent
        BY DEF HostStep, AttemptStep
    <2>3. Obligation(t) => Charged(t)
        BY DEF Hosted
    <2>4. /\ t \in Writers /\ Latest(t) \in AttemptIds /\ HasExecution(Latest(t))'
          /\ attempts[Latest(t)].agent = escalations'[t].agent
        BY <1>2, <2>1, <2>3 DEF DutyStep, Charged
    <2> QED
        BY <2>1, <2>2, <2>4 DEF Charged, HasExecution
<1> QED
    BY <1>1, <1>2 DEF Hosted

----------------------------------------------------------------------------
(* Hosts: steps that end no attempt *)

\* The attempts that a step does not touch, nor their executions and hosts.
LEMMA SameAttempt ==
    ASSUME NEW id \in AttemptIds, attempts'[id] = attempts[id], executions'[id] = executions[id],
           IncarnationOf(id) \in IncarnationIds /\ Active(id) /\ Running(id) =>
              incarnations'[IncarnationOf(id)] = incarnations[IncarnationOf(id)],
           Hosted
    PROVE  AttemptStep(id)
<1> USE Zenon
<1>1. IncarnationOf(id)' = IncarnationOf(id)
    BY DEF IncarnationOf
<1>2. (HasExecution(id)' <=> HasExecution(id)) /\ (Running(id)' <=> Running(id))
      /\ (Active(id)' <=> Active(id))
    BY DEF HasExecution, Running, Active
<1>3. Running(id) => IncarnationOf(id) \in IncarnationIds
    BY RunningExists DEF Hosted, Housed
<1>4. Active(id)' /\ Running(id)' /\ HostLive(id) => HostLive(id)'
    BY <1>1, <1>2, <1>3 DEF HostLive
<1> QED
    BY <1>2, <1>4 DEF AttemptStep

\* Steps that leave the escalations alone, or close one that is no writer's.
LEMMA SameDuties ==
    ASSUME NEW t \in Tasks,
           escalations'[t] = escalations[t] \/ (~Obligation(t) /\ ~Obligation(t)'),
           Obligation(t) /\ HasExecution(Latest(t)) => HasExecution(Latest(t))'
    PROVE  DutyStep(t) /\ ObligationStep(t)
BY Zenon DEF DutyStep, ObligationStep, Obligation

\* Steps that leave attempts, executions and incarnations alone.
LEMMA NoHost ==
    ASSUME Hosted, UNCHANGED <<attempts, executions, incarnations>>,
           \A t \in Tasks : tasks'[t].epoch = tasks[t].epoch,
           \A t \in Tasks : escalations'[t] = escalations[t] \/ (~Obligation(t) /\ ~Obligation(t)')
    PROVE  HostStep /\ FenceStep /\ \A t \in Tasks : ObligationStep(t)
<1> USE Zenon
<1>1. \A id \in AttemptIds : AttemptStep(id)
    BY SameAttempt
<1>2. ASSUME NEW t \in Tasks PROVE DutyStep(t) /\ ObligationStep(t)
    <2>1. HasExecution(Latest(t)) => HasExecution(Latest(t))'
        <3>1. Latest(t)' = Latest(t)
            BY DEF Latest
        <3> QED
            BY <3>1 DEF HasExecution
    <2> QED
        BY <2>1, SameDuties
<1> QED
    BY <1>1, <1>2 DEF HostStep, FenceStep

\* reconcile_pool retires agents that work on nothing, and their incarnations.
LEMMA ReconcileHosts ==
    ASSUME IInv, Hosted, reconcile_pool
    PROVE  HostStep /\ FenceStep /\ \A t \in Tasks : ObligationStep(t)
<1> USE Zenon
<1>1. PICK excess \in SUBSET Members :
          /\ incarnations' = RetireIncarnations({g \in excess : excess_disposition(g)},
                                                incarnations)
          /\ UNCHANGED <<tasks, attempts, executions, escalations>>
    BY DEF reconcile_pool
<1>2. \A i \in IncarnationIds :
          incarnations'[i] = IF /\ i[1] \in {g \in excess : excess_disposition(g)}
                                /\ incarnations[i] \in LiveIncarnation
                             THEN "LOST" ELSE incarnations[i]
    BY <1>1 DEF RetireIncarnations
<1>3. ASSUME NEW id \in AttemptIds, Active(id)
      PROVE  attempts[id].agent \notin {g \in excess : excess_disposition(g)}
    BY <1>3, AttemptIdFacts, KernelAssumption DEF IInv, Binding, excess_disposition
<1>4. ASSUME NEW id \in AttemptIds PROVE AttemptStep(id)
    <2>1. IncarnationOf(id) \in IncarnationIds /\ Active(id) =>
              incarnations'[IncarnationOf(id)] = incarnations[IncarnationOf(id)]
        BY <1>2, <1>3 DEF IncarnationOf
    <2> QED
        BY <1>1, <2>1, SameAttempt
<1>5. ASSUME NEW t \in Tasks PROVE DutyStep(t) /\ ObligationStep(t)
    <2>1. HasExecution(Latest(t))' <=> HasExecution(Latest(t))
        BY <1>1 DEF HasExecution, Latest
    <2> QED
        BY <1>1, <2>1, SameDuties
<1>6. FenceStep
    BY <1>2 DEF FenceStep, LiveIncarnation
<1>7. \A i \in IncarnationIds :
          incarnations'[i] \in LiveIncarnation => incarnations[i] \in LiveIncarnation
    BY <1>2 DEF LiveIncarnation
<1> QED
    BY <1>1, <1>4, <1>5, <1>6, <1>7 DEF HostStep

\* The execution of one attempt is written and perhaps the state of its host, and no
\* other live execution has that host.
LEMMA OneExecution ==
    ASSUME IInv, Hosted, NEW id \in AttemptIds,
           HasExecution(id), HasExecution(id)', Running(id)' => Running(id),
           UNCHANGED <<attempts, escalations>>,
           \A t \in Tasks : tasks'[t].epoch = tasks[t].epoch,
           \A i \in AttemptIds \ {id} : executions'[i] = executions[i],
           \A i \in IncarnationIds \ {IncarnationOf(id)} : incarnations'[i] = incarnations[i],
           LET i == IncarnationOf(id)
           IN  \/ incarnations'[i] = incarnations[i]
               \/ /\ \A o \in AttemptIds \ {id} : IncarnationOf(o) = i => ~Running(o)
                  /\ incarnations'[i] \in LiveIncarnation => incarnations[i] \in LiveIncarnation
                  /\ incarnations[i] \in {"LOST", "TERMINATED"} =>
                        incarnations'[i] \in {"LOST", "TERMINATED"}
                  /\ incarnations[i] \in LiveIncarnation /\ Running(id)' =>
                        incarnations'[i] \in LiveIncarnation
    PROVE  HostStep /\ FenceStep /\ \A t \in Tasks : ObligationStep(t)
<1> USE Zenon
<1>1. IncarnationOf(id) \in IncarnationIds /\ IncarnationOf(id)' = IncarnationOf(id)
    BY DEF Hosted, Housed, IncarnationOf
<1>2. AttemptStep(id)
    <2>1. Active(id)' <=> Active(id)
        BY DEF Active
    <2>2. Running(id)' /\ HostLive(id) => HostLive(id)'
        BY <1>1 DEF HostLive
    <2> QED
        BY <2>1, <2>2 DEF AttemptStep
<1>3. ASSUME NEW o \in AttemptIds \ {id} PROVE AttemptStep(o)
    <2>1. IncarnationOf(o) \in IncarnationIds /\ Running(o) =>
              incarnations'[IncarnationOf(o)] = incarnations[IncarnationOf(o)]
        BY <1>1
    <2> QED
        BY <2>1, SameAttempt
<1>4. ASSUME NEW t \in Tasks PROVE DutyStep(t) /\ ObligationStep(t)
    <2>1. Latest(t)' = Latest(t) /\ (Obligation(t) => Latest(t) \in AttemptIds)
        BY DEF Latest, Hosted, Charged
    <2>2. Obligation(t) /\ HasExecution(Latest(t)) => HasExecution(Latest(t))'
        <3>1. CASE Latest(t) = id
            BY <2>1, <3>1 DEF HasExecution
        <3>2. CASE Latest(t) # id
            BY <2>1, <3>2 DEF HasExecution
        <3> QED
            BY <3>1, <3>2
    <2> QED
        BY <2>2, SameDuties
<1>5. FenceStep
    BY <1>1 DEF FenceStep, LiveIncarnation
<1>6. \A i \in IncarnationIds :
          incarnations'[i] \in LiveIncarnation => incarnations[i] \in LiveIncarnation
    BY <1>1
<1> QED
    BY <1>2, <1>3, <1>4, <1>5, <1>6 DEF HostStep

\* confirm_running_and_renew: the attempt has the authority and its execution is live,
\* so its host is, and the execution is the only live one there.
LEMMA ConfirmHosts ==
    ASSUME IInv, Hosted, NEW id \in AttemptIds, confirm_running_and_renew(id)
    PROVE  HostStep /\ FenceStep /\ \A t \in Tasks : ObligationStep(t)
<1> USE Zenon
<1>1. /\ validate_authority(id) /\ Running(id)
      /\ executions' = [executions EXCEPT ![id].state = "RUNNING"]
      /\ tasks' = [tasks EXCEPT ![id[1]].state = "RUNNING"]
      /\ incarnations' = [incarnations EXCEPT ![IncarnationOf(id)] = "WARM"]
      /\ UNCHANGED <<attempts, escalations>>
    BY DEF confirm_running_and_renew, Running
<1>2. Active(id) /\ HasExecution(id) /\ HostLive(id) /\ IncarnationOf(id) \in IncarnationIds
    BY <1>1, AuthorityIsActive, RunningExists DEF Hosted, Housed
<1>3. ASSUME NEW o \in AttemptIds \ {id}, IncarnationOf(o) = IncarnationOf(id), Running(o)
      PROVE  FALSE
    <2>1. HostLive(o)
        BY <1>2, <1>3 DEF HostLive
    <2>2. Active(o) /\ attempts[o].agent = attempts[id].agent
        BY <1>3, <2>1 DEF Hosted, Housed, IncarnationOf
    <2> QED
        BY <1>2, <1>3, <2>2, OneAttemptPerAgent
<1>4. executions'[id].state = "RUNNING"
    BY <1>1 DEF IInv, TypeOK, ExecutionRow
<1>5. HasExecution(id)'
    BY <1>4 DEF HasExecution
<1>6. \A i \in AttemptIds \ {id} : executions'[i] = executions[i]
    BY <1>1 DEF IInv, TypeOK
<1>7. /\ \A i \in IncarnationIds \ {IncarnationOf(id)} : incarnations'[i] = incarnations[i]
      /\ incarnations'[IncarnationOf(id)] \in LiveIncarnation
    BY <1>1, <1>2 DEF IInv, TypeOK, LiveIncarnation
<1>8. \A t \in Tasks : tasks'[t].epoch = tasks[t].epoch
    BY <1>1 DEF IInv, TypeOK, TaskRow
<1>9. /\ incarnations[IncarnationOf(id)] \in LiveIncarnation
      /\ incarnations[IncarnationOf(id)] \notin {"LOST", "TERMINATED"}
    BY <1>2 DEF HostLive, LiveIncarnation
<1> QED
    BY <1>1, <1>2, <1>3, <1>5, <1>6, <1>7, <1>8, <1>9, OneExecution

\* An execution that is over does not come back to life.
LEMMA NoResurrection ==
    ASSUME NEW from, NEW to \in LiveExecution, physical_transition_allowed(from, to)
    PROVE  from \in LiveExecution
BY Zenon DEF physical_transition_allowed, LiveExecution, EndedExecution

\* record_physical_outcome: the host moves with the execution only if the execution is
\* the live one there, and is kept live only under a live execution.
LEMMA RecordOutcomeHosts ==
    ASSUME IInv, Hosted, NEW id \in AttemptIds, NEW state \in ExecutionState, NEW classed,
           NEW terminal, NEW q, record_physical_outcome(id, state, classed, terminal, q)
    PROVE  HostStep /\ FenceStep /\ \A t \in Tasks : ObligationStep(t)
<1> USE Zenon
<1> DEFINE unresolved == state \in {"UNKNOWN", "LOST"}
           row == [executions[id] EXCEPT
                      !.state = state,
                      !.terminal = ~unresolved /\ (@ \/ terminal),
                      !.quiescent = ~unresolved /\ (@ \/ q),
                      !.classed = @ \/ classed]
           action == incarnation_presence(state, terminal, q, FALSE)
           i == IncarnationOf(id)
<1>1. /\ HasExecution(id) /\ physical_transition_allowed(executions[id].state, state)
      /\ executions' = [executions EXCEPT ![id] = row]
      /\ incarnations' = IF execution_still_attached(id)
                         THEN [incarnations EXCEPT ![i] = PresenceState(action, @)]
                         ELSE incarnations
      /\ UNCHANGED <<tasks, attempts, escalations>>
    BY DEF record_physical_outcome
<1>2. row.state = state
    BY ZenonT(60) DEF IInv, TypeOK, ExecutionRow
<1>3. action \in {"PromoteWarm", "Ignore"} \/ state \notin LiveExecution
    BY DEF incarnation_presence, LiveExecution
<1> HIDE DEF row, action
<1>4. executions'[id].state = state /\ \A o \in AttemptIds \ {id} : executions'[o] = executions[o]
    BY <1>1, <1>2 DEF IInv, TypeOK
<1>5. HasExecution(id)' /\ (Running(id)' => Running(id)) /\ (Running(id)' <=> state \in LiveExecution)
    BY <1>1, <1>4, NoResurrection DEF HasExecution, Running, ExecutionState
<1>6. i \in IncarnationIds
    BY <1>1 DEF Hosted, Housed
<1> HIDE DEF i
<1>7. \A j \in IncarnationIds \ {i} : incarnations'[j] = incarnations[j]
    BY <1>1 DEF IInv, TypeOK
<1>8. \/ incarnations'[i] = incarnations[i]
      \/ /\ execution_still_attached(id)
         /\ incarnations'[i] = PresenceState(action, incarnations[i])
    BY <1>1, <1>6 DEF IInv, TypeOK
<1>9. CASE incarnations'[i] = incarnations[i]
    BY <1>1, <1>4, <1>5, <1>7, <1>9, OneExecution DEF i
<1>10. CASE /\ execution_still_attached(id) /\ incarnations'[i] # incarnations[i]
            /\ incarnations'[i] = PresenceState(action, incarnations[i])
    <2>1. \A o \in AttemptIds \ {id} : IncarnationOf(o) = i => ~Running(o)
        BY <1>10 DEF execution_still_attached, Running, i
    <2>3. /\ incarnations'[i] \in LiveIncarnation => incarnations[i] \in LiveIncarnation
          /\ incarnations[i] \in {"LOST", "TERMINATED"} =>
                incarnations'[i] \in {"LOST", "TERMINATED"}
        BY <1>10 DEF PresenceState, LiveIncarnation
    <2>4. incarnations[i] \in LiveIncarnation /\ Running(id)' => incarnations'[i] \in LiveIncarnation
        BY <1>3, <1>5, <1>10 DEF PresenceState, LiveIncarnation
    <2> QED
        BY <1>1, <1>4, <1>5, <1>7, <2>1, <2>3, <2>4, OneExecution DEF i
<1> QED
    BY <1>8, <1>9, <1>10

\* record_pending_physical_terminal: the execution is over, the host untouched.
LEMMA RecordPendingHosts ==
    ASSUME IInv, Hosted, NEW id \in AttemptIds, NEW state, NEW classed, NEW q,
           record_pending_physical_terminal(id, state, classed, q)
    PROVE  HostStep /\ FenceStep /\ \A t \in Tasks : ObligationStep(t)
<1> USE Zenon
<1>1. /\ HasExecution(id) /\ state \in EndedExecution
      /\ executions' = [executions EXCEPT ![id].state = state, ![id].terminal = TRUE,
                                          ![id].quiescent = q, ![id].classed = classed]
      /\ UNCHANGED <<tasks, attempts, incarnations, escalations>>
    BY DEF record_pending_physical_terminal
<1>2. executions'[id].state = state
    <2> DEFINE row == [executions[id] EXCEPT !.state = state, !.terminal = TRUE,
                                             !.quiescent = q, !.classed = classed]
    <2>1. row.state = state
        BY ZenonT(60) DEF IInv, TypeOK, ExecutionRow
    <2>2. executions' = [executions EXCEPT ![id] = row]
        BY <1>1
    <2> HIDE DEF row
    <2> QED
        BY <2>1, <2>2 DEF IInv, TypeOK
<1>3. \A o \in AttemptIds \ {id} : executions'[o] = executions[o]
    BY <1>1 DEF IInv, TypeOK
<1>4. HasExecution(id)' /\ ~Running(id)'
    BY <1>1, <1>2 DEF HasExecution, Running, EndedExecution, LiveExecution
<1> QED
    BY <1>1, <1>3, <1>4, OneExecution

\* claim_selected: the new attempt has no execution yet, and no host.
LEMMA ClaimHosts ==
    ASSUME IInv, Hosted, NEW t \in Tasks, NEW g \in Agents, Claimable(t), claim_selected(t, g)
    PROVE  Hosted' /\ FenceStep /\ \A u \in Tasks : ObligationStep(u)
<1> USE Zenon
<1>n. PICK new : new = <<t, tasks[t].epoch + 1>>
    OBVIOUS
<1>0. /\ new \in AttemptIds /\ new[1] = t /\ new[2] = tasks[t].epoch + 1
      /\ \A u \in Tasks : tasks[u].epoch \in Nat
      /\ \A i \in AttemptIds : i[2] \in Nat
    BY SMT, <1>n, KernelAssumption, AttemptIdFacts
    DEF IInv, TypeOK, TaskRow, claim_selected, AttemptIds
<1>1. /\ attempts' = [attempts EXCEPT ![new] =
                         [state |-> "ACTIVE", agent |-> g, incarnation |-> 0]]
      /\ tasks' = [tasks EXCEPT ![t] = [state |-> "LEASED", current |-> tasks[t].epoch + 1,
                                        epoch |-> tasks[t].epoch + 1]]
      /\ UNCHANGED <<executions, incarnations, escalations>>
      /\ tasks[t].state = "QUEUED"
    BY <1>n DEF claim_selected, Claimable
<1>2. /\ \A i \in AttemptIds \ {new} : attempts'[i] = attempts[i]
      /\ attempts'[new] = [state |-> "ACTIVE", agent |-> g, incarnation |-> 0]
      /\ tasks'[t].epoch = tasks[t].epoch + 1
      /\ \A u \in Tasks \ {t} : tasks'[u] = tasks[u]
    BY <1>0, <1>1 DEF IInv, TypeOK
<1>3. ~HasExecution(new)
    BY SMTT(30), <1>0 DEF Hosted, Housed
<1>4. Housed(new)'
    <2>1. ~HasExecution(new)' /\ ~Running(new)'
        BY <1>1, <1>3, RunningExists DEF HasExecution, Running
    <2> QED
        BY SMTT(30), <1>2, <2>1 DEF Housed
<1>5. ASSUME NEW i \in AttemptIds \ {new} PROVE Housed(i)'
    <2>1. IncarnationOf(i)' = IncarnationOf(i) /\ (Active(i)' <=> Active(i))
        BY <1>2 DEF IncarnationOf, Active
    <2>2. (HasExecution(i)' <=> HasExecution(i)) /\ (Running(i)' <=> Running(i))
        BY <1>1 DEF HasExecution, Running
    <2>3. HostLive(i)' <=> HostLive(i)
        BY <1>1, <2>1 DEF HostLive
    <2>4. tasks[i[1]].epoch <= tasks'[i[1]].epoch /\ tasks'[i[1]].epoch \in Nat
        BY SMT, <1>0, <1>2, AttemptIdFacts
    <2>5. Housed(i)
        BY DEF Hosted
    <2>6. HasExecution(i) => i[2] <= tasks'[i[1]].epoch
        BY SMT, <1>0, <2>4, <2>5, AttemptIdFacts DEF Housed
    <2> QED
        BY <1>2, <2>1, <2>2, <2>3, <2>5, <2>6 DEF Housed
<1>6. ASSUME NEW u \in Tasks, Obligation(u)' PROVE Charged(u)'
    <2>1. Obligation(u) /\ Charged(u)
        BY <1>1, <1>6 DEF Obligation, Hosted
    <2>2. u # t
        BY <1>1, <2>1 DEF IInv, SuspendedAsksRoot, Obligation
    <2>3. Latest(u)' = Latest(u) /\ Latest(u) # new
        BY SMTT(30), <1>0, <1>2, <2>2 DEF Latest
    <2> QED
        BY <1>1, <1>2, <2>1, <2>3 DEF Charged, HasExecution
<1>7. FenceStep /\ \A u \in Tasks : ObligationStep(u)
    BY <1>1 DEF FenceStep, ObligationStep
<1> QED
    BY <1>4, <1>5, <1>6, <1>7 DEF Hosted

\* create_execution: the host is live and its only live execution is the new one; a
\* host that is fenced is never taken.
LEMMA CreateHosts ==
    ASSUME IInv, Hosted, NEW id \in AttemptIds, NEW isolated, create_execution(id, isolated)
    PROVE  Hosted' /\ FenceStep /\ \A t \in Tasks : ObligationStep(t)
<1> USE Zenon
<1> DEFINE g == attempts[id].agent
<1>1. PICK n \in 1..MaxGenerations :
          /\ IF attempts[id].incarnation # 0 THEN n = attempts[id].incarnation
             ELSE ensure_incarnation(g, n)
          /\ \A other \in AttemptIds : ~(/\ IncarnationOf(other) = <<g, n>>
                                         /\ executions[other].state \in LiveExecution)
          /\ ~HasExecution(id)
          /\ incarnations' = [incarnations EXCEPT ![<<g, n>>] =
                                 IF @ = "NONE" THEN "STARTING" ELSE @]
          /\ attempts' = [attempts EXCEPT ![id].incarnation = n]
    BY DEF create_execution
<1>2. /\ validate_authority(id)
      /\ executions' = [executions EXCEPT ![id] =
                           [state |-> "STARTING", isolated |-> isolated,
                            terminal |-> FALSE, quiescent |-> FALSE, classed |-> FALSE]]
      /\ UNCHANGED <<tasks, escalations>>
    BY ZenonT(60) DEF create_execution
<1>3. Active(id) /\ g \in Agents
    BY <1>2, AuthorityIsActive DEF IInv, Binding
<1>4. ensure_incarnation(g, n)
    BY <1>1, <1>3 DEF Hosted, Housed
<1> HIDE DEF g
<1>5. <<g, n>> \in IncarnationIds
    BY <1>3 DEF IncarnationIds
<1>6. incarnations[<<g, n>>] \in LiveIncarnation \cup {"NONE"}
    <2>1. CASE LiveGenerations(g) # {}
        BY <2>1, <1>4 DEF ensure_incarnation, LiveGenerations
    <2>2. CASE LiveGenerations(g) = {}
        <3>1. incarnations[<<g, n>>] # "NONE" <=> n < n
            BY <2>2, <1>4 DEF ensure_incarnation
        <3>2. n \in Int /\ ~(n < n)
            BY SMT, KernelAssumption
        <3> QED
            BY <3>1, <3>2
    <2> QED
        BY <2>1, <2>2
<1>7. /\ incarnations'[<<g, n>>] \in LiveIncarnation
      /\ \A i \in IncarnationIds \ {<<g, n>>} : incarnations'[i] = incarnations[i]
    BY <1>1, <1>5, <1>6 DEF IInv, TypeOK, LiveIncarnation
<1>8. /\ attempts'[id].state = attempts[id].state /\ attempts'[id].agent = g
      /\ attempts'[id].incarnation = n
      /\ \A i \in AttemptIds \ {id} : attempts'[i] = attempts[i]
    BY <1>1 DEF IInv, TypeOK, AttemptRow, g
<1>9. /\ executions'[id].state = "STARTING"
      /\ \A i \in AttemptIds \ {id} : executions'[i] = executions[i]
    BY <1>2 DEF IInv, TypeOK
<1>10. Housed(id)'
    <2>1. IncarnationOf(id)' = <<g, n>>
        BY <1>8 DEF IncarnationOf
    <2>2. Active(id)' /\ HostLive(id)' /\ HasExecution(id)'
        BY <1>3, <1>7, <1>8, <1>9, <2>1 DEF Active, HostLive, HasExecution
    <2>3. id[2] <= tasks'[id[1]].epoch
        BY SMT, <1>2, AttemptIdFacts, KernelAssumption DEF validate_authority
    <2> QED
        BY <1>5, <2>1, <2>2, <2>3 DEF Housed
<1>11. ASSUME NEW i \in AttemptIds \ {id} PROVE Housed(i)'
    <2>1. IncarnationOf(i)' = IncarnationOf(i) /\ (Active(i)' <=> Active(i))
        BY <1>8 DEF IncarnationOf, Active
    <2>2. (HasExecution(i)' <=> HasExecution(i)) /\ (Running(i)' <=> Running(i))
        BY <1>9 DEF HasExecution, Running
    <2>3. Running(i) => IncarnationOf(i) # <<g, n>> /\ IncarnationOf(i) \in IncarnationIds
        BY <1>1, RunningExists DEF Running, Hosted, Housed, g
    <2>4. Running(i) => (HostLive(i)' <=> HostLive(i))
        BY <1>7, <2>1, <2>3 DEF HostLive
    <2>5. Housed(i)
        BY DEF Hosted
    <2> QED
        BY <1>2, <1>8, <2>1, <2>2, <2>4, <2>5 DEF Housed
<1>12. ASSUME NEW t \in Tasks, Obligation(t)' PROVE Charged(t)'
    <2>1. Obligation(t) /\ Charged(t)
        BY <1>2, <1>12 DEF Obligation, Hosted
    <2>2. Latest(t)' = Latest(t) /\ Latest(t) # id
        BY <1>1, <1>2, <2>1 DEF Latest, Charged
    <2> QED
        BY <1>2, <1>8, <1>9, <2>1, <2>2 DEF Charged, HasExecution
<1>13. FenceStep
    BY <1>6, <1>7 DEF FenceStep, LiveIncarnation
<1>14. \A t \in Tasks : ObligationStep(t)
    BY <1>2 DEF ObligationStep
<1> QED
    BY <1>10, <1>11, <1>12, <1>13, <1>14 DEF Hosted

----------------------------------------------------------------------------
(* Hosts: the ends of attempts *)

\* What every caller of CloseAttempts provides for the hosts: an execution that stays
\* live leaves a fenced host behind, and a writer that may run had an execution.
Parting(out) ==
    \A id \in DOMAIN out :
        /\ id \in AttemptIds /\ Active(id)
        /\ out[id].attempt # "ACTIVE"
        /\ out[id].cause = WriterUnknown => id[1] \in Writers /\ HasExecution(id)'
        /\ HasExecution(id)' => HasExecution(id)
        /\ Running(id)' => Running(id) /\ out[id].presence \in {"FenceLost", "FenceTerminated"}

\* Closing attempts keeps the hosts in order, whichever operation does it.  Attempts
\* that end together have different agents, so each host hears one thing only.
LEMMA ClosingHosts ==
    ASSUME IInv, Hosted, NEW out, NEW open, CloseAttempts(out, open), Parting(out),
           \A t \in Tasks : open[t] = escalations[t] \/ (~Obligation(t) /\ open[t].state # "OPEN"),
           \A id \in AttemptIds \ DOMAIN out : executions'[id] = executions[id],
           \A t \in Tasks : tasks'[t].epoch = tasks[t].epoch
    PROVE  HostStep /\ FenceStep /\ \A t \in Tasks : ObligationStep(t)
<1> USE Zenon
<1> DEFINE released == {attempts[id].agent : id \in
                            {i \in DOMAIN out : out[i].cause # WriterUnknown}}
           Observed(i, action) ==
               \E id \in DOMAIN out : IncarnationOf(id) = i /\ out[id].presence = action
           fenced == [i \in IncarnationIds |->
                         IF Observed(i, "PromoteWarm")
                         THEN PresenceState("PromoteWarm", incarnations[i])
                         ELSE IF Observed(i, "FenceTerminated")
                         THEN PresenceState("FenceTerminated", incarnations[i])
                         ELSE IF Observed(i, "FenceLost")
                         THEN PresenceState("FenceLost", incarnations[i])
                         ELSE incarnations[i]]
           retired == {g \in released : Retires(g)}
<1>1. /\ attempts' = [id \in AttemptIds |->
                         IF id \in DOMAIN out
                         THEN [attempts[id] EXCEPT !.state = out[id].attempt]
                         ELSE attempts[id]]
      /\ incarnations' = RetireIncarnations(retired, fenced)
      /\ escalations' = [t \in Tasks |->
                            IF Escalated(out, t) /\ open[t].state # "OPEN"
                            THEN [state |-> "OPEN", cause |-> out[Current(t)].cause,
                                  agent |-> attempts[Current(t)].agent]
                            ELSE open[t]]
    BY DEF CloseAttempts
<1>2. \A g \in retired : \E id \in DOMAIN out : attempts[id].agent = g
    OBVIOUS
<1>3. \A i \in IncarnationIds :
          incarnations'[i] = IF i[1] \in retired /\ fenced[i] \in LiveIncarnation
                             THEN "LOST" ELSE fenced[i]
    BY <1>1 DEF RetireIncarnations
<1> HIDE DEF retired
<1>4. ASSUME NEW i \in IncarnationIds
      PROVE  /\ fenced[i] \in LiveIncarnation => incarnations[i] \in LiveIncarnation
             /\ incarnations[i] \in {"LOST", "TERMINATED"} => fenced[i] \in {"LOST", "TERMINATED"}
             /\ \/ fenced[i] = incarnations[i]
                \/ \E id \in DOMAIN out : IncarnationOf(id) = i
             /\ ~Observed(i, "PromoteWarm")
                /\ (Observed(i, "FenceTerminated") \/ Observed(i, "FenceLost"))
                => fenced[i] \notin LiveIncarnation
    BY DEF PresenceState, LiveIncarnation
<1> HIDE DEF fenced
<1>5. FenceStep
    BY <1>3, <1>4 DEF FenceStep
<1>6. \A i \in IncarnationIds :
          incarnations'[i] \in LiveIncarnation => incarnations[i] \in LiveIncarnation
    BY <1>3, <1>4 DEF LiveIncarnation
<1>7. ASSUME NEW id \in AttemptIds \ DOMAIN out PROVE AttemptStep(id)
    <2>1. attempts'[id] = attempts[id]
        BY <1>1
    <2>2. ASSUME IncarnationOf(id) \in IncarnationIds, Active(id)
          PROVE  incarnations'[IncarnationOf(id)] = incarnations[IncarnationOf(id)]
        <3>1. \A o \in DOMAIN out : attempts[o].agent # attempts[id].agent
            BY <2>2, OneAttemptPerAgent DEF Parting
        <3>2. attempts[id].agent \notin retired
            BY <1>2, <3>1
        <3>3. \A o \in DOMAIN out : IncarnationOf(o) # IncarnationOf(id)
            BY <3>1 DEF IncarnationOf
        <3>4. fenced[IncarnationOf(id)] = incarnations[IncarnationOf(id)]
            BY <1>4, <2>2, <3>3
        <3>5. IncarnationOf(id)[1] = attempts[id].agent
            BY DEF IncarnationOf
        <3> QED
            BY <1>3, <2>2, <3>2, <3>4, <3>5
    <2> QED
        BY <2>1, <2>2, SameAttempt
<1>8. ASSUME NEW id \in DOMAIN out PROVE AttemptStep(id)
    <2>1. /\ id \in AttemptIds /\ Active(id) /\ out[id].attempt # "ACTIVE"
          /\ HasExecution(id)' => HasExecution(id)
          /\ Running(id)' => Running(id) /\ out[id].presence \in {"FenceLost", "FenceTerminated"}
        BY DEF Parting
    <2>2. attempts'[id] = [attempts[id] EXCEPT !.state = out[id].attempt]
        BY <1>1, <2>1
    <2>3. /\ attempts'[id].state = out[id].attempt
          /\ attempts'[id].agent = attempts[id].agent
          /\ attempts'[id].incarnation = attempts[id].incarnation
        BY SMT, <2>1, <2>2 DEF IInv, TypeOK, AttemptRow
    <2>4. ~Active(id)' /\ IncarnationOf(id)' = IncarnationOf(id)
        BY <2>1, <2>3 DEF Active, IncarnationOf
    <2>5. ASSUME Running(id)' PROVE ~HostLive(id)'
        <3>1. IncarnationOf(id) \in IncarnationIds
            BY <2>1, <2>5, RunningExists DEF Hosted, Housed
        <3>2. ASSUME NEW o \in DOMAIN out, IncarnationOf(o) = IncarnationOf(id) PROVE o = id
            BY <2>1, <3>2, OneAttemptPerAgent DEF Parting, IncarnationOf
        <3>3. /\ ~Observed(IncarnationOf(id), "PromoteWarm")
              /\ \/ Observed(IncarnationOf(id), "FenceTerminated")
                 \/ Observed(IncarnationOf(id), "FenceLost")
            BY <2>1, <2>5, <3>2
        <3>4. fenced[IncarnationOf(id)] \notin LiveIncarnation
            BY <1>4, <3>1, <3>3
        <3> QED
            BY <1>3, <2>4, <3>1, <3>4 DEF HostLive, LiveIncarnation
    <2> QED
        BY <2>1, <2>3, <2>4, <2>5 DEF AttemptStep
<1>9. ASSUME NEW t \in Tasks PROVE ObligationStep(t)
    <2> SUFFICES ASSUME Obligation(t) PROVE escalations'[t] = escalations[t]
        BY DEF ObligationStep
    <2>1. open[t] = escalations[t] /\ open[t].state = "OPEN"
        BY DEF Obligation
    <2> QED
        BY <1>1, <2>1
<1>10. ASSUME NEW t \in Tasks PROVE DutyStep(t)
    <2> SUFFICES ASSUME Obligation(t)' PROVE DutyStep(t)
        BY DEF DutyStep
    <2>0. Latest(t)' = Latest(t)
        BY DEF Latest
    <2>1. CASE Escalated(out, t) /\ open[t].state # "OPEN"
        <3>1. PICK id \in DOMAIN out : id = Current(t)
            BY <2>1 DEF Escalated
        <3>2. escalations'[t].cause = out[id].cause /\ escalations'[t].agent = attempts[id].agent
            BY <1>1, <2>1, <3>1
        <3>3. id \in AttemptIds /\ Active(id) /\ id[1] \in Writers /\ HasExecution(id)'
            BY <3>2 DEF Parting, Obligation
        <3>4. id[1] = t /\ id[2] = tasks[t].current
            BY <3>1 DEF Current
        <3>5. Latest(t) = id
            BY ZenonT(60), <3>3, <3>4, AttemptIdFacts DEF IInv, Agreement, Latest
        <3> QED
            BY <2>0, <3>2, <3>3, <3>4, <3>5 DEF DutyStep, HasExecution
    <2>2. CASE ~(Escalated(out, t) /\ open[t].state # "OPEN")
        <3>1. escalations'[t] = open[t]
            BY <1>1, <2>2
        <3>2. open[t] = escalations[t] /\ Obligation(t)
            BY <3>1 DEF Obligation
        <3>3. Latest(t) \in AttemptIds /\ Charged(t)
            BY <3>2 DEF Hosted, Charged
        <3>4. Latest(t) \notin DOMAIN out
            <4> SUFFICES ASSUME Latest(t) \in DOMAIN out PROVE FALSE
                OBVIOUS
            <4>1. Active(Latest(t)) /\ Latest(t)[1] = t
                BY DEF Parting, Latest
            <4> QED
                BY <3>2, <3>3, <4>1, ActiveIsCurrent DEF Obligation
        <3>5. executions'[Latest(t)] = executions[Latest(t)]
            BY <3>3, <3>4
        <3> QED
            BY <2>0, <3>1, <3>2, <3>5 DEF DutyStep, HasExecution
    <2> QED
        BY <2>1, <2>2
<1> QED
    BY <1>5, <1>6, <1>7, <1>8, <1>9, <1>10 DEF HostStep

\* A failed attempt leaves its host as ClosingHosts asks.
LEMMA FailureHosts ==
    ASSUME IInv, Hosted, NEW id \in AttemptIds, NEW out, FailureConsequence(id, out),
           Ending(out), Parting(out), DOMAIN out = {id},
           \A i \in AttemptIds \ {id} : executions'[i] = executions[i]
    PROVE  HostStep /\ FenceStep /\ \A t \in Tasks : ObligationStep(t)
<1> USE Zenon
<1>1. CloseAttempts(out, escalations) /\ tasks' = ClosedTasks(out)
    BY DEF FailureConsequence
<1>2. \A t \in Tasks : tasks'[t].epoch = tasks[t].epoch
    BY <1>1, ClosedTasksMove
<1> QED
    BY <1>1, <1>2, ClosingHosts

\* An observation of a failure that proves no end fences the host.
LEMMA UnprovenFences ==
    ASSUME NEW class, NEW durable, NEW reusable
    PROVE  incarnation_presence(PresenceOfFailure(class), FALSE, durable, reusable) = "FenceLost"
BY Zenon DEF incarnation_presence, PresenceOfFailure

\* nack, and report_configuration_unavailable: an execution that is not proved to have
\* ended is UNKNOWN, and its host is fenced.
LEMMA NackHosts ==
    ASSUME IInv, Hosted, NEW id \in AttemptIds, NEW class \in FailureClass,
           NEW terminal \in BOOLEAN, NEW q, NEW reusable,
           nack(id, class, terminal, q, reusable)
    PROVE  HostStep /\ FenceStep /\ \A t \in Tasks : ObligationStep(t)
<1> USE Zenon
<1> DEFINE durable == durable_quiescence(terminal, q)
           presence == incarnation_presence(PresenceOfFailure(class), terminal, durable,
                                            reusable)
           out == Failed(id, class, durable, presence)
           row == [executions[id] EXCEPT !.state = IF terminal THEN "FAILED" ELSE "UNKNOWN",
                                         !.terminal = terminal, !.quiescent = durable,
                                         !.classed = TRUE]
<1>1. validate_authority(id) /\ FailureConsequence(id, out)
    BY DEF nack
<1>2. executions' = IF executions[id].state \in LiveExecution
                    THEN [executions EXCEPT ![id] = row] ELSE executions
    BY DEF nack
<1>3. row.state = IF terminal THEN "FAILED" ELSE "UNKNOWN"
    BY ZenonT(60) DEF IInv, TypeOK, ExecutionRow
<1>4. terminal = FALSE => presence = "FenceLost"
    BY ZenonT(60), UnprovenFences
<1>f. FailureOutcome(out, id, class, durable, presence)
    BY FailedRow
<1>6. class # WriterUnknown
    BY KernelAssumption
<1> HIDE DEF row, durable, presence, out
<1>5. /\ DOMAIN out = {id} /\ out[id].task \in {"RETRY_WAIT", "SUSPENDED"}
      /\ out[id].attempt = "FAILED" /\ out[id].presence = presence
      /\ out[id].cause = WriterUnknown => \/ class = WriterUnknown
                                          \/ id[1] \in Writers /\ HasExecution(id)
    BY <1>f DEF FailureOutcome, SafeToReplace,
       writer_is_safe_to_replace
<1>7. /\ \A i \in AttemptIds \ {id} : executions'[i] = executions[i]
      /\ executions'[id] = IF executions[id].state \in LiveExecution THEN row
                           ELSE executions[id]
    BY <1>2 DEF IInv, TypeOK
<1>8. /\ HasExecution(id)' <=> HasExecution(id)
      /\ Running(id)' => Running(id) /\ terminal = FALSE
    BY <1>3, <1>7 DEF HasExecution, Running, LiveExecution
<1>9. Active(id)
    BY <1>1, AuthorityIsActive
<1>10. Ending(out) /\ Parting(out)
    BY <1>4, <1>5, <1>6, <1>8, <1>9 DEF Ending, Parting
<1> QED
    BY <1>1, <1>5, <1>7, <1>10, FailureHosts

\* nack_preserving_physical_history: the row is kept and the host fenced.
LEMMA NackPreservingHosts ==
    ASSUME IInv, Hosted, NEW id \in AttemptIds, NEW class \in FailureClass,
           nack_preserving_physical_history(id, class)
    PROVE  HostStep /\ FenceStep /\ \A t \in Tasks : ObligationStep(t)
<1> USE Zenon
<1> DEFINE presence == incarnation_presence(PresenceOfFailure(class), FALSE, FALSE, FALSE)
           out == Failed(id, class, FALSE, presence)
<1>1. validate_authority(id) /\ FailureConsequence(id, out) /\ executions' = executions
    BY ZenonT(60) DEF nack_preserving_physical_history
<1>2. presence = "FenceLost"
    BY UnprovenFences
<1>f. FailureOutcome(out, id, class, FALSE, presence)
    BY FailedRow
<1>4. class # WriterUnknown
    BY KernelAssumption
<1> HIDE DEF presence, out
<1>3. /\ DOMAIN out = {id} /\ out[id].task \in {"RETRY_WAIT", "SUSPENDED"}
      /\ out[id].attempt = "FAILED" /\ out[id].presence = presence
      /\ out[id].cause = WriterUnknown => \/ class = WriterUnknown
                                          \/ id[1] \in Writers /\ HasExecution(id)
    BY <1>f DEF FailureOutcome, SafeToReplace,
       writer_is_safe_to_replace
<1>5. (HasExecution(id)' <=> HasExecution(id)) /\ (Running(id)' <=> Running(id))
    BY <1>1 DEF HasExecution, Running
<1>6. Active(id)
    BY <1>1, AuthorityIsActive
<1>7. Ending(out) /\ Parting(out)
    BY <1>2, <1>3, <1>4, <1>5, <1>6 DEF Ending, Parting
<1> QED
    BY <1>1, <1>3, <1>7, FailureHosts

\* abort_before_physical_start: the execution is gone, and the host stays in service.
LEMMA AbortHosts ==
    ASSUME IInv, Hosted, NEW id \in AttemptIds, abort_before_physical_start(id)
    PROVE  HostStep /\ FenceStep /\ \A t \in Tasks : ObligationStep(t)
<1> USE Zenon
<1> DEFINE out == CloseOne(id, "FAILED", "RELEASED", "QUEUED", "Ignore", "NONE")
<1>1. /\ validate_authority(id) /\ FailureConsequence(id, out)
      /\ executions' = [executions EXCEPT ![id] = NoExecution]
    BY DEF abort_before_physical_start
<1>2. /\ DOMAIN out = {id} /\ out[id].task = "QUEUED" /\ out[id].attempt = "FAILED"
      /\ out[id].cause = "NONE"
    BY ZenonT(60) DEF CloseOne
<1> HIDE DEF out
<1>3. executions'[id] = NoExecution /\ \A i \in AttemptIds \ {id} : executions'[i] = executions[i]
    BY <1>1 DEF IInv, TypeOK
<1>4. ~HasExecution(id)' /\ ~Running(id)'
    BY SMTT(30), <1>3 DEF HasExecution, Running, NoExecution, LiveExecution
<1>5. Active(id) /\ WriterUnknown # "NONE"
    BY <1>1, AuthorityIsActive DEF WriterUnknown
<1>6. Ending(out) /\ Parting(out)
    BY <1>2, <1>4, <1>5 DEF Ending, Parting
<1> QED
    BY <1>1, <1>2, <1>3, <1>6, FailureHosts

\* ack_success: the execution is over.
LEMMA AckHosts ==
    ASSUME IInv, Hosted, NEW id \in AttemptIds, NEW q, NEW reusable,
           ack_success(id, q, reusable)
    PROVE  HostStep /\ FenceStep /\ \A t \in Tasks : ObligationStep(t)
<1> USE Zenon
<1> DEFINE t == id[1]
           unsafe == ~writer_is_safe_to_replace(t \in Writers, HasExecution(id), q,
                                                executions[id].isolated)
           presence == incarnation_presence("SUCCEEDED", TRUE, q /\ ~unsafe,
                                            reusable /\ ~unsafe)
           out == IF unsafe
                  THEN CloseOne(id, "FAILED", "REVOKED", "SUSPENDED", presence, WriterUnknown)
                  ELSE CloseOne(id, "SUCCEEDED", "RELEASED", "COMPLETED", presence, "NONE")
           row == [executions[id] EXCEPT !.state = "SUCCEEDED", !.terminal = TRUE,
                                         !.quiescent = q /\ ~unsafe]
<1>1. /\ validate_authority(id)
      /\ executions' = IF HasExecution(id) THEN [executions EXCEPT ![id] = row]
                       ELSE executions
      /\ CloseAttempts(out, escalations)
      /\ tasks' = IF unsafe THEN ClosedTasks(out)
                  ELSE release_dependencies(BatchOf[t], ClosedTasks(out))
    BY DEF ack_success
<1>2. row.state = "SUCCEEDED"
    BY ZenonT(60) DEF IInv, TypeOK, ExecutionRow
<1>3. unsafe => t \in Writers /\ HasExecution(id)
    BY DEF writer_is_safe_to_replace
<1> HIDE DEF row, presence, unsafe
<1>4. /\ DOMAIN out = {id}
      /\ out[id].attempt \in {"FAILED", "SUCCEEDED"}
      /\ out[id].task \in {"SUSPENDED", "COMPLETED"}
      /\ out[id].cause = IF unsafe THEN WriterUnknown ELSE "NONE"
    BY ZenonT(60) DEF CloseOne
<1> HIDE DEF out
<1>5. /\ executions'[id] = IF HasExecution(id) THEN row ELSE executions[id]
      /\ \A i \in AttemptIds \ {id} : executions'[i] = executions[i]
    BY <1>1 DEF IInv, TypeOK
<1>6. (HasExecution(id)' <=> HasExecution(id)) /\ ~Running(id)'
    BY <1>2, <1>5 DEF HasExecution, Running, LiveExecution
<1>7. Active(id) /\ WriterUnknown # "NONE"
    BY <1>1, AuthorityIsActive DEF WriterUnknown
<1>8. Ending(out) /\ Parting(out)
    BY <1>3, <1>4, <1>6, <1>7 DEF Ending, Parting
<1>9. \A u \in Tasks : tasks'[u].epoch = tasks[u].epoch
    <2>1. \A u \in Tasks : ClosedTasks(out)[u].epoch = tasks[u].epoch
        BY <1>8, ClosedTasksMove
    <2>2. CASE unsafe
        BY <1>1, <2>1, <2>2
    <2>3. CASE ~unsafe
        <3> DEFINE ts == ClosedTasks(out)
        <3>1. \A u \in Tasks : \/ tasks'[u] = ts[u]
                               \/ tasks'[u] = [ts[u] EXCEPT !.state = "QUEUED"]
            BY <1>1, <2>3 DEF release_dependencies
        <3>2. \A u \in Tasks : ts[u] \in TaskRow
            BY <1>8, ClosedRows
        <3> HIDE DEF ts
        <3>3. \A u \in Tasks : tasks'[u].epoch = ts[u].epoch
            BY ZenonT(60), <3>1, <3>2 DEF TaskRow
        <3> QED
            BY <2>1, <3>3 DEF ts
    <2> QED
        BY <2>2, <2>3
<1> QED
    BY <1>1, <1>4, <1>5, <1>8, <1>9, ClosingHosts

\* A cancelled attempt: its host is fenced, and only a writer's execution is charged.
LEMMA CancelledRow ==
    ASSUME NEW id, NEW confirmed
    PROVE  /\ Cancelled(id, confirmed).attempt = "CANCELLED"
           /\ Cancelled(id, confirmed).task = "CANCELLED"
           /\ Cancelled(id, confirmed).presence \in {"FenceLost", "FenceTerminated"}
           /\ Cancelled(id, confirmed).cause = WriterUnknown =>
                 id[1] \in Writers /\ HasExecution(id)
<1> USE Zenon
<1> DEFINE row == executions[id]
           quiet == Quiet(row, confirmed)
           safe == writer_is_safe_to_replace(id[1] \in Writers, HasExecution(id), quiet,
                                             row.isolated)
           gone == ~HasExecution(id) \/ quiet
           p == incarnation_presence(IF gone THEN "TERMINATED" ELSE "LOST", gone, gone, FALSE)
<1>1. /\ Cancelled(id, confirmed).attempt = "CANCELLED"
      /\ Cancelled(id, confirmed).task = "CANCELLED"
      /\ Cancelled(id, confirmed).presence = p
      /\ Cancelled(id, confirmed).cause = IF safe THEN "NONE" ELSE WriterUnknown
    BY DEF Cancelled
<1>2. WriterUnknown # "NONE"
    BY DEF WriterUnknown
<1>3. ~safe => id[1] \in Writers /\ HasExecution(id)
    BY DEF writer_is_safe_to_replace
<1> HIDE DEF safe
<1>4. p \in {"FenceLost", "FenceTerminated"}
    <2> HIDE DEF gone
    <2> QED
        BY DEF incarnation_presence
<1> HIDE DEF p
<1> QED
    BY <1>1, <1>2, <1>3, <1>4

\* cancel_task: the execution is closed with the attempt.
LEMMA CancelTaskHosts ==
    ASSUME IInv, Hosted, NEW t \in Tasks, NEW q, cancel_task(t, q)
    PROVE  HostStep /\ FenceStep /\ \A u \in Tasks : ObligationStep(u)
<1> USE Zenon
<1> DEFINE ending == IF tasks[t].current = 0 THEN {} ELSE {Current(t)}
           out == [i \in ending |-> Cancelled(i, q)]
           Row(i) == [executions[i] EXCEPT !.state = IF Quiet(executions[i], q)
                                                     THEN "TERMINATED" ELSE "LOST"]
<1>1. /\ executions' = [i \in AttemptIds |->
                           IF i \in ending /\ executions[i].state \in LiveExecution
                           THEN Row(i) ELSE executions[i]]
      /\ CloseAttempts(out, escalations)
      /\ tasks' = [tasks EXCEPT ![t].state = "CANCELLED", ![t].current = 0]
    BY ZenonT(60) DEF cancel_task
<1>2. \A i \in ending : i \in AttemptIds /\ Active(i)
    <2>1. \A i \in ending : tasks[t].current # 0 /\ i = Current(t)
        BY ZenonT(60)
    <2> HIDE DEF ending
    <2>2. \A i \in ending : i \in AttemptIds /\ i[1] = t /\ i[2] = tasks[t].current
        BY ZenonT(60), <2>1, CurrentFacts DEF IInv
    <2> QED
        BY ZenonT(60), <2>1, <2>2 DEF IInv, Agreement
<1>3. \A i \in AttemptIds : Row(i).state \in {"TERMINATED", "LOST"}
    BY DEF IInv, TypeOK, ExecutionRow
<1>4. DOMAIN out = ending /\ \A i \in ending : out[i] = Cancelled(i, q)
    BY ZenonT(60)
<1> HIDE DEF Row, out, ending
<1>5. \A i \in AttemptIds : \/ executions'[i] = executions[i]
                            \/ i \in ending /\ Running(i) /\ executions'[i] = Row(i)
    BY <1>1 DEF Running
<1>6. \A i \in AttemptIds : /\ HasExecution(i)' <=> HasExecution(i)
                            /\ Running(i)' => Running(i)
    BY <1>3, <1>5 DEF HasExecution, Running, LiveExecution
<1>7. Parting(out)
    <2> SUFFICES ASSUME NEW i \in DOMAIN out
                 PROVE  /\ i \in AttemptIds /\ Active(i)
                        /\ out[i].attempt # "ACTIVE"
                        /\ out[i].cause = WriterUnknown => i[1] \in Writers /\ HasExecution(i)'
                        /\ HasExecution(i)' => HasExecution(i)
                        /\ Running(i)' => /\ Running(i)
                                          /\ out[i].presence \in {"FenceLost", "FenceTerminated"}
        BY DEF Parting
    <2>1. /\ out[i].attempt = "CANCELLED"
          /\ out[i].presence \in {"FenceLost", "FenceTerminated"}
          /\ out[i].cause = WriterUnknown => i[1] \in Writers /\ HasExecution(i)
        BY <1>4, CancelledRow
    <2> QED
        BY <1>2, <1>4, <1>6, <2>1
<1>8. \A u \in Tasks : tasks'[u].epoch = tasks[u].epoch
    <2> DEFINE row == [tasks[t] EXCEPT !.state = "CANCELLED", !.current = 0]
    <2>1. row.epoch = tasks[t].epoch
        BY ZenonT(60) DEF IInv, TypeOK, TaskRow
    <2>2. tasks' = [tasks EXCEPT ![t] = row]
        BY <1>1
    <2> HIDE DEF row
    <2> QED
        BY <2>1, <2>2 DEF IInv, TypeOK
<1>9. \A i \in AttemptIds \ DOMAIN out : executions'[i] = executions[i]
    BY <1>4, <1>5
<1> QED
    BY <1>1, <1>7, <1>8, <1>9, ClosingHosts

\* cancel_batch: executions are left as they are, behind fenced hosts.
LEMMA CancelBatchHosts ==
    ASSUME IInv, Hosted, NEW b \in Batches, cancel_batch(b)
    PROVE  HostStep /\ FenceStep /\ \A u \in Tasks : ObligationStep(u)
<1> USE Zenon
<1> DEFINE ending == {i \in AttemptIds : i[1] \in TasksOf(b) /\ attempts[i].state = "ACTIVE"}
           out == [i \in ending |-> Cancelled(i, FALSE)]
           dropped == [t \in Tasks |->
                          IF /\ t \in TasksOf(b) /\ escalations[t].state = "OPEN"
                             /\ escalations[t].cause # WriterUnknown
                          THEN [escalations[t] EXCEPT !.state = "CANCELLED"]
                          ELSE escalations[t]]
<1>1. /\ CloseAttempts(out, dropped)
      /\ tasks' = [t \in Tasks |->
                      IF t \in TasksOf(b) /\ tasks[t].state \notin {"COMPLETED", "CANCELLED"}
                      THEN [tasks[t] EXCEPT !.state = "CANCELLED", !.current = 0]
                      ELSE tasks[t]]
      /\ executions' = executions
    BY ZenonT(60) DEF cancel_batch
<1>2. \A i \in ending : i \in AttemptIds /\ Active(i)
    BY ZenonT(60) DEF Active
<1>3. DOMAIN out = ending /\ \A i \in ending : out[i] = Cancelled(i, FALSE)
    BY ZenonT(60)
<1>4. \A t \in Tasks : dropped[t] = escalations[t] \/ (~Obligation(t) /\ dropped[t].state # "OPEN")
    <2> SUFFICES ASSUME NEW t \in Tasks, dropped[t] # escalations[t]
                 PROVE  ~Obligation(t) /\ dropped[t].state # "OPEN"
        OBVIOUS
    <2>1. /\ dropped[t] = [escalations[t] EXCEPT !.state = "CANCELLED"]
          /\ escalations[t].cause # WriterUnknown
        OBVIOUS
    <2>2. [escalations[t] EXCEPT !.state = "CANCELLED"].state = "CANCELLED"
        BY ZenonT(60) DEF IInv, TypeOK, EscalationRow
    <2> QED
        BY <2>1, <2>2 DEF Obligation
<1> HIDE DEF out, ending, dropped
<1>5. \A i \in AttemptIds : /\ HasExecution(i)' <=> HasExecution(i)
                            /\ Running(i)' <=> Running(i)
    BY <1>1 DEF HasExecution, Running
<1>6. Parting(out)
    <2> SUFFICES ASSUME NEW i \in DOMAIN out
                 PROVE  /\ i \in AttemptIds /\ Active(i)
                        /\ out[i].attempt # "ACTIVE"
                        /\ out[i].cause = WriterUnknown => i[1] \in Writers /\ HasExecution(i)'
                        /\ HasExecution(i)' => HasExecution(i)
                        /\ Running(i)' => /\ Running(i)
                                          /\ out[i].presence \in {"FenceLost", "FenceTerminated"}
        BY DEF Parting
    <2>1. /\ out[i].attempt = "CANCELLED"
          /\ out[i].presence \in {"FenceLost", "FenceTerminated"}
          /\ out[i].cause = WriterUnknown => i[1] \in Writers /\ HasExecution(i)
        BY <1>3, CancelledRow
    <2> QED
        BY <1>2, <1>3, <1>5, <2>1
<1>7. \A u \in Tasks : tasks'[u].epoch = tasks[u].epoch
    BY <1>1 DEF IInv, TypeOK, TaskRow
<1> QED
    BY <1>1, <1>4, <1>6, <1>7, ClosingHosts

\* expire_leases: an execution may run on after its lease, behind a fenced host.
LEMMA ExpireHosts ==
    ASSUME IInv, Hosted, NEW recovering \in BOOLEAN, expire_leases(recovering)
    PROVE  HostStep /\ FenceStep /\ \A u \in Tasks : ObligationStep(u)
<1> USE Zenon
<1> DEFINE out == [id \in Expirable(recovering) |-> Expired(id)]
<1>1. CloseAttempts(out, escalations) /\ tasks' = ClosedTasks(out) /\ executions' = executions
    BY ZenonT(60) DEF expire_leases
<1>2. ASSUME NEW i \in Expirable(recovering)
      PROVE  /\ Expired(i).attempt = "EXPIRED" /\ Expired(i).presence = "FenceLost"
             /\ Expired(i).task \in {"RETRY_WAIT", "SUSPENDED"}
             /\ Expired(i).cause = WriterUnknown => i[1] \in Writers /\ HasExecution(i)
    <2> DEFINE safe == writer_is_safe_to_replace(i[1] \in Writers, HasExecution(i),
                           durable_quiescence(executions[i].terminal, executions[i].quiescent),
                           executions[i].isolated)
               retry == retry_allowed(i[1], "EXECUTION_LOST", i[2]) /\ safe
    <2>1. /\ Expired(i).attempt = "EXPIRED" /\ Expired(i).presence = "FenceLost"
          /\ Expired(i).task = IF retry THEN "RETRY_WAIT" ELSE "SUSPENDED"
          /\ Expired(i).cause = IF retry THEN "NONE"
                                ELSE suspension_failure_class(safe, "EXECUTION_LOST")
        BY ZenonT(60) DEF Expired
    <2>2. ~safe => i[1] \in Writers /\ HasExecution(i)
        BY DEF writer_is_safe_to_replace
    <2>3. WriterUnknown # "NONE" /\ "EXECUTION_LOST" # WriterUnknown
        BY DEF WriterUnknown
    <2> HIDE DEF safe
    <2> QED
        BY ZenonT(60), <2>1, <2>2, <2>3 DEF suspension_failure_class
<1>3. DOMAIN out = Expirable(recovering) /\ \A i \in DOMAIN out : out[i] = Expired(i)
    BY ZenonT(60)
<1> HIDE DEF out
<1>4. \A i \in DOMAIN out : i \in AttemptIds /\ Active(i)
    BY <1>3, ExpirableActive
<1>5. \A i \in AttemptIds : /\ HasExecution(i)' <=> HasExecution(i)
                            /\ Running(i)' <=> Running(i)
    BY <1>1 DEF HasExecution, Running
<1>6. Ending(out) /\ Parting(out)
    BY <1>2, <1>3, <1>4, <1>5 DEF Ending, Parting
<1>7. \A u \in Tasks : tasks'[u].epoch = tasks[u].epoch
    BY <1>1, <1>6, ClosedTasksMove
<1> QED
    BY <1>1, <1>6, <1>7, ClosingHosts

\* FinalizeWriter closes the execution and the host of the obligation; no attempt in
\* authority has that host, because the agent was in quarantine.
LEMMA FinalizeHosts ==
    ASSUME IInv, Hosted, NEW t \in Tasks, NEW q \in BOOLEAN, Obligation(t),
           WriterSafe(t, q), FinalizeWriter(t, q), Resolve(t),
           attempts' = attempts, \A u \in Tasks : tasks'[u].epoch = tasks[u].epoch
    PROVE  HostStep /\ FenceStep /\ \A u \in Tasks : ObligationStep(u)
<1> USE Zenon
<1>1. PICK id \in AttemptIds : /\ id = Latest(t) /\ HasExecution(id)
                               /\ attempts[id].agent = escalations[t].agent
    BY DEF Hosted, Charged
<1>2. PICK g \in Agents : g = escalations[t].agent /\ agents[g].state = "SUSPENDED"
    BY DEF IInv, Quarantine
<1> DEFINE closed == [i \in IncarnationIds |->
                         IF i = IncarnationOf(id)
                         THEN FinalizedIncarnation(incarnations[i], q)
                         ELSE incarnations[i]]
           row == FinalizedExecution(executions[id], q)
<1>3. /\ executions' = [executions EXCEPT ![id] = row]
      /\ \/ incarnations' = closed
         \/ incarnations' = RetireIncarnations({g}, closed)
    BY ZenonT(60), <1>1, <1>2 DEF FinalizeWriter
<1>4. /\ row.state # "NONE"
      /\ row.state \in LiveExecution => executions[id].state \in LiveExecution
      /\ q => row.quiescent
    <2>1. executions[id] \in ExecutionRow
        BY DEF IInv, TypeOK
    <2>2. executions[id].state # "NONE"
        BY <1>1 DEF HasExecution
    <2>3. CASE q
        <3> DEFINE r == [executions[id] EXCEPT
                            !.state = IF @ \in LiveExecution \cup {"LOST"} THEN "TERMINATED" ELSE @,
                            !.terminal = TRUE, !.quiescent = TRUE]
        <3>1. row = r
            BY ZenonT(60), <2>2, <2>3 DEF FinalizedExecution
        <3>2. /\ r.state = IF executions[id].state \in LiveExecution \cup {"LOST"}
                           THEN "TERMINATED" ELSE executions[id].state
              /\ r.quiescent = TRUE
            BY ZenonT(60), <2>1 DEF ExecutionRow
        <3> HIDE DEF r, row
        <3> QED
            BY ZenonT(60), <2>2, <3>1, <3>2 DEF LiveExecution
    <2>4. CASE ~q
        <3> DEFINE r == [executions[id] EXCEPT
                            !.state = IF @ \in LiveExecution THEN "LOST" ELSE @]
        <3>1. row = r \/ row = executions[id]
            BY ZenonT(60), <2>2, <2>4 DEF FinalizedExecution
        <3>2. r.state = IF executions[id].state \in LiveExecution THEN "LOST"
                        ELSE executions[id].state
            BY ZenonT(60), <2>1 DEF ExecutionRow
        <3> HIDE DEF r, row
        <3> QED
            BY ZenonT(60), <2>2, <2>4, <3>1, <3>2 DEF LiveExecution
    <2> QED
        BY <2>3, <2>4
<1> HIDE DEF row
<1>5. /\ executions'[id] = row
      /\ \A i \in AttemptIds \ {id} : executions'[i] = executions[i]
    BY <1>3 DEF IInv, TypeOK
<1>6. ASSUME NEW i \in IncarnationIds
      PROVE  /\ incarnations'[i] \in LiveIncarnation => incarnations[i] \in LiveIncarnation
             /\ incarnations[i] \in {"LOST", "TERMINATED"} =>
                   incarnations'[i] \in {"LOST", "TERMINATED"}
             /\ i[1] # g => incarnations'[i] = incarnations[i]
    <2>1. closed[i] = IF i = IncarnationOf(id) THEN FinalizedIncarnation(incarnations[i], q)
                      ELSE incarnations[i]
        OBVIOUS
    <2>2. \/ incarnations'[i] = closed[i]
          \/ i[1] = g /\ closed[i] \in LiveIncarnation /\ incarnations'[i] = "LOST"
        BY <1>3 DEF RetireIncarnations
    <2>3. i = IncarnationOf(id) => i[1] = g
        BY SMTT(30), <1>1, <1>2 DEF IncarnationOf
    <2> HIDE DEF closed
    <2> QED
        BY <2>1, <2>2, <2>3 DEF FinalizedIncarnation, LiveIncarnation
<1>7. \A i \in AttemptIds : Active(i) => attempts[i].agent # g
    BY <1>2 DEF IInv, Binding
<1>8. ASSUME NEW i \in AttemptIds PROVE AttemptStep(i)
    <2>1. IncarnationOf(i)' = IncarnationOf(i) /\ (Active(i)' <=> Active(i))
        BY DEF IncarnationOf, Active
    <2>2. CASE i = id
        <3>1. ~Active(id)
            BY <1>1, <1>2, <1>7
        <3>2. HasExecution(id)' /\ (Running(id)' => Running(id))
            BY <1>4, <1>5 DEF HasExecution, Running
        <3> QED
            BY <1>1, <2>1, <2>2, <3>1, <3>2 DEF AttemptStep
    <2>3. CASE i # id
        <3>1. IncarnationOf(i) \in IncarnationIds /\ Active(i) =>
                  incarnations'[IncarnationOf(i)] = incarnations[IncarnationOf(i)]
            BY <1>6, <1>7 DEF IncarnationOf
        <3> QED
            BY <1>5, <2>3, <3>1, SameAttempt
    <2> QED
        BY <2>2, <2>3
<1>9. /\ escalations'[t].state = "RESOLVED"
      /\ \A u \in Tasks \ {t} : escalations'[u] = escalations[u]
    BY DEF Resolve, IInv, TypeOK, EscalationRow
<1>10. ASSUME NEW u \in Tasks PROVE DutyStep(u) /\ ObligationStep(u)
    <2>1. CASE u = t
        <3>1. executions'[id].quiescent \/ executions[id].isolated
            BY <1>1, <1>4, <1>5 DEF WriterSafe
        <3>2. ObligationStep(t)
            BY <1>1, <1>9, <3>1 DEF ObligationStep
        <3>3. ~Obligation(t)'
            BY <1>9 DEF Obligation
        <3> QED
            BY <2>1, <3>2, <3>3 DEF DutyStep
    <2>2. CASE u # t
        <3>1. Latest(u)' = Latest(u) /\ Latest(u) # id
            BY <1>1, <2>2 DEF Latest
        <3>2. Obligation(u) => Latest(u) \in AttemptIds
            BY DEF Hosted, Charged
        <3>3. Obligation(u) /\ HasExecution(Latest(u)) => HasExecution(Latest(u))'
            BY <1>5, <3>1, <3>2 DEF HasExecution
        <3> QED
            BY <1>9, <2>2, <3>3, SameDuties
    <2> QED
        BY <2>1, <2>2
<1>11. FenceStep
    BY <1>6 DEF FenceStep
<1> QED
    BY <1>6, <1>8, <1>10, <1>11 DEF HostStep

\* Closing an escalation that is no writer's.
LEMMA PlainResolve ==
    ASSUME IInv, NEW t \in Tasks, ~Obligation(t), Resolve(t)
    PROVE  \A u \in Tasks : escalations'[u] = escalations[u] \/ (~Obligation(u) /\ ~Obligation(u)')
<1> USE Zenon
<1>1. /\ escalations'[t].state = "RESOLVED"
      /\ \A u \in Tasks \ {t} : escalations'[u] = escalations[u]
    BY DEF Resolve, IInv, TypeOK, EscalationRow
<1> QED
    BY <1>1 DEF Obligation

\* Root's answers: the obligation of a writer is closed with the presence of the
\* writer, and by resolve_retry and release_cancelled_writer only.
LEMMA ResolveHosts ==
    ASSUME IInv, Hosted, NEW t \in Tasks, NEW q \in BOOLEAN,
           resolve_retry(t, q) \/ release_cancelled_writer(t, q) \/ resolve_cancel_task(t)
    PROVE  HostStep /\ FenceStep /\ \A u \in Tasks : ObligationStep(u)
<1> USE Zenon
<1>1. CASE resolve_retry(t, q)
    <2>1. /\ escalations[t].state = "OPEN" /\ tasks' = [tasks EXCEPT ![t].state = "QUEUED"]
          /\ t \in Writers /\ WriterObligation(t) => WriterSafe(t, q)
          /\ Resolve(t) /\ attempts' = attempts
          /\ \/ WriterObligation(t) /\ FinalizeWriter(t, q)
             \/ ~WriterObligation(t) /\ UNCHANGED <<executions, agents, incarnations>>
        BY ZenonT(60), <1>1 DEF resolve_retry
    <2>2. \A u \in Tasks : tasks'[u].epoch = tasks[u].epoch
        BY <2>1 DEF IInv, TypeOK, TaskRow
    <2>3. CASE WriterObligation(t) /\ FinalizeWriter(t, q)
        <3>1. Obligation(t)
            BY <2>1, <2>3 DEF Obligation, WriterObligation
        <3>2. t \in Writers
            BY <3>1 DEF Hosted, Charged
        <3> QED
            BY <2>1, <2>2, <2>3, <3>1, <3>2, FinalizeHosts
    <2>4. CASE ~WriterObligation(t) /\ UNCHANGED <<executions, agents, incarnations>>
        <3>1. ~Obligation(t)
            BY <2>4 DEF Obligation, WriterObligation
        <3> QED
            BY <2>1, <2>2, <2>4, <3>1, PlainResolve, NoHost
    <2> QED
        BY <2>1, <2>3, <2>4
<1>2. CASE release_cancelled_writer(t, q)
    <2>1. /\ escalations[t].state = "OPEN" /\ WriterObligation(t) /\ WriterSafe(t, q)
          /\ FinalizeWriter(t, q) /\ Resolve(t) /\ UNCHANGED <<tasks, attempts>>
        BY ZenonT(60), <1>2 DEF release_cancelled_writer
    <2>2. Obligation(t)
        BY <2>1 DEF Obligation, WriterObligation
    <2> QED
        BY <2>1, <2>2, FinalizeHosts
<1>3. CASE resolve_cancel_task(t)
    <2>1. /\ tasks' = [tasks EXCEPT ![t].state = "CANCELLED"]
          /\ \/ escalations' = escalations
             \/ ~WriterObligation(t) /\ Resolve(t)
          /\ UNCHANGED <<attempts, executions, incarnations>>
        BY ZenonT(60), <1>3 DEF resolve_cancel_task
    <2>2. \A u \in Tasks : tasks'[u].epoch = tasks[u].epoch
        BY <2>1 DEF IInv, TypeOK, TaskRow
    <2>3. \A u \in Tasks : escalations'[u] = escalations[u] \/ (~Obligation(u) /\ ~Obligation(u)')
        BY <2>1, PlainResolve DEF Obligation, WriterObligation
    <2> QED
        BY <2>1, <2>2, <2>3, NoHost
<1> QED
    BY <1>1, <1>2, <1>3

\* What every step of the kernel does to hosts and obligations.
HostNext == (HostStep \/ Hosted') /\ FenceStep /\ \A t \in Tasks : ObligationStep(t)

\* Every step of the kernel keeps the hosts in order.
LEMMA NextHosts == IInv /\ Hosted /\ [Next]_vars => HostNext
<1> USE Zenon
<1> SUFFICES ASSUME IInv, Hosted, [Next]_vars PROVE HostNext
    OBVIOUS
<1> USE DEF HostNext
<1>1. CASE Host
    <2>1. ASSUME NEW b \in Batches, submit_batch(b) PROVE HostNext
        <3>1. \A t \in Tasks : tasks'[t].epoch = tasks[t].epoch
            BY <2>1 DEF submit_batch, IInv, Unsubmitted, TasksOf
        <3> QED
            BY <2>1, <3>1, NoHost DEF submit_batch
    <2>2. ASSUME NEW n \in 0..MaxCapacity, resize_partition(n) PROVE HostNext
        BY <2>2, NoHost DEF resize_partition
    <2>3. ASSUME reconcile_pool PROVE HostNext
        BY <2>3, ReconcileHosts
    <2>4. ASSUME NEW t \in Tasks, NEW q \in BOOLEAN, cancel_task(t, q) PROVE HostNext
        BY <2>4, CancelTaskHosts
    <2>5. ASSUME NEW b \in Batches, cancel_batch(b) PROVE HostNext
        BY <2>5, CancelBatchHosts
    <2>6. ASSUME NEW t \in Tasks, ack_result(t) PROVE HostNext
        BY <2>6, NoHost DEF ack_result
    <2> QED
        BY <1>1, <2>1, <2>2, <2>3, <2>4, <2>5, <2>6 DEF Host
<1>2. CASE Root
    BY <1>2, ResolveHosts DEF Root
<1>3. CASE Dispatch
    <2>1. ASSUME ensure_task_consumers PROVE HostNext
        BY <2>1, NoHost DEF ensure_task_consumers
    <2>2. ASSUME NEW g \in Agents, revive_agent(g) PROVE HostNext
        BY <2>2, NoHost DEF revive_agent
    <2>3. ASSUME NEW t \in Tasks, NEW g \in Agents, Claimable(t), claim_selected(t, g)
          PROVE  HostNext
        BY <2>3, ClaimHosts
    <2>4. ASSUME NEW id \in AttemptIds, NEW isolated \in BOOLEAN, create_execution(id, isolated)
          PROVE  HostNext
        BY <2>4, CreateHosts
    <2>5. ASSUME NEW id \in AttemptIds, confirm_running_and_renew(id) PROVE HostNext
        BY <2>5, ConfirmHosts
    <2>6. ASSUME NEW id \in AttemptIds, abort_before_physical_start(id) PROVE HostNext
        BY <2>6, AbortHosts
    <2>7. ASSUME NEW id \in AttemptIds, report_configuration_unavailable(id) PROVE HostNext
        BY <2>7, NackHosts, KernelAssumption DEF report_configuration_unavailable
    <2> QED
        BY <1>3, <2>1, <2>2, <2>3, <2>4, <2>5, <2>6, <2>7 DEF Dispatch, claim_next_available
<1>4. CASE Observe
    <2>1. ASSUME NEW id \in AttemptIds, NEW state \in Observable, NEW classed,
                 NEW terminal \in BOOLEAN, NEW q \in BOOLEAN,
                 record_physical_outcome(id, state, classed, terminal, q)
          PROVE  HostNext
        BY <2>1, RecordOutcomeHosts, KernelAssumption DEF ExecutionState
    <2>2. ASSUME NEW id \in AttemptIds, NEW state \in Observable, NEW classed, NEW q \in BOOLEAN,
                 record_pending_physical_terminal(id, state, classed, q)
          PROVE  HostNext
        BY <2>2, RecordPendingHosts
    <2>3. ASSUME NEW id \in AttemptIds, NEW q \in BOOLEAN, NEW reusable \in BOOLEAN,
                 ack_success(id, q, reusable)
          PROVE  HostNext
        BY <2>3, AckHosts
    <2>4. ASSUME NEW id \in AttemptIds, NEW class \in FailureClass, NEW terminal \in BOOLEAN,
                 NEW q \in BOOLEAN, NEW reusable \in BOOLEAN,
                 nack(id, class, terminal, q, reusable)
          PROVE  HostNext
        BY <2>4, NackHosts
    <2>5. ASSUME NEW id \in AttemptIds, NEW class \in FailureClass,
                 nack_preserving_physical_history(id, class)
          PROVE  HostNext
        BY <2>5, NackPreservingHosts
    <2> QED
        BY <1>4, <2>1, <2>2, <2>3, <2>4, <2>5 DEF Observe
<1>5. CASE Clock
    <2>1. ASSUME NEW recovering \in BOOLEAN, expire_leases(recovering) PROVE HostNext
        BY <2>1, ExpireHosts
    <2>2. ASSUME NEW due \in SUBSET Tasks, promote_retry_wait(due) PROVE HostNext
        <3>1. \A t \in Tasks : tasks'[t].epoch = tasks[t].epoch
            BY <2>2 DEF promote_retry_wait, IInv, TypeOK, TaskRow
        <3> QED
            BY <2>2, <3>1, NoHost DEF promote_retry_wait
    <2>3. ASSUME NEW id \in AttemptIds, LeaseElapses(id) PROVE HostNext
        BY <2>3, NoHost DEF LeaseElapses
    <2> QED
        BY <1>5, <2>1, <2>2, <2>3 DEF Clock
<1>6. CASE Physical
    <2>1. ASSUME NEW id \in AttemptIds, NEW to, PhysicalStep(id, to) PROVE HostNext
        BY <2>1, NoHost DEF PhysicalStep
    <2> QED
        BY <1>6, <2>1 DEF Physical
<1>7. CASE UNCHANGED vars
    BY <1>7, NoHost DEF vars
<1> QED
    BY <1>1, <1>2, <1>3, <1>4, <1>5, <1>6, <1>7 DEF Next

\* The hosts are in order in every reachable state.
THEOREM HostInvariant == Spec => []Hosted
<1>1. IInv /\ Hosted /\ [Next]_vars => Hosted'
    BY Zenon, NextHosts, HostKept DEF HostNext
<1> QED
    BY <1>1, HostedInit, Invariant, PTL DEF Spec

\* A host that is live has at most one live execution, that of its agent's ACTIVE
\* attempt, so create_execution on a warm incarnation never meets the index
\* one_active_execution_per_incarnation.
THEOREM HostsAreExclusive == Spec => []HostExclusive
<1>1. Hosted => HostExclusive
    BY Zenon DEF Hosted, Housed, HostExclusive, Running, HostLive, Active
<1> QED
    BY <1>1, HostInvariant, PTL

\* A fence is final: although confirm_running_and_renew writes WARM without a guard
\* and late evidence may arrive at any time, no fenced incarnation is live again.
THEOREM FencesAreFinal == Spec => FencedForever
<1>1. IInv /\ Hosted /\ [Next]_vars =>
         [\A i \in IncarnationIds :
             incarnations[i] \in {"LOST", "TERMINATED"}
             => incarnations'[i] \in {"LOST", "TERMINATED"}]_vars
    BY Zenon, NextHosts DEF HostNext, FenceStep
<1> QED
    BY <1>1, Invariant, HostInvariant, PTL DEF Spec, FencedForever

\* COMPLETED and CANCELLED are final, fencing epochs only grow, and an obligation of a
\* writer is closed by Root alone, with its execution quiet or isolated.
THEOREM ObligationsAndEndsAreKept == Spec => ObligationsAndEndsLast
<1> DEFINE Kept ==
        \A t \in Tasks :
          /\ tasks[t].state \in {"COMPLETED", "CANCELLED"} => tasks'[t].state = tasks[t].state
          /\ tasks'[t].epoch >= tasks[t].epoch
          /\ escalations[t].state = "OPEN" /\ escalations[t].cause = WriterUnknown
             => \/ escalations'[t] = escalations[t]
                \/ escalations'[t].state = "RESOLVED"
                   /\ \/ executions'[Latest(t)].quiescent \/ executions[Latest(t)].isolated
<1>1. IInv /\ WorkInv /\ Hosted /\ [Next]_vars => Kept
    <2> SUFFICES ASSUME IInv, WorkInv, Hosted, [Next]_vars, NEW t \in Tasks
                 PROVE  /\ tasks[t].state \in {"COMPLETED", "CANCELLED"} =>
                              tasks'[t].state = tasks[t].state
                        /\ tasks'[t].epoch >= tasks[t].epoch
                        /\ escalations[t].state = "OPEN" /\ escalations[t].cause = WriterUnknown
                           => \/ escalations'[t] = escalations[t]
                              \/ /\ escalations'[t].state = "RESOLVED"
                                 /\ \/ executions'[Latest(t)].quiescent
                                    \/ executions[Latest(t)].isolated
        BY Zenon
    <2>1. TaskStep(t)
        BY Zenon, NextWork DEF WorkStep
    <2>2. ObligationStep(t)
        BY Zenon, NextHosts DEF HostNext
    <2> QED
        BY Zenon, <2>1, <2>2 DEF TaskStep, ObligationStep, Obligation
<1>2. IInv /\ WorkInv /\ Hosted /\ [Next]_vars => [Kept]_vars
    BY Zenon, <1>1
<1> QED
    BY <1>2, Invariant, WorkInvariant, HostInvariant, PTL DEF Spec, ObligationsAndEndsLast
=============================================================================
