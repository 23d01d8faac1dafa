------------------------------ MODULE Recovery ------------------------------
(***************************************************************************)
(* The daemon of ControlLoop with crashes: the process may die between any *)
(* two transactions, and the next one reconstructs what it supervises from *)
(* the store alone before it dispatches again (agentype-runtime:           *)
(* recovery.rs, and the activation of daemon.rs and observer.rs).          *)
(*                                                                         *)
(* boot is the place of the startup between two transactions; "up" is the  *)
(* daemon after READY, where the actions of ControlLoop apply.  While the  *)
(* startup runs there is no host control and no other caller of the        *)
(* kernel: time passes and processes start, run and end.                   *)
(***************************************************************************)
EXTENDS ControlLoop

VARIABLES
    boot,        \* what the startup does next
    todo,        \* the candidates of the pass under way, as they were read
    hand,        \* the candidate being reconciled
    why,         \* the failure class that goes with it
    swept,       \* the activation sweep is over
    refused      \* the check that stopped the last startup, until the next one begins

bootVars == <<boot, todo, hand, why, swept, refused>>
recVars == <<allVars, bootVars>>

ASSUME RecoveryAssumption ==
    /\ {"RUNNING"} \cup EndedExecution \subseteq Observable
    /\ "RESOURCE_UNAVAILABLE" \in FailureClass

BootPlaces == {"down", "read", "replay", "read again", "reconcile", "confirm", "history",
               "unresolved", "nack", "ended", "nack ended", "sweep", "promote", "pool", "list",
               "revive", "assert", "activate", "validate", "up"}
InHand == {"confirm", "history", "unresolved", "nack", "ended", "nack ended"}
Refusals == {"no", "contradiction", "replay", "confirm", "history", "unresolved", "nack",
             "ended", "revive", "ready"}

\* ExecutionReconciliationSnapshot: routing hints, never authority.
Snapshot(id) == [state |-> executions[id].state, terminal |-> executions[id].terminal,
                 quiescent |-> executions[id].quiescent, classed |-> executions[id].classed,
                 current |-> attempts[id].state = "ACTIVE"]
Snapshots == [state : ExecutionState, terminal : BOOLEAN, quiescent : BOOLEAN,
              classed : BOOLEAN, current : BOOLEAN]

\* Every execution row there ever was, whatever became of its attempt.
reconciliation_candidates == [id \in {i \in AttemptIds : HasExecution(i)} |-> Snapshot(id)]

Nobody == [id \in {} |-> 0]

RecTypeOK ==
    /\ LoopTypeOK
    /\ boot \in BootPlaces
    /\ DOMAIN todo \subseteq AttemptIds
    /\ \A id \in DOMAIN todo : todo[id] \in Snapshots
    /\ hand \in Claims /\ (boot \in InHand => hand \in DOMAIN todo)
    /\ why \in FailureClass
    /\ swept \in BOOLEAN
    /\ refused \in Refusals
    /\ boot # "up" => pc = "expire" /\ claim = NoClaim

RecInit ==
    /\ LoopInit
    /\ boot = "down" /\ todo = Nobody /\ hand = NoClaim /\ why = "UNKNOWN"
    /\ swept = FALSE /\ refused = "no"

----------------------------------------------------------------------------
(* Death *)

\* The threads and everything they hold are gone; the store is as it was.
Dead(reason) ==
    /\ pc' = "expire" /\ claim' = NoClaim /\ class' = "UNKNOWN" /\ listed' = {}
    /\ watched' = {} /\ ticket' = NoTicket /\ failed' = "no"
    /\ boot' = "down" /\ todo' = Nobody /\ hand' = NoClaim /\ why' = "UNKNOWN"
    /\ swept' = FALSE /\ refused' = reason
    /\ UNCHANGED due

Crash == boot # "down" /\ Dead("no") /\ UNCHANGED vars

\* persist_terminal_evidence: the collected end is durable, and the process dies
\* before the ACK or NACK that follows (a store may hold such rows).
CrashAfterEvidence ==
    /\ boot = "up" /\ pc = "ended"
    /\ \E state \in EndedExecution, q \in BOOLEAN :
          record_pending_physical_terminal(claim, state, state # "SUCCEEDED", q)
    /\ Dead("no")

\* An error of recovery: the StartupGuard is dropped and the process exits.
Refuse(check) == Dead(check) /\ UNCHANGED vars

----------------------------------------------------------------------------
(* The startup *)

Then(place) == boot' = place /\ UNCHANGED <<todo, hand, why, swept, refused>>

\* The startup takes one kernel transaction and keeps what the threads hold.
Supervising == UNCHANGED <<loopVars, due, watchVars, failed>>

\* Done with a candidate: back to the pass.
Done(id, place) ==
    /\ boot' = place /\ todo' = [i \in DOMAIN todo \ {id} |-> todo[i]]
    /\ hand' = NoClaim /\ why' = "UNKNOWN"
    /\ UNCHANGED <<swept, refused>>

\* The barrier before anything else: leases that ran out while nobody was there.
Barrier ==
    /\ boot = "down"
    /\ expire_leases(TRUE)
    /\ boot' = "read" /\ refused' = "no" /\ UNCHANGED <<todo, hand, why, swept>>
    /\ Supervising

ReadCandidates ==
    /\ boot \in {"read", "read again"}
    /\ boot' = IF boot = "read" THEN "replay" ELSE "reconcile"
    /\ todo' = reconciliation_candidates
    /\ UNCHANGED <<vars, hand, why, swept, refused>> /\ Supervising

\* Category A: terminal evidence is durable and its consequence is not.
Owed(id) ==
    /\ results[id[1]] = "NONE"
    /\ todo[id].state \in EndedExecution
    /\ ~(todo[id].state = "TERMINATED" /\ ~todo[id].terminal)

\* Mutant: the evidence of success replayed as that of a failure.
ReplayAsFailure(id) == nack_preserving_physical_history(id, "EXECUTION_LOST")

replay_success_consequence(id) ==
    \E reusable \in BOOLEAN : ack_success(id, todo[id].quiescent, reusable)

replay_failure_consequence(id) ==
    \E c \in FailureClass, reusable \in BOOLEAN :
        nack(id, c, TRUE, todo[id].quiescent, reusable)

ReplayApplies(id) ==
    \/ todo[id].state # "SUCCEEDED" /\ executions[id].state # "SUCCEEDED"
    \/ todo[id].state = "SUCCEEDED" /\ executions[id].state \in LiveExecution \cup {"SUCCEEDED"}

\* A success cannot have a failure class: whose evidence it is, current or long
\* closed, is not asked.
Contradicts(id) == todo[id].state = "SUCCEEDED" /\ todo[id].classed

\* A stale authority leaves the evidence as history.
replay_persisted_terminal_consequence(id) ==
    /\ boot = "replay" /\ id \in DOMAIN todo
    /\ IF Owed(id) /\ ~todo[id].terminal THEN Refuse("replay")
       ELSE IF Owed(id) /\ Contradicts(id) THEN Refuse("contradiction")
       ELSE IF ~Owed(id) \/ ~validate_authority(id)
       THEN UNCHANGED vars /\ Done(id, "replay") /\ Supervising
       ELSE IF ~ReplayApplies(id) THEN Refuse("replay")
       ELSE /\ IF todo[id].state = "SUCCEEDED" THEN replay_success_consequence(id)
               ELSE replay_failure_consequence(id)
            /\ Done(id, "replay") /\ Supervising

PassEnds ==
    /\ boot \in {"replay", "reconcile"} /\ DOMAIN todo = {}
    /\ Then(IF boot = "replay" THEN "read again" ELSE "sweep")
    /\ UNCHANGED vars /\ Supervising

----------------------------------------------------------------------------
(* Reconciliation of one execution *)

\* Proven ends were replayed.
Settled(row) ==
    \/ row.state \in {"SUCCEEDED", "FAILED"}
    \/ row.state = "TERMINATED" /\ row.terminal

Take(id, place) ==
    /\ boot' = place /\ hand' = id
    /\ UNCHANGED <<vars, todo, swept, refused>> /\ Supervising

\* reconcile_start answers, and collect_outcome for a process that seems to have
\* ended: running, ended, or anything else, a missing adapter or an error included.
reconcile_active_physical(id) ==
    \/ physical[id] = "running" /\ Take(id, "confirm") /\ UNCHANGED why
    \/ physical[id] = "ended" /\ Take(id, "ended") /\ UNCHANGED why
    \/ Take(id, "unresolved") /\ why' \in FailureClass

\* Mutant: an execution that is LOST already needs nothing more.
LostIsHistory(id) == UNCHANGED vars /\ Done(id, "reconcile") /\ Supervising

close_lost(id) ==
    IF todo[id].current THEN Take(id, "nack") /\ why' = "EXECUTION_LOST"
    ELSE UNCHANGED vars /\ Done(id, "reconcile") /\ Supervising

reconcile_one_execution(id) ==
    /\ boot = "reconcile" /\ id \in DOMAIN todo
    /\ IF Settled(todo[id]) THEN UNCHANGED vars /\ Done(id, "reconcile") /\ Supervising
       ELSE IF todo[id].state = "LOST" THEN close_lost(id)
       ELSE reconcile_active_physical(id)

\* The fenced confirmation, and the admission to supervision with it.
admit_or_history ==
    /\ boot = "confirm"
    /\ IF ~validate_authority(hand) THEN Then("history") /\ UNCHANGED vars /\ Supervising
       ELSE IF executions[hand].state \notin LiveExecution THEN Refuse("confirm")
       ELSE /\ confirm_running_and_renew(hand)
            /\ watched' = watched \cup {hand}
            /\ Done(hand, "reconcile")
            /\ UNCHANGED <<loopVars, due, ticket, failed>>

\* What is written down of the candidate in hand, with the class of the failure
\* unless it runs; a refusal is an error.
Record(state, place) ==
    IF physical_transition_allowed(executions[hand].state, state)
    THEN /\ record_physical_outcome(hand, state, state # "RUNNING", FALSE, FALSE)
         /\ IF place = "reconcile" THEN Done(hand, place) ELSE Then(place)
         /\ Supervising
    ELSE Refuse(boot)

RunningHistory == boot = "history" /\ Record("RUNNING", "reconcile")

PhysicalEnd == boot = "ended" /\ Record("TERMINATED", "nack ended")

\* The handle is kept under the state the snapshot showed.
apply_nack_handle ==
    /\ boot = "unresolved"
    /\ IF todo[hand].state \in {"STARTING", "UNKNOWN"} THEN Record("UNKNOWN", "nack")
       ELSE IF todo[hand].state = "RUNNING" THEN Record("RUNNING", "nack")
       ELSE Then("nack") /\ UNCHANGED vars /\ Supervising

\* Mutant: an adapter that cannot be asked taken as proof that nothing runs.
NackAsProof ==
    /\ boot \in {"nack", "nack ended"}
    /\ IF ~validate_authority(hand)
       THEN UNCHANGED vars /\ Done(hand, "reconcile") /\ Supervising
       ELSE /\ nack(hand, why, TRUE, TRUE, FALSE)
            /\ Done(hand, "reconcile") /\ Supervising

\* Mutant: the NACK of a stale authority still puts the task back.
NackUnfenced ==
    /\ boot \in {"nack", "nack ended"}
    /\ IF validate_authority(hand) THEN PlainNack(hand, why)
       ELSE /\ tasks' = [tasks EXCEPT ![hand[1]].state = "RETRY_WAIT"]
            /\ UNCHANGED <<attempts, leases, executions, incarnations, agents, batches,
                           escalations, results, wakeups, decisions, capacity, physical>>
    /\ Done(hand, "reconcile") /\ Supervising

\* The fenced NACK: never a proof, and history for a stale authority.
apply_nack ==
    /\ boot \in {"nack", "nack ended"}
    /\ IF ~validate_authority(hand)
       THEN UNCHANGED vars /\ Done(hand, "reconcile") /\ Supervising
       ELSE IF executions[hand].state = "SUCCEEDED" THEN Refuse("nack")
       ELSE /\ PlainNack(hand, IF boot = "nack" THEN why ELSE "UNKNOWN")
            /\ Done(hand, "reconcile") /\ Supervising

----------------------------------------------------------------------------
(* Maintenance, the READY invariant and activation *)

Sweep ==
    /\ \/ boot = "sweep" /\ expire_leases(FALSE) /\ Then("promote") /\ UNCHANGED due
       \/ /\ boot = "promote"
          /\ promote_retry_wait({t \in due : tasks[t].state = "RETRY_WAIT"})
          /\ due' = {} /\ Then("pool")
       \/ boot = "pool" /\ reconcile_pool /\ Then("list") /\ UNCHANGED due
    /\ UNCHANGED <<loopVars, watchVars, failed>>

ListForRevival ==
    /\ boot = "list" /\ Then("revive")
    /\ listed' = {g \in Agents : agents[g].state = "REVIVING"}
    /\ UNCHANGED <<vars, pc, claim, class, due, watchVars, failed>>

ReviveListed ==
    /\ boot = "revive"
    /\ IF listed = {}
       THEN Then(IF swept THEN "validate" ELSE "assert") /\ UNCHANGED vars /\ Supervising
       ELSE \E g \in listed :
               IF Revivable(g)
               THEN /\ revive_agent(g) /\ listed' = listed \ {g}
                    /\ UNCHANGED <<bootVars, pc, claim, class, due, watchVars, failed>>
               ELSE Refuse("revive")

\* READY: a current authority that has an execution runs and is supervised.
LooksCurrent(id) == leases[id] = "ACTIVE" /\ HasExecution(id)
ReadyInvariant ==
    \A id \in AttemptIds :
        LooksCurrent(id) => executions[id].state = "RUNNING" /\ id \in watched

assert_ready_invariant ==
    /\ boot \in {"assert", "validate"}
    /\ IF ~ReadyInvariant THEN Refuse("ready")
       ELSE /\ boot' = IF boot = "assert" THEN "activate" ELSE "up"
            /\ todo' = IF boot = "assert" THEN [id \in watched |-> Snapshot(id)] ELSE Nobody
            /\ UNCHANGED <<hand, why, swept, refused, vars>> /\ Supervising

\* activation_sweep asks once about every admitted execution: running refreshes it,
\* an end or a loss goes the observer's way, and whatever else closes its authority.
activation_sweep(id) ==
    /\ boot = "activate" /\ ticket = NoTicket /\ id \in DOMAIN todo
    /\ Done(id, "activate")
    /\ UNCHANGED <<loopVars, due, failed>>
    /\ \/ physical[id] = "running" /\ UNCHANGED <<vars, watchVars>>
       \/ /\ \/ ticket' = [id |-> id, step |-> "lost"]
             \/ physical[id] = "ended" /\ ticket' = [id |-> id, step |-> "ended"]
          /\ UNCHANGED <<vars, watched>>
       \/ /\ IF validate_authority(id)
             THEN \E c \in FailureClass : nack_preserving_physical_history(id, c)
             ELSE UNCHANGED vars
          /\ watched' = watched \ {id} /\ UNCHANGED ticket

ActivationEnds ==
    /\ boot = "activate" /\ ticket = NoTicket /\ DOMAIN todo = {}
    /\ boot' = "sweep" /\ swept' = TRUE
    /\ UNCHANGED <<vars, todo, hand, why, refused>> /\ Supervising

Startup ==
    \/ Barrier \/ ReadCandidates \/ PassEnds
    \/ \E id \in AttemptIds : replay_persisted_terminal_consequence(id)
    \/ \E id \in AttemptIds : reconcile_one_execution(id)
    \/ admit_or_history \/ RunningHistory \/ PhysicalEnd \/ apply_nack_handle \/ apply_nack
    \/ Sweep \/ ListForRevival \/ ReviveListed \/ assert_ready_invariant
    \/ \E id \in AttemptIds : activation_sweep(id)
    \/ ActivationEnds

\* What goes on whether or not the daemon is there.
World ==
    /\ \/ (Processes \/ \E id \in AttemptIds : LeaseElapses(id))
          /\ UNCHANGED <<loopVars, due, watchVars, failed>>
       \/ \E t \in Tasks : BackoffElapses(t)
    /\ UNCHANGED bootVars

RecNext ==
    \/ boot = "up" /\ LoopNext /\ UNCHANGED bootVars
    \/ boot # "up" /\ World
    \/ boot = "activate" /\ Apply /\ UNCHANGED bootVars
    \/ Startup
    \/ Crash \/ CrashAfterEvidence

RecFairness == Fairness /\ WF_recVars(Startup)
RecSpec == RecInit /\ [][RecNext]_recVars /\ RecFairness

----------------------------------------------------------------------------
(* What is checked *)

\* Evidence that no startup accepts: success with a failure class, and no Result.
Contradictory(id) ==
    executions[id].state = "SUCCEEDED" /\ executions[id].classed /\ results[id[1]] = "NONE"

\* Where it comes from: a writer in a shared workspace whose attempt is closed.
SharedWriterClosed(id) ==
    id[1] \in Writers /\ ~executions[id].isolated /\ leases[id] # "ACTIVE"

\* From whatever point the process died at, and however often it dies again, there is
\* one durable history that a startup refuses: a row SUCCEEDED with a failure class
\* whose task has no Result (recovery.rs, replay_persisted_terminal_consequence).  It
\* is always the closed attempt of a writer in a shared workspace: ack_success on an
\* execution that is not quiescent keeps the class an earlier observation left and
\* creates no Result.  Every other check (confirmed ends, legal records, revivals, and
\* at the end that each current authority runs and is supervised) finds what it
\* expects.  Nor is the daemon, once up, refused anything while it holds the authority
\* for it: a commitment finds its host free, the confirmation, the NACK and the
\* observer's evidence of an end find the execution as they left it.
RefusesOnlyContradictions ==
    /\ refused # "no" => refused = "contradiction" /\ \E id \in AttemptIds : Contradictory(id)
    /\ \A id \in AttemptIds : Contradictory(id) => SharedWriterClosed(id)
    /\ failed \notin {"commit", "confirm", "nack", "ended", "observer"}

\* Evidence of success that is durable decides the attempt: as long as its lease
\* holds, recovery completes the task or, for a writer that is not known to have
\* stopped, suspends it, and neither fails the attempt nor gives the task to another.
EvidenceDecides ==
    [][\A id \in AttemptIds :
          /\ boot # "up" /\ executions[id].state = "SUCCEEDED" /\ leases[id] = "ACTIVE"
          /\ attempts'[id].state # "ACTIVE"
          => \/ tasks'[id[1]].state = "COMPLETED"
             \/ tasks'[id[1]].state = "SUSPENDED" /\ id[1] \in Writers /\ ~executions[id].quiescent]_recVars

AuthorityState == <<tasks, attempts, leases, agents, batches, escalations, results>>

\* A claim that lost its authority (cancelled, expired, acknowledged meanwhile, or
\* closed before a crash) is history: no later step of its dispatch, of its
\* observation or of its recovery moves a task, an attempt, a lease, an agent, a
\* batch, an escalation or a result.
StaleClaimsAreHistory ==
    [][(\/ pc \in Dispatching /\ pc' # pc /\ ~validate_authority(claim)
        \/ ticket.step # "idle" /\ ticket' # ticket /\ ~validate_authority(ticket.id)
        \/ boot \in InHand /\ hand' # hand /\ ~validate_authority(hand))
       => UNCHANGED AuthorityState]_recVars

\* A startup that is refused is no crash: it counts against what follows.
CrashesCease == <>[][boot' = "down" => boot = "down" \/ refused' # "no"]_recVars

Waiting(t) == Claimable(t) \/ tasks[t].state = "RETRY_WAIT"

\* Work does not wait for ever: a claimable or backed-off task is dispatched, suspended
\* or cancelled, unless the loop has failed, startups are refused for a contradiction,
\* or the model's supply of agents or claims is used up.
WorkMovesOn ==
    \A t \in Tasks :
        Waiting(t) ~> ~Waiting(t) \/ pc = "failed" \/ refused = "contradiction" \/ Exhausted(t)

\* Crashes delay the work but do not lose it: once they cease, the lease of a claim
\* that died with the process is swept, and a task that waits is dispatched,
\* suspended or cancelled, whatever the adapters answer during recovery.
WorkSurvivesCrashes == CrashesCease => (ElapsedLeasesAreSwept /\ WorkMovesOn)
=============================================================================
