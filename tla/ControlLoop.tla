---------------------------- MODULE ControlLoop ----------------------------
(***************************************************************************)
(* The daemon at work on the kernel: the control-loop thread with its      *)
(* dispatcher, the physical-observer thread, host control, Root, worker    *)
(* ACKs, time and the processes, each taking one kernel transaction or one *)
(* adapter call at a time (agentype-runtime: control.rs, lib.rs and        *)
(* observer.rs).                                                           *)
(*                                                                         *)
(* Kernel says what a transaction does for any caller; here the callers    *)
(* are the ones the daemon has, in the order it makes the calls, with the  *)
(* consequence it draws from an error.  pc is the place of the control     *)
(* loop between two transactions, claim the receipt it holds there.        *)
(***************************************************************************)
EXTENDS Kernel

CONSTANT Isolation  \* attempt_isolation of the configured execution targets

VARIABLES
    pc,          \* what the control loop does next
    claim,       \* the claim being dispatched
    class,       \* the failure class that goes with it
    listed,      \* the agents revive_eligible_agents has read
    due,         \* the waiting tasks whose next_eligible_at has passed
    watched,     \* the admitted executions that the observer watches
    ticket,      \* the observation in hand: an attempt and what to do with it
    failed       \* the call that ended the control loop or the observer

loopVars == <<pc, claim, class, listed>>
watchVars == <<watched, ticket>>
allVars == <<vars, loopVars, due, watchVars, failed>>

ASSUME LoopAssumption ==
    /\ "UNKNOWN" \in FailureClass
    /\ {"UNKNOWN", "LOST", "TERMINATED"} \subseteq Observable
    /\ Isolation \subseteq BOOLEAN /\ Isolation # {}

NoClaim == <<NoTask, 0>>
Claims == AttemptIds \cup {NoClaim}
NoTicket == [id |-> NoClaim, step |-> "idle"]

\* The steps of a cycle, those of a dispatch, and the end of the thread.
Dispatching == {"resolve", "unavailable", "create", "start", "observed", "confirm",
                "stale", "unresolved", "nack", "history", "ended", "nack ended", "admit"}
Places == {"expire", "promote", "reconcile", "list", "revive", "ensure", "claim", "failed"}
          \cup Dispatching

TicketSteps == {"idle", "lost", "ended", "nack lost", "nack ended"}

\* The calls whose error ends a thread.
Failures == {"no", "revive", "create", "commit", "confirm", "stale", "unresolved", "nack",
             "history", "ended", "observer"}

LoopTypeOK ==
    /\ TypeOK
    /\ pc \in Places
    /\ claim \in Claims
    /\ class \in FailureClass
    /\ listed \in SUBSET Agents
    /\ due \in SUBSET Tasks
    /\ watched \in SUBSET AttemptIds
    /\ ticket \in [id : Claims, step : TicketSteps]
    /\ failed \in Failures

LoopInit ==
    /\ Init
    /\ pc = "expire" /\ claim = NoClaim /\ class = "UNKNOWN" /\ listed = {}
    /\ due = {} /\ watched = {} /\ ticket = NoTicket /\ failed = "no"

----------------------------------------------------------------------------
(* The control loop *)

Goto(place) == pc' = place /\ UNCHANGED <<claim, class, listed>>

\* The dispatch is over, and with it the cycle.
CycleEnds == pc' = "expire" /\ claim' = NoClaim /\ class' = "UNKNOWN" /\ listed' = {}

\* An error leaves cycle(): the runner fails the gate and its thread ends.
Fail(call) ==
    /\ pc' = "failed" /\ claim' = NoClaim /\ class' = "UNKNOWN" /\ listed' = {}
    /\ failed' = call
    /\ UNCHANGED <<vars, due, watchVars>>

\* A transaction of the loop that succeeds leaves the others' state alone.
Quietly == UNCHANGED <<due, watchVars, failed>>

Maintain ==
    /\ Quietly
    /\ \/ pc = "expire" /\ expire_leases(FALSE) /\ Goto("promote")
       \/ pc = "reconcile" /\ reconcile_pool /\ Goto("list")

Promote ==
    /\ pc = "promote"
    /\ promote_retry_wait({t \in due : tasks[t].state = "RETRY_WAIT"})
    /\ due' = {}
    /\ Goto("reconcile")
    /\ UNCHANGED <<watchVars, failed>>

\* revive_eligible_agents reads its candidates first; each revival is then a
\* transaction that checks again, and its refusal ends the loop.
ListRevivals ==
    /\ pc = "list"
    /\ pc' = "revive" /\ listed' = {g \in Agents : agents[g].state = "REVIVING"}
    /\ UNCHANGED <<claim, class, vars>> /\ Quietly

Revive ==
    /\ pc = "revive"
    /\ IF listed = {} THEN Goto("ensure") /\ UNCHANGED vars /\ Quietly
       ELSE \E g \in listed :
               IF Revivable(g)
               THEN /\ revive_agent(g)
                    /\ listed' = listed \ {g} /\ UNCHANGED <<pc, claim, class>> /\ Quietly
               ELSE Fail("revive")

NeedsConsumer ==
    /\ \E t \in Tasks : Claimable(t)
    /\ \A g \in Agents : ~Selectable(g)
    /\ Unborn # {}

\* Mutant: nobody is born for the work that no agent can take.
EnsureNothing == pc = "ensure" /\ Goto("claim") /\ UNCHANGED vars /\ Quietly

Ensure ==
    /\ pc = "ensure"
    /\ IF NeedsConsumer THEN ensure_task_consumers ELSE UNCHANGED vars
    /\ Goto("claim") /\ Quietly

----------------------------------------------------------------------------
(* The dispatcher *)

\* The permit of the gate is taken before the claim.
dispatch_one ==
    LET work == {p \in Tasks \X Agents : /\ Claimable(p[1]) /\ Selectable(p[2])
                                         /\ tasks[p[1]].epoch < MaxClaims}
    IN  /\ pc = "claim"
        /\ IF failed # "no" \/ work = {}
           THEN CycleEnds /\ UNCHANGED vars
           ELSE \E p \in work :
                   /\ claim_selected(p[1], p[2])
                   /\ pc' = "resolve" /\ claim' = <<p[1], tasks[p[1]].epoch + 1>>
                   /\ UNCHANGED <<class, listed>>
        /\ Quietly

\* Authority, then configuration: AuthorityRejected, ConfigurationUnavailable or go.
Resolve_environment ==
    /\ pc = "resolve"
    /\ UNCHANGED vars /\ Quietly
    /\ IF validate_authority(claim) THEN Goto("create") \/ Goto("unavailable")
       ELSE CycleEnds

nack_configuration_unavailable ==
    /\ pc = "unavailable"
    /\ IF validate_authority(claim) THEN report_configuration_unavailable(claim)
       ELSE UNCHANGED vars
    /\ CycleEnds /\ Quietly

\* What the commitment needs beside authority: an agent that can host and a host
\* that no live execution occupies.
Committable(id) ==
    LET g == attempts[id].agent
    IN  /\ agents[g].state # "RETIRED"
        /\ ~HasExecution(id)
        /\ \A other \in AttemptIds :
              ~(/\ IncarnationOf(other) \in {g} \X LiveGenerations(g)
                /\ executions[other].state \in LiveExecution)

\* The commitment.  A claim that lost its authority here is an error of dispatch_claim.
CommitExecution ==
    /\ pc = "create"
    /\ IF ~validate_authority(claim) THEN Fail("create")
       ELSE IF ~Committable(claim) THEN Fail("commit")
       ELSE /\ \E isolated \in Isolation : create_execution(claim, isolated)
            /\ Goto("start") /\ Quietly

\* start_execution is called ...
StartExecution == pc = "start" /\ Goto("observed") /\ UNCHANGED vars /\ Quietly

\* ... and later it returns: a process seen running, one that has ended and was
\* collected, or an error or unclear answer.
StartReturns ==
    /\ pc = "observed"
    /\ UNCHANGED <<vars, claim, listed>> /\ Quietly
    /\ \/ pc' = "confirm" /\ physical[claim] # "none" /\ UNCHANGED class
       \/ pc' = "ended" /\ physical[claim] = "ended" /\ UNCHANGED class
       \/ pc' = "unresolved" /\ class' \in FailureClass

\* ExactRunning: the fenced confirmation, or physical history for a stale claim.
Confirm ==
    /\ pc = "confirm"
    /\ IF ~validate_authority(claim) THEN Goto("stale") /\ UNCHANGED vars /\ Quietly
       ELSE IF executions[claim].state \notin LiveExecution THEN Fail("confirm")
       ELSE confirm_running_and_renew(claim) /\ Goto("admit") /\ Quietly

Admit ==
    /\ pc = "admit"
    /\ watched' = watched \cup {claim}
    /\ CycleEnds /\ UNCHANGED <<vars, due, ticket, failed>>

\* record_physical_outcome(UNKNOWN) of the claim, with the class of the failure or
\* without one; a refusal is an error.
UnknownIsLegal == physical_transition_allowed(executions[claim].state, "UNKNOWN")
RecordUnknown(classed) ==
    record_physical_outcome(claim, "UNKNOWN", classed, FALSE, FALSE) /\ Quietly

StaleStart ==
    /\ pc = "stale"
    /\ IF UnknownIsLegal THEN RecordUnknown(FALSE) /\ CycleEnds ELSE Fail("stale")

persist_unresolved_physical_then_nack ==
    /\ pc = "unresolved"
    /\ IF UnknownIsLegal THEN RecordUnknown(TRUE) /\ Goto("nack") ELSE Fail("unresolved")

\* A fenced NACK without any proof.
PlainNack(id, c) == nack(id, c, FALSE, FALSE, FALSE)

nack_start ==
    /\ pc = "nack"
    /\ IF ~validate_authority(claim) THEN Goto("history") /\ UNCHANGED vars /\ Quietly
       ELSE IF executions[claim].state = "SUCCEEDED" THEN Fail("nack")
       ELSE PlainNack(claim, class) /\ CycleEnds /\ Quietly

NackHistory ==
    /\ pc = "history"
    /\ IF UnknownIsLegal THEN RecordUnknown(TRUE) /\ CycleEnds ELSE Fail("history")

\* persist_physical_end_then_nack, first half: history, not a proof of quiescence.
RecordEnd(id) == record_physical_outcome(id, "TERMINATED", TRUE, FALSE, FALSE)
EndIsLegal(id) == physical_transition_allowed(executions[id].state, "TERMINATED")

CollectedEnd ==
    /\ pc = "ended"
    /\ IF EndIsLegal(claim) THEN RecordEnd(claim) /\ Goto("nack ended") /\ Quietly
       ELSE Fail("ended")

\* ... and second half, fenced; staleness is reported, not an error.
NackEnded ==
    /\ pc = "nack ended"
    /\ IF ~validate_authority(claim) THEN CycleEnds /\ UNCHANGED vars /\ Quietly
       ELSE IF executions[claim].state = "SUCCEEDED" THEN Fail("nack")
       ELSE PlainNack(claim, "UNKNOWN") /\ CycleEnds /\ Quietly

Loop ==
    \/ Maintain \/ Promote \/ ListRevivals \/ Revive \/ Ensure
    \/ dispatch_one \/ Resolve_environment \/ nack_configuration_unavailable
    \/ CommitExecution \/ StartExecution \/ StartReturns
    \/ Confirm \/ Admit \/ StaleStart
    \/ persist_unresolved_physical_then_nack \/ nack_start \/ NackHistory
    \/ CollectedEnd \/ NackEnded

----------------------------------------------------------------------------
(* The physical observer *)

\* observe_execution answers: the process is lost to the adapter, or has ended.
\* Any other answer touches neither the kernel nor the watch.
observe_ticket(id) ==
    /\ ticket = NoTicket /\ id \in watched
    /\ \/ ticket' = [id |-> id, step |-> "lost"]
       \/ physical[id] = "ended" /\ ticket' = [id |-> id, step |-> "ended"]
    /\ UNCHANGED <<vars, loopVars, due, watched, failed>>

Forget == ticket' = NoTicket /\ watched' = watched \ {ticket.id}
ObserverFails ==
    /\ failed' = "observer" /\ ticket' = NoTicket /\ watched' = {}
    /\ UNCHANGED <<vars, loopVars, due>>
ObserverStep == UNCHANGED <<loopVars, due, failed>>

\* A LOST that the history refuses (the execution has ended already) is dropped.
ApplyLost ==
    /\ ticket.step = "lost"
    /\ IF physical_transition_allowed(executions[ticket.id].state, "LOST")
       THEN /\ record_physical_outcome(ticket.id, "LOST", TRUE, FALSE, FALSE)
            /\ ticket' = [ticket EXCEPT !.step = "nack lost"] /\ UNCHANGED watched
       ELSE Forget /\ UNCHANGED vars
    /\ ObserverStep

ApplyEnded ==
    /\ ticket.step = "ended"
    /\ IF EndIsLegal(ticket.id)
       THEN /\ RecordEnd(ticket.id)
            /\ ticket' = [ticket EXCEPT !.step = "nack ended"]
            /\ UNCHANGED watched /\ ObserverStep
       ELSE ObserverFails

nack_current ==
    /\ ticket.step \in {"nack lost", "nack ended"}
    /\ IF ~validate_authority(ticket.id) THEN Forget /\ UNCHANGED vars /\ ObserverStep
       ELSE IF executions[ticket.id].state = "SUCCEEDED" THEN ObserverFails
       ELSE /\ PlainNack(ticket.id, IF ticket.step = "nack lost" THEN "EXECUTION_LOST"
                                    ELSE "UNKNOWN")
            /\ Forget /\ ObserverStep

Apply == ApplyLost \/ ApplyEnded \/ nack_current

----------------------------------------------------------------------------
(* Everybody else *)

\* SchedulerControl: no call of the host can claim quiescence.
HostCalls ==
    \/ \E b \in Batches : submit_batch(b)
    \/ \E n \in 0..MaxCapacity : resize_partition(n)
    \/ reconcile_pool
    \/ \E t \in Tasks : cancel_task(t, FALSE)
    \/ \E b \in Batches : cancel_batch(b)
    \/ \E t \in Tasks : ack_result(t)

\* The worker of a process acknowledges its success.
WorkerAck ==
    \E id \in AttemptIds, q, reusable \in BOOLEAN :
        /\ HasExecution(id) /\ physical[id] # "none"
        /\ Truthful(id, q) /\ ack_success(id, q, reusable)

\* A process starts once start_execution was called for it.
Processes ==
    \E id \in AttemptIds, to \in {"running", "ended"} :
        ~(pc = "start" /\ claim = id) /\ PhysicalStep(id, to)

Others ==
    /\ HostCalls \/ Root \/ WorkerAck \/ Processes
          \/ \E id \in AttemptIds : LeaseElapses(id)
    /\ UNCHANGED <<loopVars, due, watchVars, failed>>

BackoffElapses(t) ==
    /\ tasks[t].state = "RETRY_WAIT" /\ t \notin due
    /\ due' = due \cup {t}
    /\ UNCHANGED <<vars, loopVars, watchVars, failed>>

LoopNext ==
    \/ Loop
    \/ \E id \in AttemptIds : observe_ticket(id)
    \/ Apply
    \/ Others
    \/ \E t \in Tasks : BackoffElapses(t)

\* The threads keep running, an adapter call returns, and time passes.
Fairness ==
    /\ WF_allVars(Loop) /\ WF_allVars(Apply)
    /\ \A t \in Tasks : WF_allVars(BackoffElapses(t))

LoopSpec == LoopInit /\ [][LoopNext]_allVars /\ Fairness

----------------------------------------------------------------------------
(* What is checked *)

\* Every step of the daemon is a step that Kernel allows: the threads keep to
\* the callers' discipline (RUNNING is confirmed of a process that was started,
\* quiescence is asserted of one that ended) that Kernel's safety rests on.
ImplementsKernel == Init /\ [][Next]_vars

\* The sweep reaches every lease that elapses, unless the loop has failed.
ElapsedLeasesAreSwept ==
    \A id \in AttemptIds :
        leases[id] = "ELAPSED" ~> leases[id] # "ELAPSED" \/ pc = "failed"

\* The bounds of the model: no claim is left for the task, or no agent.
Exhausted(t) ==
    \/ tasks[t].epoch = MaxClaims
    \/ Unborn = {} /\ \A g \in Agents : ~Selectable(g)

\* What the comments of commit_start_observation and nack_start say of a claim that
\* went stale during the start: physical history is recorded, and dispatch goes on.
StaleStartIsRecorded == failed \notin {"stale", "unresolved", "history"}

=============================================================================
