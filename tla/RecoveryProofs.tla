--------------------------- MODULE RecoveryProofs ---------------------------
(***************************************************************************)
(* The daemon of ControlLoop, and the daemon of Recovery that crashes and  *)
(* recovers at any point and any number of times, implement Kernel; so     *)
(* what KernelProofs shows of the kernel survives every crash (LInv,       *)
(* RInv), and a claim that lost its authority is history.                  *)
(*                                                                         *)
(* The last part shows what the running daemon does to NInv, the invariant *)
(* of StartupProofs: it is refused nothing it holds the authority for.     *)
(***************************************************************************)
EXTENDS Recovery, KernelProofs

----------------------------------------------------------------------------
(* The running daemon *)

TicketOK(k) ==
    /\ k \in [id : Claims, step : TicketSteps]
    /\ k.step # "idle" => k.id \in AttemptIds

Receipts ==
    /\ pc \in Dispatching => claim \in AttemptIds
    /\ pc = "confirm" => physical[claim] # "none"
    /\ class \in FailureClass
    /\ listed \subseteq Agents /\ due \subseteq Tasks
    /\ watched \subseteq AttemptIds
    /\ TicketOK(ticket)

LInv == IInv /\ Receipts

----------------------------------------------------------------------------
(* Every step is a step of Kernel *)

\* The classes that the daemon gives are among those that Kernel's observers give.
LEMMA ClassesAreReported ==
    /\ \A classed \in BOOLEAN : classed \in ReportedClass("UNKNOWN")
    /\ \A state \in {"LOST", "FAILED", "TERMINATED"} : TRUE \in ReportedClass(state)
    /\ \A state \in {"RUNNING", "UNKNOWN", "TERMINATED"} :
          (state # "RUNNING") \in ReportedClass(state)
    /\ \A state \in {"SUCCEEDED", "FAILED", "TERMINATED"} :
          (state # "SUCCEEDED") \in ReportedClass(state)
<1>1. \A classed \in BOOLEAN : classed \in ReportedClass("UNKNOWN")
    BY Zenon DEF ReportedClass
<1>2. \A state \in {"LOST", "FAILED", "TERMINATED"} : TRUE \in ReportedClass(state)
    BY Zenon DEF ReportedClass
<1>3. \A state \in {"RUNNING", "UNKNOWN", "TERMINATED"} :
          (state # "RUNNING") \in ReportedClass(state)
    BY Zenon DEF ReportedClass
<1>4. \A state \in {"SUCCEEDED", "FAILED", "TERMINATED"} :
          (state # "SUCCEEDED") \in ReportedClass(state)
    BY Zenon DEF ReportedClass
<1> QED
    BY Zenon, <1>1, <1>2, <1>3, <1>4

\* A history record without proof is one of Kernel's observations.
LEMMA RecordIsObserve ==
    ASSUME NEW id \in AttemptIds, NEW state \in {"UNKNOWN", "LOST", "TERMINATED"},
           NEW classed \in ReportedClass(state),
           record_physical_outcome(id, state, classed, FALSE, FALSE)
    PROVE  Next
<1> USE Zenon
<1>1. state \in Observable
    BY LoopAssumption
<1>2. Truthful(id, FALSE)
    BY DEF Truthful
<1> QED
    BY <1>1, <1>2 DEF Next, Observe

\* So is a NACK without proof.
LEMMA NackIsObserve ==
    ASSUME NEW id \in AttemptIds, NEW c \in FailureClass, PlainNack(id, c)
    PROVE  Next
<1> USE Zenon
<1>1. Truthful(id, FALSE)
    BY DEF Truthful
<1> QED
    BY <1>1 DEF Next, Observe, PlainNack

\* The maintenance of a cycle consists of kernel operations.
LEMMA MaintenanceIsKernel ==
    ASSUME LInv, Maintain \/ Promote \/ ListRevivals \/ Revive \/ Ensure
    PROVE  Next \/ UNCHANGED vars
<1> USE Zenon
<1>1. CASE Maintain
    <2>1. expire_leases(FALSE) \/ reconcile_pool
        BY <1>1 DEF Maintain
    <2> QED
        BY <2>1 DEF Next, Clock, Host
<1>2. CASE Promote
    <2>1. {t \in due : tasks[t].state = "RETRY_WAIT"} \in SUBSET Tasks
        BY DEF LInv, Receipts
    <2> QED
        BY <1>2, <2>1 DEF Promote, Next, Clock
<1>3. CASE ListRevivals
    BY <1>3 DEF ListRevivals
<1>4. CASE Revive
    BY <1>4 DEF Revive, Fail, LInv, Receipts, Next, Dispatch
<1>5. CASE Ensure
    BY <1>5 DEF Ensure, Next, Dispatch
<1> QED
    BY <1>1, <1>2, <1>3, <1>4, <1>5

\* So does the dispatch of a claim, up to the start of its process ...
LEMMA CommitmentIsKernel ==
    ASSUME LInv,
           \/ dispatch_one \/ Resolve_environment \/ nack_configuration_unavailable
           \/ CommitExecution \/ StartExecution \/ StartReturns
    PROVE  Next \/ UNCHANGED vars
<1> USE Zenon
<1>1. CASE dispatch_one
    <2>1. CASE UNCHANGED vars
        BY <2>1
    <2>2. ASSUME NEW t \in Tasks, NEW g \in Agents, Claimable(t), Selectable(g),
                 claim_selected(t, g)
          PROVE  Next
        BY <2>2 DEF Next, Dispatch, claim_next_available
    <2> QED
        BY <1>1, <2>1, <2>2 DEF dispatch_one
<1>2. CASE Resolve_environment
    BY <1>2 DEF Resolve_environment
<1>3. CASE nack_configuration_unavailable
    BY <1>3 DEF nack_configuration_unavailable, LInv, Receipts, Dispatching, Next, Dispatch
<1>4. CASE CommitExecution
    <2>1. claim \in AttemptIds
        BY <1>4 DEF CommitExecution, LInv, Receipts, Dispatching
    <2>2. ASSUME NEW isolated \in Isolation, create_execution(claim, isolated) PROVE Next
        <3>1. isolated \in BOOLEAN
            BY LoopAssumption
        <3> QED
            BY <2>1, <2>2, <3>1 DEF Next, Dispatch
    <2> QED
        BY <1>4, <2>2 DEF CommitExecution, Fail
<1>5. CASE StartExecution
    BY <1>5 DEF StartExecution
<1>6. CASE StartReturns
    BY <1>6 DEF StartReturns
<1> QED
    BY <1>1, <1>2, <1>3, <1>4, <1>5, <1>6

\* ... and from its answer to the end of the cycle.
LEMMA AnswerIsKernel ==
    ASSUME LInv,
           \/ Confirm \/ Admit \/ StaleStart \/ persist_unresolved_physical_then_nack
           \/ nack_start \/ NackHistory \/ CollectedEnd \/ NackEnded
    PROVE  Next \/ UNCHANGED vars
<1> USE Zenon
<1>0. claim \in AttemptIds
    BY DEF Confirm, Admit, StaleStart, persist_unresolved_physical_then_nack, nack_start,
           NackHistory, CollectedEnd, NackEnded, LInv, Receipts, Dispatching
<1>1. CASE Confirm
    BY <1>0, <1>1 DEF Confirm, Fail, LInv, Receipts, Next, Dispatch
<1>2. CASE Admit
    BY <1>2 DEF Admit
<1>3. CASE StaleStart \/ persist_unresolved_physical_then_nack \/ NackHistory
    <2>1. \/ UNCHANGED vars
          \/ \E classed \in BOOLEAN : record_physical_outcome(claim, "UNKNOWN", classed, FALSE, FALSE)
        BY <1>3 DEF StaleStart, persist_unresolved_physical_then_nack, NackHistory,
                    RecordUnknown, Fail
    <2> QED
        BY <1>0, <2>1, RecordIsObserve, ClassesAreReported
<1>4. CASE CollectedEnd
    <2>1. UNCHANGED vars \/ record_physical_outcome(claim, "TERMINATED", TRUE, FALSE, FALSE)
        BY <1>4 DEF CollectedEnd, RecordEnd, Fail
    <2> QED
        BY <1>0, <2>1, RecordIsObserve, ClassesAreReported
<1>5. CASE nack_start \/ NackEnded
    <2>1. class \in FailureClass /\ "UNKNOWN" \in FailureClass
        BY LoopAssumption DEF LInv, Receipts
    <2>2. UNCHANGED vars \/ \E c \in FailureClass : PlainNack(claim, c)
        BY <1>5, <2>1 DEF nack_start, NackEnded, Fail
    <2> QED
        BY <1>0, <2>2, NackIsObserve
<1> QED
    BY <1>1, <1>2, <1>3, <1>4, <1>5

\* The observer's consequences are observations too.
LEMMA ApplyIsKernel ==
    ASSUME LInv, Apply
    PROVE  Next \/ UNCHANGED vars
<1> USE Zenon
<1>0. ticket.id \in AttemptIds
    BY DEF Apply, ApplyLost, ApplyEnded, nack_current, LInv, Receipts, TicketOK
<1>1. CASE ApplyLost
    BY <1>0, <1>1, RecordIsObserve, ClassesAreReported DEF ApplyLost
<1>2. CASE ApplyEnded
    BY <1>0, <1>2, RecordIsObserve, ClassesAreReported DEF ApplyEnded, RecordEnd, ObserverFails
<1>3. CASE nack_current
    <2>1. "EXECUTION_LOST" \in FailureClass /\ "UNKNOWN" \in FailureClass
        BY LoopAssumption, KernelAssumption
    <2>2. UNCHANGED vars \/ \E c \in FailureClass : PlainNack(ticket.id, c)
        BY <1>3, <2>1 DEF nack_current, ObserverFails
    <2> QED
        BY <1>0, <2>2, NackIsObserve
<1> QED
    BY <1>1, <1>2, <1>3 DEF Apply

\* And what everybody else does.
LEMMA OthersAreKernel ==
    ASSUME LInv, Others
    PROVE  Next \/ UNCHANGED vars
<1> USE Zenon
<1>1. CASE HostCalls
    <2>1. ASSUME NEW t \in Tasks, cancel_task(t, FALSE) PROVE Next
        BY <2>1 DEF Next, Host, Truthful
    <2> QED
        BY <1>1, <2>1 DEF HostCalls, Next, Host
<1>2. CASE Root
    BY <1>2 DEF Next
<1>3. CASE WorkerAck
    BY <1>3 DEF WorkerAck, Next, Observe
<1>4. CASE Processes
    BY <1>4 DEF Processes, Next, Physical
<1>5. CASE \E id \in AttemptIds : LeaseElapses(id)
    BY <1>5 DEF Next, Clock
<1> QED
    BY <1>1, <1>2, <1>3, <1>4, <1>5 DEF Others

\* Every step of the daemon is a kernel step or leaves the kernel alone.
LEMMA StepIsKernel ==
    ASSUME LInv, [LoopNext]_allVars
    PROVE  [Next]_vars
<1> USE Zenon
<1>1. CASE Loop
    BY <1>1, MaintenanceIsKernel, CommitmentIsKernel, AnswerIsKernel DEF Loop
<1>2. CASE Apply
    BY <1>2, ApplyIsKernel
<1>3. CASE Others
    BY <1>3, OthersAreKernel
<1>4. CASE \E id \in AttemptIds : observe_ticket(id)
    BY <1>4 DEF observe_ticket
<1>5. CASE \E t \in Tasks : BackoffElapses(t)
    BY <1>5 DEF BackoffElapses
<1>6. CASE UNCHANGED allVars
    BY <1>6 DEF allVars
<1> QED
    BY <1>1, <1>2, <1>3, <1>4, <1>5, <1>6 DEF LoopNext

----------------------------------------------------------------------------
(* The threads' knowledge of their receipts is stable *)

\* A process that was started stays started, whatever the others do.
LEMMA StartedStaysStarted ==
    ASSUME LInv, Apply \/ Others, NEW id \in AttemptIds, physical[id] # "none"
    PROVE  physical'[id] # "none"
<1> USE Zenon
<1>1. CASE UNCHANGED vars
    BY <1>1 DEF vars
<1>2. CASE Apply
    <2>1. UNCHANGED physical
        BY <1>2 DEF Apply, ApplyLost, ApplyEnded, nack_current, RecordEnd, PlainNack,
                    record_physical_outcome, nack, FailureConsequence, ObserverFails, vars
    <2> QED
        BY SMTT(40), <2>1
<1>3. CASE Others
    <2>1. CASE HostCalls
        BY <2>1 DEF HostCalls, submit_batch, resize_partition, reconcile_pool, cancel_task,
                    cancel_batch, ack_result
    <2>2. CASE Root
        BY <2>2 DEF Root, resolve_retry, release_cancelled_writer, resolve_cancel_task
    <2>3. CASE WorkerAck
        BY SMT, <2>3 DEF WorkerAck, ack_success
    <2>4. CASE Processes
        BY <2>4 DEF Processes, PhysicalStep, LInv, IInv, TypeOK
    <2>5. CASE \E i \in AttemptIds : LeaseElapses(i)
        BY <2>5 DEF LeaseElapses
    <2> QED
        BY SMTT(40), <1>3, <2>1, <2>2, <2>3, <2>4, <2>5 DEF Others
<1> QED
    BY <1>2, <1>3

\* A step that leaves the receipts of the loop and of the observer alone.
LEMMA ReceiptsKept ==
    ASSUME LInv, Apply \/ Others, UNCHANGED loopVars,
           due' \subseteq Tasks, watched' \subseteq AttemptIds,
           TicketOK(ticket')
    PROVE  Receipts'
<1> USE Zenon
<1>1. pc = "confirm" => claim \in AttemptIds /\ physical[claim] # "none"
    BY DEF LInv, Receipts, Dispatching
<1>2. pc' = "confirm" => physical'[claim'] # "none"
    BY <1>1, StartedStaysStarted DEF loopVars
<1> QED
    BY <1>2 DEF LInv, Receipts, loopVars, Dispatching

\* A step of the loop that ends the cycle or the thread, or stays out of a dispatch.
LEMMA LoopOutside ==
    ASSUME LInv, pc' \notin Dispatching,
           class' \in FailureClass, listed' \subseteq Agents, due' \subseteq Tasks,
           UNCHANGED watchVars
    PROVE  Receipts'
BY Zenon DEF LInv, Receipts, watchVars, Dispatching

\* A step of the loop within the dispatch of one claim.
LEMMA LoopInside ==
    ASSUME LInv, claim' \in AttemptIds, class' \in FailureClass,
           UNCHANGED <<listed, due, watchVars>>,
           pc' = "confirm" => physical'[claim'] # "none"
    PROVE  Receipts'
BY Zenon DEF LInv, Receipts, watchVars

\* Maintenance, dispatch and answers keep the receipts.
LEMMA LoopKeepsReceipts ==
    ASSUME LInv, Loop
    PROVE  Receipts'
<1> USE Zenon
<1> USE LoopAssumption
<1>0. /\ class \in FailureClass /\ "UNKNOWN" \in FailureClass
      /\ listed \subseteq Agents /\ due \subseteq Tasks
      /\ pc \in Dispatching => claim \in AttemptIds
    BY DEF LInv, Receipts
<1>1. ASSUME CycleEnds, Quietly PROVE Receipts'
    BY <1>0, <1>1, LoopOutside DEF CycleEnds, Quietly, Dispatching
<1>2. ASSUME NEW call, Fail(call) PROVE Receipts'
    BY <1>0, <1>2, LoopOutside DEF Fail, Dispatching
<1>3. ASSUME NEW place, Goto(place), Quietly, place \notin Dispatching PROVE Receipts'
    BY <1>0, <1>3, LoopOutside DEF Goto, Quietly
<1>4. ASSUME NEW place, Goto(place), Quietly, pc \in Dispatching, place # "confirm"
      PROVE Receipts'
    BY <1>0, <1>4, LoopInside DEF Goto, Quietly
<1>5. CASE Maintain
    BY ZenonT(60), <1>3, <1>5 DEF Maintain, Dispatching
<1>6. CASE Promote
    BY <1>0, <1>6, LoopOutside DEF Promote, Goto, Dispatching
<1>7. CASE ListRevivals
    BY <1>0, <1>7, LoopOutside DEF ListRevivals, Quietly, Dispatching
<1>8. CASE Revive
    <2>1. CASE listed = {}
        BY <1>3, <1>8, <2>1 DEF Revive, Dispatching
    <2>2. CASE listed # {}
        <3>1. PICK g \in listed : IF Revivable(g)
                  THEN /\ revive_agent(g) /\ listed' = listed \ {g}
                       /\ UNCHANGED <<pc, claim, class>> /\ Quietly
                  ELSE Fail("revive")
            BY <1>8, <2>2 DEF Revive
        <3>2. CASE Revivable(g)
            <4>1. pc' \notin Dispatching
                BY <1>8, <3>1, <3>2 DEF Revive, Dispatching
            <4> QED
                BY <1>0, <3>1, <3>2, <4>1, LoopOutside DEF Quietly
        <3> QED
            BY <1>2, <3>1, <3>2
    <2> QED
        BY <2>1, <2>2
<1>9. CASE Ensure
    BY <1>3, <1>9 DEF Ensure, Dispatching
<1>10. CASE dispatch_one
    <2>1. CASE CycleEnds
        BY SMTT(40), <1>1, <1>10, <2>1 DEF dispatch_one
    <2>2. CASE ~CycleEnds
        <3>1. PICK p \in Tasks \X Agents :
                 /\ tasks[p[1]].epoch < MaxClaims
                 /\ pc' = "resolve" /\ claim' = <<p[1], tasks[p[1]].epoch + 1>>
                 /\ UNCHANGED <<class, listed>>
            BY <1>10, <2>2 DEF dispatch_one
        <3>2. tasks[p[1]].epoch \in 0..MaxClaims
            BY <3>1 DEF LInv, IInv, TypeOK, TaskRow
        <3>3. claim' \in AttemptIds
            BY SMT, <3>1, <3>2, KernelAssumption DEF AttemptIds
        <3> QED
            BY SMTT(40), <1>0, <1>10, <3>1, <3>3, LoopInside DEF dispatch_one, Quietly
    <2> QED
        BY <2>1, <2>2
<1>11. CASE Resolve_environment
    BY <1>1, <1>4, <1>11 DEF Resolve_environment, Dispatching
<1>12. CASE nack_configuration_unavailable
    BY <1>1, <1>12 DEF nack_configuration_unavailable
<1>13. CASE CommitExecution
    BY <1>2, <1>4, <1>13 DEF CommitExecution, Dispatching
<1>14. CASE StartExecution
    BY SMTT(40), <1>4, <1>14 DEF StartExecution, Dispatching
<1>15. CASE StartReturns
    <2>1. claim' \in AttemptIds /\ class' \in FailureClass
        BY <1>0, <1>15 DEF StartReturns, Dispatching
    <2>2. pc' = "confirm" => physical'[claim'] # "none"
        BY <1>15 DEF StartReturns, vars
    <2> QED
        BY SMT, <1>15, <2>1, <2>2, LoopInside DEF StartReturns, Quietly
<1>16. CASE Confirm
    BY SMT, <1>2, <1>4, <1>16 DEF Confirm, Dispatching
<1>17. CASE Admit
    <2>1. claim \in AttemptIds
        BY <1>0, <1>17 DEF Admit, Dispatching
    <2> QED
        BY SMT, <1>0, <1>17, <2>1 DEF Admit, CycleEnds, LInv, Receipts, Dispatching
<1>18. CASE StaleStart \/ NackHistory
    BY <1>1, <1>2, <1>18 DEF StaleStart, NackHistory, RecordUnknown
<1>19. CASE persist_unresolved_physical_then_nack
    BY ZenonT(60), <1>2, <1>4, <1>19 DEF persist_unresolved_physical_then_nack, RecordUnknown, Dispatching
<1>20. CASE nack_start
    BY SMTT(40), <1>1, <1>2, <1>4, <1>20 DEF nack_start, Dispatching
<1>21. CASE CollectedEnd
    BY ZenonT(60), <1>2, <1>4, <1>21 DEF CollectedEnd, Dispatching
<1>22. CASE NackEnded
    BY <1>1, <1>2, <1>22 DEF NackEnded
<1> QED
    BY SMTT(40), <1>5, <1>6, <1>7, <1>8, <1>9, <1>10, <1>11, <1>12, <1>13, <1>14, <1>15, <1>16,
       <1>17, <1>18, <1>19, <1>20, <1>21, <1>22 DEF Loop

\* So does the observer, and everybody else.
LEMMA OthersKeepReceipts ==
    ASSUME LInv, [LoopNext]_allVars, ~Loop
    PROVE  Receipts'
<1> USE Zenon
<1>0. /\ due \subseteq Tasks /\ watched \subseteq AttemptIds
      /\ TicketOK(ticket) /\ TicketOK(NoTicket)
    BY DEF LInv, Receipts, TicketOK, NoTicket, Claims, TicketSteps
<1>1. CASE Apply
    <2>1. UNCHANGED <<loopVars, due>>
        BY <1>1 DEF Apply, ApplyLost, ApplyEnded, nack_current, ObserverStep, ObserverFails
    <2>2. watched' \subseteq AttemptIds
        BY <1>0, <1>1 DEF Apply, ApplyLost, ApplyEnded, nack_current, Forget, ObserverFails
    <2>3. ticket.step # "idle"
        BY <1>1 DEF Apply, ApplyLost, ApplyEnded, nack_current
    <2>4. ticket' = NoTicket \/ \E step \in TicketSteps : ticket' = [ticket EXCEPT !.step = step]
        BY <1>1 DEF Apply, ApplyLost, ApplyEnded, nack_current, Forget, ObserverFails,
                    TicketSteps
    <2>5. ASSUME NEW step \in TicketSteps PROVE TicketOK([ticket EXCEPT !.step = step])
        BY <1>0, <2>3 DEF TicketOK
    <2>6. TicketOK(ticket')
        BY <1>0, <2>4, <2>5
    <2> QED
        BY SMT, <1>0, <1>1, <2>1, <2>2, <2>6, ReceiptsKept
<1>2. CASE Others
    BY <1>0, <1>2, ReceiptsKept DEF Others, watchVars
<1>3. CASE \E id \in AttemptIds : observe_ticket(id)
    <2>1. PICK id \in AttemptIds : observe_ticket(id)
        BY <1>3
    <2>2. ASSUME NEW step \in TicketSteps PROVE TicketOK([id |-> id, step |-> step])
        BY DEF TicketOK, Claims
    <2>3. \E step \in TicketSteps : ticket' = [id |-> id, step |-> step]
        BY <2>1 DEF observe_ticket, TicketSteps
    <2>4. TicketOK(ticket')
        BY SMTT(40), <2>2, <2>3
    <2> QED
        BY <2>1, <2>4 DEF observe_ticket, LInv, Receipts, loopVars, vars
<1>4. CASE \E t \in Tasks : BackoffElapses(t)
    BY <1>4 DEF BackoffElapses, LInv, Receipts, loopVars, watchVars, vars
<1>5. CASE UNCHANGED allVars
    BY <1>5 DEF allVars, LInv, Receipts, loopVars, watchVars, vars
<1> QED
    BY SMTT(40), <1>1, <1>2, <1>3, <1>4, <1>5 DEF LoopNext

----------------------------------------------------------------------------
(* The theorems *)

\* The daemon keeps the kernel's invariant, and its threads hold only receipts of
\* attempts that exist.
THEOREM LoopInvariant == LoopSpec => []LInv
<1>1. LoopInit => LInv
    <2> SUFFICES ASSUME LoopInit PROVE LInv
        BY Zenon
    <2>1. IInv
        BY Zenon, InitInvariant DEF LoopInit
    <2>2. Receipts
        BY Zenon, LoopAssumption DEF LoopInit, Receipts, Dispatching, TicketOK, NoTicket, Claims,
                              TicketSteps
    <2> QED
        BY Zenon, <2>1, <2>2 DEF LInv
<1>2. LInv /\ [LoopNext]_allVars => LInv'
    <2> SUFFICES ASSUME LInv, [LoopNext]_allVars PROVE LInv'
        BY Zenon
    <2>1. IInv'
        BY Zenon, StepIsKernel, NextInvariant DEF LInv
    <2>2. Receipts'
        BY Zenon, LoopKeepsReceipts, OthersKeepReceipts
    <2> QED
        BY Zenon, <2>1, <2>2 DEF LInv
<1> QED
    BY <1>1, <1>2, PTL DEF LoopSpec

\* The control loop, the observer, host control and Root use the kernel as Kernel
\* allows its callers: every behaviour of the daemon is one of Kernel.
THEOREM DaemonImplementsKernel == LoopSpec => ImplementsKernel
<1>1. LoopInit => Init
    BY Zenon DEF LoopInit
<1>2. LInv /\ [LoopNext]_allVars => [Next]_vars
    BY Zenon, StepIsKernel
<1> QED
    BY <1>1, <1>2, LoopInvariant, PTL DEF LoopSpec, ImplementsKernel

\* In the running daemon no two processes of a write task are ever at work outside
\* an isolated workspace.
THEOREM DaemonExcludesWriters == LoopSpec => []WriterExclusion
<1>1. ImplementsKernel => Spec
    BY Zenon DEF ImplementsKernel, Spec
<1> QED
    BY <1>1, DaemonImplementsKernel, WritersExcluded, PTL

----------------------------------------------------------------------------
(* The daemon that crashes *)

\* What the startup read stays true while it works on it: the candidate in hand is
\* an attempt, one to be confirmed was started, and quiescence that was read is the
\* quiescence of a process that has ended.  A dispatch that collects an end found one.
BootReceipts ==
    /\ boot # "up" => pc = "expire"
    /\ pc = "ended" => physical[claim] = "ended"
    /\ boot \in InHand => hand \in AttemptIds
    /\ boot = "confirm" => physical[hand] # "none"
    /\ why \in FailureClass
    /\ DOMAIN todo \subseteq AttemptIds
    /\ \A id \in DOMAIN todo : /\ todo[id].quiescent \in BOOLEAN
                               /\ todo[id].quiescent => physical[id] = "ended"

RInv == LInv /\ BootReceipts

----------------------------------------------------------------------------
(* Processes only move forward *)

Onwards == \A id \in AttemptIds : /\ physical[id] # "none" => physical'[id] # "none"
                                  /\ physical[id] = "ended" => physical'[id] = "ended"
                                  /\ results[id[1]] # "NONE" => results'[id[1]] # "NONE"

\* No kernel transaction touches a process, a process that started or ended never
\* takes it back, and no Result is withdrawn.
LEMMA ProcessesMoveOn ==
    ASSUME TypeOK, [Next]_vars
    PROVE  Onwards
<1> USE Zenon
<1>0. \A id \in AttemptIds : id[1] \in Tasks
    BY AttemptIdFacts
<1>1. CASE UNCHANGED <<physical, results>>
    BY <1>1 DEF Onwards
<1>2. CASE Physical
    <2>1. results' = results
        BY <1>2 DEF Physical, PhysicalStep
    <2> QED
        BY <1>2, <2>1 DEF Physical, PhysicalStep, Onwards, TypeOK
<1>a. ASSUME physical' = physical,
             \E t \in Tasks, r \in {"AVAILABLE", "ACKED"} : results' = [results EXCEPT ![t] = r]
      PROVE  Onwards
    <2>1. \A u \in Tasks : results[u] # "NONE" => results'[u] # "NONE"
        BY <1>a DEF TypeOK
    <2> QED
        BY <1>0, <1>a, <2>1 DEF Onwards
<1>3. CASE Host
    <2>1. ASSUME NEW t \in Tasks, ack_result(t) PROVE Onwards
        BY <1>a, <2>1 DEF ack_result
    <2> QED
        BY <1>1, <1>3, <2>1 DEF Host, submit_batch, resize_partition, reconcile_pool, cancel_task,
                                cancel_batch
<1>4. CASE Root
    BY <1>1, <1>4 DEF Root, resolve_retry, release_cancelled_writer, resolve_cancel_task
<1>5. CASE Dispatch
    BY <1>1, <1>5 DEF Dispatch, claim_next_available, claim_selected, ensure_task_consumers,
                        revive_agent, create_execution, confirm_running_and_renew,
                        abort_before_physical_start, report_configuration_unavailable, nack,
                        nack_preserving_physical_history, FailureConsequence
<1>6. CASE Observe
    <2>1. ASSUME NEW id \in AttemptIds, NEW state, NEW classed, NEW terminal, NEW q,
                 \/ record_physical_outcome(id, state, classed, terminal, q)
                 \/ record_pending_physical_terminal(id, state, classed, q)
          PROVE  UNCHANGED <<physical, results>>
        BY <2>1 DEF record_physical_outcome, record_pending_physical_terminal
    <2>2. ASSUME NEW id \in AttemptIds, NEW q, NEW reusable, ack_success(id, q, reusable)
          PROVE  Onwards
        <3>1. /\ physical' = physical
              /\ results' = results \/ results' = [results EXCEPT ![id[1]] = "AVAILABLE"]
            BY <2>2 DEF ack_success
        <3> QED
            BY <1>0, <1>1, <1>a, <3>1
    <2>3. ASSUME NEW id \in AttemptIds, NEW c, NEW terminal, NEW q, NEW reusable,
                 \/ nack(id, c, terminal, q, reusable)
                 \/ nack_preserving_physical_history(id, c)
          PROVE  UNCHANGED <<physical, results>>
        BY <2>3 DEF nack, nack_preserving_physical_history, FailureConsequence
    <2> QED
        BY <1>1, <1>6, <2>1, <2>2, <2>3 DEF Observe
<1>7. CASE Clock
    BY <1>1, <1>7 DEF Clock, expire_leases, promote_retry_wait, LeaseElapses
<1>8. CASE UNCHANGED vars
    BY <1>1, <1>8 DEF vars
<1> QED
    BY <1>2, <1>3, <1>4, <1>5, <1>6, <1>7, <1>8 DEF Next

----------------------------------------------------------------------------
(* Every step is a step of Kernel *)

\* Replaying a persisted consequence asserts no more than the evidence proved.
LEMMA ReplayIsKernel ==
    ASSUME RInv, NEW id \in AttemptIds, replay_persisted_terminal_consequence(id)
    PROVE  Next \/ UNCHANGED vars
<1> USE Zenon
<1>1. id \in DOMAIN todo
    BY DEF replay_persisted_terminal_consequence
<1>2. todo[id].quiescent \in BOOLEAN /\ Truthful(id, todo[id].quiescent)
    BY <1>1 DEF RInv, BootReceipts, Truthful
<1>3. CASE replay_success_consequence(id)
    <2>1. PICK reusable \in BOOLEAN : ack_success(id, todo[id].quiescent, reusable)
        BY <1>3 DEF replay_success_consequence
    <2> QED
        BY <1>2, <2>1 DEF Next, Observe
<1>4. CASE replay_failure_consequence(id)
    <2>1. PICK c \in FailureClass, reusable \in BOOLEAN :
             nack(id, c, TRUE, todo[id].quiescent, reusable)
        BY <1>4 DEF replay_failure_consequence
    <2>2. TRUE \in BOOLEAN
        OBVIOUS
    <2> QED
        BY <1>2, <2>1, <2>2 DEF Next, Observe
<1> QED
    BY <1>3, <1>4 DEF replay_persisted_terminal_consequence, Refuse

\* What is written down of the candidate in hand claims no proof.
LEMMA ReconciliationIsKernel ==
    ASSUME RInv,
           \/ \E id \in AttemptIds : reconcile_one_execution(id)
           \/ admit_or_history \/ RunningHistory \/ PhysicalEnd
           \/ apply_nack_handle \/ apply_nack
    PROVE  Next \/ UNCHANGED vars
<1> USE Zenon
<1>0. boot \in InHand => hand \in AttemptIds
    BY DEF RInv, BootReceipts
<1>1. ASSUME NEW state \in {"RUNNING", "UNKNOWN", "TERMINATED"}, NEW place, boot \in InHand,
             Record(state, place)
      PROVE  Next \/ UNCHANGED vars
    <2>1. state \in Observable /\ FALSE \in BOOLEAN /\ Truthful(hand, FALSE)
        BY LoopAssumption, RecoveryAssumption DEF Truthful
    <2> QED
        BY <1>0, <1>1, <2>1, ClassesAreReported DEF Record, Refuse, Next, Observe
<1>2. CASE \E id \in AttemptIds : reconcile_one_execution(id)
    BY <1>2 DEF reconcile_one_execution, close_lost, reconcile_active_physical, Take
<1>3. CASE admit_or_history
    <2>1. hand \in AttemptIds /\ physical[hand] # "none"
        BY <1>0, <1>3 DEF admit_or_history, RInv, BootReceipts, InHand
    <2> QED
        BY <1>3, <2>1 DEF admit_or_history, Refuse, Next, Dispatch
<1>4. CASE RunningHistory \/ PhysicalEnd \/ apply_nack_handle
    <2>1. boot \in InHand
        BY <1>4 DEF RunningHistory, PhysicalEnd, apply_nack_handle, InHand
    <2> QED
        BY <1>1, <1>4, <2>1 DEF RunningHistory, PhysicalEnd, apply_nack_handle
<1>5. CASE apply_nack
    <2>1. hand \in AttemptIds /\ why \in FailureClass /\ "UNKNOWN" \in FailureClass
        BY <1>0, <1>5, LoopAssumption DEF apply_nack, RInv, BootReceipts, InHand
    <2>2. UNCHANGED vars \/ \E c \in FailureClass : PlainNack(hand, c)
        BY <1>5, <2>1 DEF apply_nack, Refuse
    <2> QED
        BY <2>1, <2>2, NackIsObserve
<1> QED
    BY <1>2, <1>3, <1>4, <1>5

\* The maintenance of the startup, its passes and its activation.
LEMMA MaintenanceAtBootIsKernel ==
    ASSUME RInv,
           \/ Barrier \/ ReadCandidates \/ PassEnds
           \/ Sweep \/ ListForRevival \/ ReviveListed \/ assert_ready_invariant
           \/ \E id \in AttemptIds : activation_sweep(id)
           \/ ActivationEnds
    PROVE  Next \/ UNCHANGED vars
<1> USE Zenon
<1>1. CASE Barrier
    BY <1>1 DEF Barrier, Next, Clock
<1>2. CASE ReadCandidates \/ PassEnds \/ ListForRevival \/ assert_ready_invariant \/ ActivationEnds
    BY <1>2 DEF ReadCandidates, PassEnds, ListForRevival, assert_ready_invariant,
                       ActivationEnds, Refuse
<1>3. CASE Sweep
    <2>1. {t \in due : tasks[t].state = "RETRY_WAIT"} \in SUBSET Tasks
        BY DEF RInv, LInv, Receipts
    <2>2. FALSE \in BOOLEAN
        OBVIOUS
    <2> QED
        BY <1>3, <2>1, <2>2 DEF Sweep, Next, Clock, Host
<1>4. CASE ReviveListed
    <2>1. listed \subseteq Agents
        BY DEF RInv, LInv, Receipts
    <2>2. UNCHANGED vars \/ \E g \in listed : revive_agent(g)
        BY <1>4 DEF ReviveListed, Refuse
    <2> QED
        BY <2>1, <2>2 DEF Next, Dispatch
<1>5. CASE \E id \in AttemptIds : activation_sweep(id)
    BY <1>5 DEF activation_sweep, Next, Observe
<1> QED
    BY <1>1, <1>2, <1>3, <1>4, <1>5

\* Every step of the daemon, its death and its recovery included, is a kernel step or
\* leaves the kernel alone.
LEMMA RecStepIsKernel ==
    ASSUME RInv, [RecNext]_recVars
    PROVE  [Next]_vars
<1> USE Zenon
<1>1. CASE LoopNext
    BY <1>1, StepIsKernel DEF RInv
<1>2. CASE World
    <2>1. CASE Processes
        BY <2>1 DEF Processes, Next, Physical
    <2>2. CASE \E id \in AttemptIds : LeaseElapses(id)
        BY <2>2 DEF Next, Clock
    <2>3. CASE \E t \in Tasks : BackoffElapses(t)
        BY <2>3 DEF BackoffElapses
    <2> QED
        BY <1>2, <2>1, <2>2, <2>3 DEF World
<1>3. CASE Apply
    BY <1>3, ApplyIsKernel DEF RInv
<1>4. CASE Startup
    BY <1>4, ReplayIsKernel, ReconciliationIsKernel, MaintenanceAtBootIsKernel DEF Startup
<1>5. CASE Crash
    BY <1>5 DEF Crash
<1>6. CASE CrashAfterEvidence
    <2>1. claim \in AttemptIds /\ physical[claim] = "ended"
        BY <1>6 DEF CrashAfterEvidence, RInv, BootReceipts, LInv, Receipts, Dispatching
    <2>2. PICK state \in EndedExecution, q \in BOOLEAN :
             record_pending_physical_terminal(claim, state, state # "SUCCEEDED", q)
        BY <1>6 DEF CrashAfterEvidence
    <2>3. /\ state \in Observable /\ Truthful(claim, q)
          /\ (state # "SUCCEEDED") \in ReportedClass(state)
        BY <2>1, RecoveryAssumption, ClassesAreReported DEF Truthful, EndedExecution
    <2> QED
        BY <2>1, <2>2, <2>3 DEF Next, Observe
<1>7. CASE UNCHANGED recVars
    BY <1>7 DEF recVars, allVars
<1> QED
    BY <1>1, <1>2, <1>3, <1>4, <1>5, <1>6, <1>7 DEF RecNext

----------------------------------------------------------------------------
(* What the threads and the startup hold stays true *)

\* A dead process holds nothing.
LEMMA DeathKeeps ==
    ASSUME RInv, NEW reason, Dead(reason)
    PROVE  Receipts' /\ BootReceipts'
<1> USE Zenon
<1>1. Receipts'
    BY LoopAssumption DEF RInv, LInv, Receipts, Dead, Dispatching, TicketOK, NoTicket, Claims,
                          TicketSteps
<1>2. BootReceipts'
    BY LoopAssumption DEF Dead, BootReceipts, InHand, Nobody
<1> QED
    BY <1>1, <1>2

\* The startup touches at most what the threads watch, list and wait for.
LEMMA StartupKeepsReceipts ==
    ASSUME RInv, boot # "up", pc' = pc, UNCHANGED class,
           listed' \subseteq Agents, due' \subseteq Tasks, watched' \subseteq AttemptIds,
           TicketOK(ticket')
    PROVE  Receipts'
BY Zenon DEF RInv, LInv, Receipts, BootReceipts, Dispatching

\* Nothing is in hand in the passes.
LEMMA NothingInHand ==
    ASSUME RInv, Onwards, boot' \notin InHand, pc' = "expire", why' \in FailureClass,
           \/ todo' = todo
           \/ \E id : todo' = [i \in DOMAIN todo \ {id} |-> todo[i]]
    PROVE  BootReceipts'
<1> USE Zenon
<1>1. DOMAIN todo' \subseteq DOMAIN todo /\ \A id \in DOMAIN todo' : todo'[id] = todo[id]
    OBVIOUS
<1>2. DOMAIN todo \subseteq AttemptIds
    BY DEF RInv, BootReceipts
<1>3. \A id \in DOMAIN todo' : /\ todo'[id].quiescent \in BOOLEAN
                               /\ todo'[id].quiescent => physical'[id] = "ended"
    BY <1>1, <1>2 DEF RInv, BootReceipts, Onwards
<1> QED
    BY <1>1, <1>2, <1>3 DEF BootReceipts, InHand

\* The candidate in hand is one of those read.
LEMMA TakenInHand ==
    ASSUME RInv, Onwards, todo' = todo, pc' = "expire", why' \in FailureClass,
           hand' \in AttemptIds, boot' = "confirm" => physical'[hand'] # "none"
    PROVE  BootReceipts'
<1> USE Zenon
<1>1. DOMAIN todo \subseteq AttemptIds
    BY DEF RInv, BootReceipts
<1>2. \A id \in DOMAIN todo' : /\ todo'[id].quiescent \in BOOLEAN
                               /\ todo'[id].quiescent => physical'[id] = "ended"
    BY <1>1 DEF RInv, BootReceipts, Onwards
<1> QED
    BY <1>1, <1>2 DEF BootReceipts

\* Snapshots of the store are true when they are read.
LEMMA SnapshotsAreTrue ==
    ASSUME RInv, NEW ids, ids \subseteq AttemptIds, todo' = [id \in ids |-> Snapshot(id)],
           Onwards, boot' \notin InHand, pc' = "expire", why' \in FailureClass
    PROVE  BootReceipts'
<1> USE Zenon
<1>1. \A id \in ids : Snapshot(id).quiescent = executions[id].quiescent
    BY DEF Snapshot
<1>2. \A id \in ids : executions[id].quiescent \in BOOLEAN
    BY DEF RInv, LInv, IInv, TypeOK, ExecutionRow
<1>3. \A id \in ids : executions[id].quiescent => physical[id] = "ended"
    BY DEF RInv, LInv, IInv, Evidence
<1> QED
    BY <1>1, <1>2, <1>3 DEF BootReceipts, InHand, Onwards

\* The steps of the two passes over the candidates.
LEMMA PassesKeep ==
    ASSUME RInv, Onwards,
           \/ Barrier \/ ReadCandidates \/ PassEnds
           \/ \E id \in AttemptIds : replay_persisted_terminal_consequence(id)
           \/ \E id \in AttemptIds : reconcile_one_execution(id)
    PROVE  Receipts' /\ BootReceipts'
<1> USE Zenon
<1>0. /\ boot # "up" /\ why \in FailureClass /\ "UNKNOWN" \in FailureClass
      /\ "EXECUTION_LOST" \in FailureClass
    BY LoopAssumption, KernelAssumption
    DEF Barrier, ReadCandidates, PassEnds, replay_persisted_terminal_consequence,
        reconcile_one_execution, RInv, BootReceipts
<1>1. pc = "expire"
    BY <1>0 DEF RInv, BootReceipts
<1>2. ASSUME Supervising PROVE Receipts' /\ pc' = "expire"
    BY <1>0, <1>1, <1>2, StartupKeepsReceipts
    DEF Supervising, loopVars, watchVars, RInv, LInv, Receipts
<1>3. ASSUME NEW place, place \notin InHand, Then(place), Supervising
      PROVE  Receipts' /\ BootReceipts'
    BY <1>0, <1>2, <1>3, NothingInHand DEF Then
<1>4. ASSUME NEW id, NEW place, place \notin InHand, Done(id, place), Supervising
      PROVE  Receipts' /\ BootReceipts'
    BY <1>0, <1>2, <1>4, NothingInHand DEF Done
<1>5. ASSUME NEW check, Refuse(check) PROVE Receipts' /\ BootReceipts'
    BY <1>5, DeathKeeps DEF Refuse
<1>6. ASSUME NEW id \in AttemptIds, NEW place, Take(id, place), why' \in FailureClass,
             place = "confirm" => physical[id] # "none"
      PROVE  Receipts' /\ BootReceipts'
    BY <1>2, <1>6, TakenInHand DEF Take, Onwards
<1>7. CASE Barrier
    BY <1>0, <1>2, <1>7, NothingInHand DEF Barrier, InHand
<1>8. CASE ReadCandidates
    <2>1. todo' = [id \in {i \in AttemptIds : HasExecution(i)} |-> Snapshot(id)]
        BY <1>8 DEF ReadCandidates, reconciliation_candidates
    <2>2. boot' \notin InHand /\ why' \in FailureClass /\ Supervising
        BY <1>0, <1>8 DEF ReadCandidates, InHand
    <2> QED
        BY <1>2, <2>1, <2>2, SnapshotsAreTrue
<1>9. CASE PassEnds
    BY <1>3, <1>9 DEF PassEnds, InHand
<1>10. CASE \E id \in AttemptIds : replay_persisted_terminal_consequence(id)
    <2>1. "replay" \notin InHand
        BY DEF InHand
    <2> QED
        BY <1>4, <1>5, <1>10, <2>1 DEF replay_persisted_terminal_consequence
<1>11. CASE \E id \in AttemptIds : reconcile_one_execution(id)
    <2>1. PICK id \in AttemptIds : reconcile_one_execution(id)
        BY <1>11
    <2>2. CASE Done(id, "reconcile") /\ Supervising
        BY <1>4, <2>2 DEF InHand
    <2>3. CASE close_lost(id)
        BY <1>0, <1>6, <2>2, <2>3 DEF close_lost
    <2>4. CASE reconcile_active_physical(id)
        BY <1>0, <1>6, <2>4 DEF reconcile_active_physical
    <2> QED
        BY <2>1, <2>2, <2>3, <2>4 DEF reconcile_one_execution
<1> QED
    BY SMT, <1>7, <1>8, <1>9, <1>10, <1>11

\* The steps with a candidate in hand.
LEMMA ReconciliationKeeps ==
    ASSUME RInv, Onwards,
           \/ admit_or_history \/ RunningHistory \/ PhysicalEnd
           \/ apply_nack_handle \/ apply_nack
    PROVE  Receipts' /\ BootReceipts'
<1> USE Zenon
<1>0. /\ boot # "up" /\ boot \in InHand /\ why \in FailureClass /\ "UNKNOWN" \in FailureClass
    BY LoopAssumption
    DEF admit_or_history, RunningHistory, PhysicalEnd, apply_nack_handle, apply_nack, InHand,
        RInv, BootReceipts
<1>1. pc = "expire" /\ hand \in AttemptIds
    BY <1>0 DEF RInv, BootReceipts
<1>2. ASSUME Supervising PROVE Receipts' /\ pc' = "expire"
    BY <1>0, <1>1, <1>2, StartupKeepsReceipts
    DEF Supervising, loopVars, watchVars, RInv, LInv, Receipts
<1>3. ASSUME NEW place, place # "confirm", Then(place), Supervising
      PROVE  Receipts' /\ BootReceipts'
    BY <1>0, <1>1, <1>2, <1>3, TakenInHand DEF Then
<1>4. ASSUME Done(hand, "reconcile"), Supervising PROVE Receipts' /\ BootReceipts'
    BY <1>0, <1>2, <1>4, NothingInHand DEF Done, InHand
<1>5. ASSUME NEW check, Refuse(check) PROVE Receipts' /\ BootReceipts'
    BY <1>5, DeathKeeps DEF Refuse
<1>6. ASSUME NEW state, NEW place, place # "confirm", Record(state, place)
      PROVE  Receipts' /\ BootReceipts'
    BY <1>3, <1>4, <1>5, <1>6 DEF Record
<1>7. CASE admit_or_history
    <2>1. CASE Then("history") /\ Supervising
        BY <1>3, <2>1
    <2>2. CASE Refuse("confirm")
        BY <1>5, <2>2
    <2>3. CASE /\ watched' = watched \cup {hand} /\ Done(hand, "reconcile")
               /\ UNCHANGED <<loopVars, due, ticket, failed>>
        <3>1. watched' \subseteq AttemptIds
            BY <1>1, <2>3 DEF RInv, LInv, Receipts
        <3>2. Receipts' /\ pc' = "expire"
            BY <1>0, <1>1, <2>3, <3>1, StartupKeepsReceipts
            DEF loopVars, RInv, LInv, Receipts
        <3> QED
            BY <1>0, <2>3, <3>2, NothingInHand DEF Done, InHand
    <2> QED
        BY <1>7, <2>1, <2>2, <2>3 DEF admit_or_history
<1>8. CASE RunningHistory \/ PhysicalEnd
    BY <1>6, <1>8 DEF RunningHistory, PhysicalEnd
<1>9. CASE apply_nack_handle
    BY <1>3, <1>6, <1>9 DEF apply_nack_handle
<1>10. CASE apply_nack
    BY <1>4, <1>5, <1>10 DEF apply_nack
<1> QED
    BY <1>7, <1>8, <1>9, <1>10

\* Maintenance before READY, and the activation.
LEMMA ActivationKeeps ==
    ASSUME RInv, Onwards,
           \/ Sweep \/ ListForRevival \/ ReviveListed \/ assert_ready_invariant
           \/ \E id \in AttemptIds : activation_sweep(id)
           \/ ActivationEnds
    PROVE  Receipts' /\ BootReceipts'
<1> USE Zenon
<1>0. /\ boot # "up" /\ why \in FailureClass /\ "UNKNOWN" \in FailureClass
    BY LoopAssumption
    DEF Sweep, ListForRevival, ReviveListed, assert_ready_invariant, activation_sweep,
        ActivationEnds, RInv, BootReceipts
<1>1. /\ pc = "expire" /\ listed \subseteq Agents /\ due \subseteq Tasks
      /\ watched \subseteq AttemptIds /\ TicketOK(ticket)
    BY <1>0 DEF RInv, BootReceipts, LInv, Receipts
<1>2. ASSUME Supervising PROVE Receipts' /\ pc' = "expire"
    BY <1>0, <1>1, <1>2, StartupKeepsReceipts DEF Supervising, loopVars, watchVars
<1>3. ASSUME NEW check, Refuse(check) PROVE Receipts' /\ BootReceipts'
    BY <1>3, DeathKeeps DEF Refuse
<1>4. CASE Sweep
    <2>1. due' \subseteq Tasks
        BY <1>1, <1>4 DEF Sweep
    <2>2. Receipts' /\ pc' = "expire"
        BY <1>0, <1>1, <1>4, <2>1, StartupKeepsReceipts DEF Sweep, loopVars, watchVars
    <2>3. boot' \notin InHand /\ why' = why /\ todo' = todo
        BY <1>4 DEF Sweep, Then, InHand
    <2> QED
        BY <1>0, <2>2, <2>3, NothingInHand
<1>5. CASE ListForRevival
    <2>1. Receipts' /\ pc' = "expire"
        BY <1>0, <1>1, <1>5, StartupKeepsReceipts DEF ListForRevival, watchVars
    <2>2. boot' \notin InHand /\ why' = why /\ todo' = todo
        BY <1>5 DEF ListForRevival, Then, InHand
    <2> QED
        BY <1>0, <2>1, <2>2, NothingInHand
<1>6. CASE ReviveListed
    <2>1. CASE Then(IF swept THEN "validate" ELSE "assert") /\ Supervising
        <3>1. boot' \notin InHand /\ why' = why /\ todo' = todo
            BY <2>1 DEF Then, InHand
        <3> QED
            BY <1>0, <1>2, <2>1, <3>1, NothingInHand
    <2>2. ASSUME NEW g \in listed, listed' = listed \ {g},
                 UNCHANGED <<bootVars, pc, claim, class, due, watchVars, failed>>
          PROVE  Receipts' /\ BootReceipts'
        <3>1. Receipts' /\ pc' = "expire"
            BY <1>0, <1>1, <2>2, StartupKeepsReceipts DEF watchVars
        <3>2. boot' \notin InHand /\ why' = why /\ todo' = todo
            BY <1>6, <2>2 DEF ReviveListed, bootVars, InHand
        <3> QED
            BY <1>0, <3>1, <3>2, NothingInHand
    <2> QED
        BY <1>3, <1>6, <2>1, <2>2 DEF ReviveListed
<1>7. CASE assert_ready_invariant
    <2>1. CASE Refuse("ready")
        BY <1>3, <2>1
    <2>2. CASE ~Refuse("ready")
        <3>1. /\ boot' \notin InHand /\ why' = why /\ Supervising
              /\ todo' = IF boot = "assert" THEN [id \in watched |-> Snapshot(id)] ELSE Nobody
            BY <1>7, <2>2 DEF assert_ready_invariant, InHand
        <3>2. Receipts' /\ pc' = "expire"
            BY <1>2, <3>1
        <3>3. CASE boot = "assert"
            BY <1>0, <1>1, <3>1, <3>2, <3>3, SnapshotsAreTrue
        <3>4. CASE boot # "assert"
            BY <1>0, <3>1, <3>2, <3>4 DEF BootReceipts, InHand, Nobody
        <3> QED
            BY <3>2, <3>3, <3>4
    <2> QED
        BY <2>1, <2>2
<1>8. CASE \E id \in AttemptIds : activation_sweep(id)
    <2>1. PICK id \in AttemptIds : activation_sweep(id)
        BY <1>8
    <2>2. watched' \subseteq AttemptIds
        BY <1>1, <2>1 DEF activation_sweep, watchVars
    <2>3. TicketOK([id |-> id, step |-> "lost"]) /\ TicketOK([id |-> id, step |-> "ended"])
        BY DEF TicketOK, Claims, TicketSteps
    <2>4. TicketOK(ticket')
        BY <1>1, <2>1, <2>3 DEF activation_sweep, watchVars
    <2>5. UNCHANGED <<loopVars, due>> /\ Done(id, "activate")
        BY <2>1 DEF activation_sweep
    <2>6. Receipts' /\ pc' = "expire"
        BY <1>0, <1>1, <2>2, <2>4, <2>5, StartupKeepsReceipts DEF loopVars
    <2> QED
        BY <1>0, <2>5, <2>6, NothingInHand DEF Done, InHand
<1>9. CASE ActivationEnds
    <2>1. boot' \notin InHand /\ why' = why /\ todo' = todo /\ Supervising
        BY <1>9 DEF ActivationEnds, InHand
    <2> QED
        BY <1>0, <1>2, <2>1, NothingInHand
<1> QED
    BY <1>4, <1>5, <1>6, <1>7, <1>8, <1>9

\* The dispatcher collects an end only of a process that has ended.
LEMMA CollectedEndsAreEnds ==
    ASSUME RInv, Onwards, [LoopNext]_allVars
    PROVE  pc' = "ended" => physical'[claim'] = "ended"
<1> USE Zenon
<1> SUFFICES ASSUME pc' = "ended" PROVE physical'[claim'] = "ended"
    OBVIOUS
<1>1. CASE StartReturns
    BY <1>1 DEF StartReturns, vars
<1>2. CASE Loop /\ ~StartReturns
    BY <1>2 DEF Loop, Maintain, Promote, ListRevivals, Revive, Ensure, dispatch_one,
        Resolve_environment, nack_configuration_unavailable, CommitExecution, StartExecution,
        Confirm, Admit, StaleStart, persist_unresolved_physical_then_nack, nack_start,
        NackHistory, CollectedEnd, NackEnded, Goto, CycleEnds, Fail
<1>3. CASE ~Loop
    <2>1. UNCHANGED loopVars
        BY <1>3 DEF LoopNext, allVars, observe_ticket, Apply, ApplyLost, ApplyEnded,
            nack_current, ObserverStep, ObserverFails, Others, BackoffElapses
    <2>2. claim \in AttemptIds /\ physical[claim] = "ended"
        BY <2>1 DEF loopVars, RInv, LInv, Receipts, BootReceipts, Dispatching
    <2> QED
        BY <2>1, <2>2 DEF loopVars, Onwards
<1> QED
    BY <1>1, <1>2, <1>3

\* A step that leaves the startup alone keeps what it holds.
LEMMA BootKept ==
    ASSUME RInv, Onwards, UNCHANGED bootVars, boot # "up" => pc' = "expire",
           pc' = "ended" => physical'[claim'] = "ended"
    PROVE  BootReceipts'
<1> USE Zenon
<1>1. DOMAIN todo \subseteq AttemptIds
    BY DEF RInv, BootReceipts
<1>2. \A id \in DOMAIN todo' : /\ todo'[id].quiescent \in BOOLEAN
                               /\ todo'[id].quiescent => physical'[id] = "ended"
    BY <1>1 DEF RInv, BootReceipts, Onwards, bootVars
<1>3. boot = "confirm" => hand \in AttemptIds /\ physical[hand] # "none"
    BY DEF RInv, BootReceipts, InHand
<1>4. boot' = "confirm" => physical'[hand'] # "none"
    BY <1>3 DEF bootVars, Onwards
<1> QED
    BY <1>2, <1>4 DEF RInv, BootReceipts, bootVars

\* Every step of the daemon with its crashes keeps the invariant.
LEMMA RecStepKeeps ==
    ASSUME RInv, [RecNext]_recVars
    PROVE  RInv'
<1> USE Zenon
<1>1. IInv' /\ Onwards
    BY RecStepIsKernel, NextInvariant, ProcessesMoveOn DEF RInv, LInv, IInv
<1>2. CASE boot = "up" /\ LoopNext /\ UNCHANGED bootVars
    <2>1. Receipts'
        BY <1>2, LoopKeepsReceipts, OthersKeepReceipts DEF RInv
    <2>2. BootReceipts'
        BY <1>1, <1>2, CollectedEndsAreEnds, BootKept
    <2> QED
        BY <1>1, <2>1, <2>2 DEF RInv, LInv
<1>3. CASE boot # "up" /\ World
    <2>0. pc = "expire"
        BY <1>3 DEF RInv, BootReceipts
    <2>1. due' \subseteq Tasks
        BY <1>3 DEF World, BackoffElapses, RInv, LInv, Receipts
    <2>2. UNCHANGED <<loopVars, watchVars, bootVars>>
        BY <1>3 DEF World, BackoffElapses
    <2>3. Receipts'
        BY <1>3, <2>1, <2>2, StartupKeepsReceipts
        DEF loopVars, watchVars, RInv, LInv, Receipts
    <2>4. BootReceipts'
        BY <1>1, <2>0, <2>2, BootKept DEF loopVars
    <2> QED
        BY <1>1, <2>3, <2>4 DEF RInv, LInv
<1>4. CASE boot = "activate" /\ Apply /\ UNCHANGED bootVars
    <2>0. pc = "expire"
        BY <1>4 DEF RInv, BootReceipts
    <2>1. Receipts'
        BY <1>4, LoopKeepsReceipts, OthersKeepReceipts DEF RInv, LoopNext
    <2>2. UNCHANGED loopVars
        BY <1>4 DEF Apply, ApplyLost, ApplyEnded, nack_current, ObserverStep, ObserverFails
    <2>3. BootReceipts'
        BY <1>1, <1>4, <2>0, <2>2, BootKept DEF loopVars
    <2> QED
        BY <1>1, <2>1, <2>3 DEF RInv, LInv
<1>5. CASE Startup
    BY <1>1, <1>5, PassesKeep, ReconciliationKeeps, ActivationKeeps DEF Startup, RInv, LInv
<1>6. CASE Crash \/ CrashAfterEvidence
    BY <1>1, <1>6, DeathKeeps DEF Crash, CrashAfterEvidence, RInv, LInv
<1>7. CASE UNCHANGED recVars
    <2>1. Receipts'
        BY <1>7 DEF recVars, allVars, loopVars, watchVars, vars, RInv, LInv, Receipts, Dispatching
    <2>2. BootReceipts'
        BY <1>7 DEF recVars, allVars, bootVars, loopVars, vars, RInv, BootReceipts
    <2> QED
        BY <1>1, <2>1, <2>2 DEF RInv, LInv
<1> QED
    BY <1>2, <1>3, <1>4, <1>5, <1>6, <1>7 DEF RecNext

----------------------------------------------------------------------------
(* The theorems *)

\* Whatever dies and whenever, the daemon and its recovery keep the kernel's
\* invariant, and hold only receipts that are true.
THEOREM RecoveryInvariant == RecSpec => []RInv
<1>1. RecInit => RInv
    <2> SUFFICES ASSUME RecInit PROVE RInv
        BY Zenon
    <2>1. IInv
        BY Zenon, InitInvariant DEF RecInit, LoopInit
    <2>2. Receipts
        BY Zenon, LoopAssumption DEF RecInit, LoopInit, Receipts, Dispatching, TicketOK, NoTicket,
                              Claims, TicketSteps
    <2>3. BootReceipts
        BY Zenon, LoopAssumption DEF RecInit, LoopInit, BootReceipts, InHand, Nobody
    <2> QED
        BY Zenon, <2>1, <2>2, <2>3 DEF RInv, LInv
<1>2. RInv /\ [RecNext]_recVars => RInv'
    BY Zenon, RecStepKeeps
<1> QED
    BY <1>1, <1>2, PTL DEF RecSpec

\* Dispatch, observation, crashes and startup recovery use the kernel as Kernel allows:
\* every behaviour of the daemon that dies and comes back is one of Kernel.
THEOREM RecoveryImplementsKernel == RecSpec => ImplementsKernel
<1>1. RecInit => Init
    BY Zenon DEF RecInit, LoopInit
<1>2. RInv /\ [RecNext]_recVars => [Next]_vars
    BY Zenon, RecStepIsKernel
<1> QED
    BY <1>1, <1>2, RecoveryInvariant, PTL DEF RecSpec, ImplementsKernel

\* No crash and no recovery ever lets two processes of a write task be at work outside
\* an isolated workspace ...
THEOREM RecoveryExcludesWriters == RecSpec => []WriterExclusion
<1>1. ImplementsKernel => Spec
    BY Zenon DEF ImplementsKernel, Spec
<1> QED
    BY <1>1, RecoveryImplementsKernel, WritersExcluded, PTL

\* ... leaves authority half closed or held twice ...
THEOREM RecoveryKeepsAuthoritySingle == RecSpec => []SingleAuthority
<1>1. ImplementsKernel => Spec
    BY Zenon DEF ImplementsKernel, Spec
<1> QED
    BY <1>1, RecoveryImplementsKernel, AuthorityIsSingle, PTL

\* ... or brings an agent back whose writer Root has not accounted for.
THEOREM RecoveryKeepsQuarantine == RecSpec => []WriterQuarantine
<1>1. ImplementsKernel => Spec
    BY Zenon DEF ImplementsKernel, Spec
<1> QED
    BY <1>1, RecoveryImplementsKernel, WriterQuarantined, PTL

\* No task is claimed before what it depends on is completed, no batch lags behind its
\* tasks, and no live host carries the execution of an attempt that is over.
THEOREM RecoveryKeepsOrder == RecSpec => [](DependenciesFirst /\ BatchUpToDate /\ HostExclusive)
<1>1. ImplementsKernel => Spec
    BY Zenon DEF ImplementsKernel, Spec
<1> QED
    BY <1>1, RecoveryImplementsKernel, DependenciesComeFirst, BatchesAreUpToDate,
       HostsAreExclusive, PTL

\* A restart brings no fenced host back, reopens no finished task, and closes no writer obligation
\* that Root has not.
THEOREM RecoveryKeepsEnds == RecSpec => FencedForever /\ ObligationsAndEndsLast
<1>1. ImplementsKernel => Spec
    BY Zenon DEF ImplementsKernel, Spec
<1> QED
    BY <1>1, RecoveryImplementsKernel, FencesAreFinal, ObligationsAndEndsAreKept, PTL

----------------------------------------------------------------------------
(* A stale claim is history *)

\* A record of physical history moves no authority.
LEMMA HistoryMovesNothing ==
    ASSUME NEW id, NEW state, NEW classed, NEW terminal, NEW q,
           \/ record_physical_outcome(id, state, classed, terminal, q)
           \/ record_pending_physical_terminal(id, state, classed, q)
    PROVE  UNCHANGED AuthorityState
BY Zenon DEF record_physical_outcome, record_pending_physical_terminal, AuthorityState

\* Nor does the death of the process.
LEMMA DeathMovesNothing ==
    ASSUME Crash \/ CrashAfterEvidence \/ UNCHANGED vars
    PROVE  UNCHANGED AuthorityState
<1> USE Zenon
<1>1. CASE UNCHANGED vars
    BY <1>1 DEF vars, AuthorityState
<1>2. CASE CrashAfterEvidence
    BY <1>2, HistoryMovesNothing DEF CrashAfterEvidence
<1> QED
    BY <1>1, <1>2 DEF Crash

\* The dispatch of a claim without authority only writes history.
LEMMA StaleDispatch ==
    ASSUME Loop, pc \in Dispatching, ~validate_authority(claim)
    PROVE  UNCHANGED AuthorityState
<1> USE Zenon
<1>1. CASE UNCHANGED vars
    BY <1>1, DeathMovesNothing
<1>2. CASE \/ Resolve_environment \/ nack_configuration_unavailable \/ CommitExecution
           \/ StartExecution \/ StartReturns \/ Confirm \/ Admit \/ nack_start \/ NackEnded
    BY <1>1, <1>2
    DEF Resolve_environment, nack_configuration_unavailable, CommitExecution, StartExecution,
        StartReturns, Confirm, Admit, nack_start, NackEnded, Fail
<1>3. CASE StaleStart \/ persist_unresolved_physical_then_nack \/ NackHistory \/ CollectedEnd
    BY <1>1, <1>3, HistoryMovesNothing
    DEF StaleStart, persist_unresolved_physical_then_nack, NackHistory, CollectedEnd,
        RecordUnknown, RecordEnd, Fail
<1>4. ~(Maintain \/ Promote \/ ListRevivals \/ Revive \/ Ensure \/ dispatch_one)
    BY DEF Maintain, Promote, ListRevivals, Revive, Ensure, dispatch_one, Dispatching
<1> QED
    BY <1>2, <1>3, <1>4 DEF Loop

\* So does the observation of an execution without authority ...
LEMMA StaleObservation ==
    ASSUME Apply, ~validate_authority(ticket.id)
    PROVE  UNCHANGED AuthorityState
<1> USE Zenon
<1>1. CASE UNCHANGED vars
    BY <1>1, DeathMovesNothing
<1> QED
    BY <1>1, HistoryMovesNothing
    DEF Apply, ApplyLost, ApplyEnded, nack_current, RecordEnd, ObserverFails

\* ... and the recovery of one.
LEMMA StaleRecovery ==
    ASSUME Startup, boot \in InHand, ~validate_authority(hand)
    PROVE  UNCHANGED AuthorityState
<1> USE Zenon
<1>1. CASE UNCHANGED vars
    BY <1>1, DeathMovesNothing
<1>2. ASSUME NEW state, NEW place, Record(state, place) PROVE UNCHANGED AuthorityState
    BY <1>1, <1>2, HistoryMovesNothing DEF Record, Refuse
<1>3. CASE admit_or_history \/ apply_nack
    BY <1>1, <1>3 DEF admit_or_history, apply_nack
<1>4. CASE RunningHistory \/ PhysicalEnd \/ apply_nack_handle
    BY <1>1, <1>2, <1>4 DEF RunningHistory, PhysicalEnd, apply_nack_handle
<1>5. CASE ~(\/ admit_or_history \/ RunningHistory \/ PhysicalEnd \/ apply_nack_handle
             \/ apply_nack)
    BY <1>5 DEF Startup, Barrier, ReadCandidates, PassEnds, Sweep, ListForRevival, ReviveListed,
        assert_ready_invariant, ActivationEnds, replay_persisted_terminal_consequence,
        reconcile_one_execution, activation_sweep, InHand
<1> QED
    BY <1>3, <1>4, <1>5

\* A claim that lost its authority, by whatever means and before or after a crash, moves
\* no task, attempt, lease, agent, batch, escalation or result any more.
THEOREM StaleClaimsStayHistory == RecSpec => StaleClaimsAreHistory
<1>1. ASSUME RInv, RecNext, pc \in Dispatching, pc' # pc, ~validate_authority(claim)
      PROVE  UNCHANGED AuthorityState
    <2>1. boot = "up"
        BY Zenon, <1>1 DEF RInv, BootReceipts, Dispatching
    <2>2. CASE LoopNext
        <3>1. CASE Loop
            BY Zenon, <1>1, <3>1, StaleDispatch
        <3>2. CASE ~Loop
            BY Zenon, <1>1, <2>2, <3>2
            DEF LoopNext, observe_ticket, Apply, ApplyLost, ApplyEnded, nack_current,
                ObserverStep, ObserverFails, Others, BackoffElapses, loopVars
        <3> QED
            BY Zenon, <3>1, <3>2
    <2>3. CASE Startup
        BY Zenon, <2>1, <2>3
        DEF Startup, Barrier, ReadCandidates, PassEnds, replay_persisted_terminal_consequence,
            reconcile_one_execution, admit_or_history, RunningHistory, PhysicalEnd,
            apply_nack_handle, apply_nack, Sweep, ListForRevival, ReviveListed,
            assert_ready_invariant, activation_sweep, ActivationEnds
    <2> QED
        BY Zenon, <1>1, <2>1, <2>2, <2>3, DeathMovesNothing DEF RecNext
<1>2. ASSUME RecNext, ticket.step # "idle", ticket' # ticket, ~validate_authority(ticket.id)
      PROVE  UNCHANGED AuthorityState
    <2>1. ticket # NoTicket
        BY <1>2 DEF NoTicket
    <2>2. CASE LoopNext \/ Apply
        <3>1. ~Loop
            BY Zenon, <1>2 DEF Loop, Maintain, Promote, ListRevivals, Revive, Ensure, dispatch_one,
                Resolve_environment, nack_configuration_unavailable, CommitExecution,
                StartExecution, StartReturns, Confirm, Admit, StaleStart,
                persist_unresolved_physical_then_nack, nack_start, NackHistory, CollectedEnd,
                NackEnded, RecordUnknown, Fail, Quietly, watchVars
        <3>2. Apply
            BY Zenon, <1>2, <2>1, <2>2, <3>1
            DEF LoopNext, observe_ticket, Others, BackoffElapses, watchVars
        <3> QED
            BY Zenon, <1>2, <3>2, StaleObservation
    <2>3. CASE World
        BY Zenon, <1>2, <2>3 DEF World, BackoffElapses, watchVars
    <2>4. CASE Startup
        <3>1. ASSUME NEW check, Refuse(check) PROVE UNCHANGED AuthorityState
            BY Zenon, <3>1, DeathMovesNothing DEF Refuse
        <3>2. ASSUME Supervising PROVE FALSE
            BY Zenon, <1>2, <3>2 DEF Supervising, watchVars
        <3>3. CASE \/ Barrier \/ ReadCandidates \/ PassEnds \/ ActivationEnds
                   \/ \E id \in AttemptIds : replay_persisted_terminal_consequence(id)
                   \/ \E id \in AttemptIds : reconcile_one_execution(id)
            BY Zenon, <3>1, <3>2, <3>3
            DEF Barrier, ReadCandidates, PassEnds, ActivationEnds,
                replay_persisted_terminal_consequence, reconcile_one_execution, close_lost,
                reconcile_active_physical, Take
        <3>4. CASE \/ admit_or_history \/ RunningHistory \/ PhysicalEnd \/ apply_nack_handle
                   \/ apply_nack
            BY Zenon, <1>2, <3>1, <3>2, <3>4
            DEF admit_or_history, RunningHistory, PhysicalEnd, apply_nack_handle, apply_nack, Record
        <3>5. CASE \/ Sweep \/ ListForRevival \/ ReviveListed \/ assert_ready_invariant
                   \/ \E id \in AttemptIds : activation_sweep(id)
            BY Zenon, <1>2, <2>1, <3>1, <3>2, <3>5
            DEF Sweep, ListForRevival, ReviveListed, assert_ready_invariant, activation_sweep,
                watchVars
        <3> QED
            BY Zenon, <2>4, <3>3, <3>4, <3>5 DEF Startup
    <2> QED
        BY Zenon, <1>2, <2>2, <2>3, <2>4, DeathMovesNothing DEF RecNext
<1>3. ASSUME RecNext, boot \in InHand, hand' # hand, ~validate_authority(hand)
      PROVE  UNCHANGED AuthorityState
    BY Zenon, <1>3, StaleRecovery, DeathMovesNothing DEF RecNext, World, bootVars, InHand
<1>4. ASSUME RInv, [RecNext]_recVars
      PROVE  [(\/ pc \in Dispatching /\ pc' # pc /\ ~validate_authority(claim)
               \/ ticket.step # "idle" /\ ticket' # ticket /\ ~validate_authority(ticket.id)
               \/ boot \in InHand /\ hand' # hand /\ ~validate_authority(hand))
              => UNCHANGED AuthorityState]_recVars
    BY Zenon, <1>1, <1>2, <1>3, <1>4
<1> QED
    BY <1>4, RecoveryInvariant, PTL DEF RecSpec, StaleClaimsAreHistory

----------------------------------------------------------------------------
(* What the daemon does to the execution rows *)

\* A row that says success or failure says that it is the end, one that says
\* TERMINATED is right about the process, and a success with a failure class and no
\* Result is that of a writer without proof: the daemon writes no others.
Sound(id) ==
    /\ executions[id].state \in {"SUCCEEDED", "FAILED"} => executions[id].terminal
    /\ executions[id].state = "TERMINATED" => physical[id] = "ended"
    /\ Contradictory(id) => SharedWriterClosed(id)

\* What any step does to a row.
RowStep(id) ==
    /\ HasExecution(id) => HasExecution(id)'
    /\ Sound(id) => Sound(id)'

\* What a step does to an attempt that is not its business: if the lease still holds
\* afterwards then the row is as it was.
Undisturbed(id) ==
    /\ HasExecution(id)' => HasExecution(id)
    /\ leases'[id] = "ACTIVE" => leases[id] = "ACTIVE" /\ executions'[id] = executions[id]

\* No lease is taken, but by a claim that has no execution yet.
LeasesClose(X) ==
    \A id \in AttemptIds :
        leases'[id] = "ACTIVE" => leases[id] = "ACTIVE" \/ (id \in X /\ ~HasExecution(id))

Careful(X) ==
    /\ \A id \in AttemptIds : RowStep(id)
    /\ \A id \in AttemptIds \ X : Undisturbed(id)

\* Steps that leave the rows alone.
LEMMA RowsAlone ==
    ASSUME Onwards, executions' = executions, NEW X, LeasesClose(X)
    PROVE  Careful(X)
<1> USE Zenon
<1>1. ASSUME NEW id \in AttemptIds PROVE RowStep(id)
    BY <1>1 DEF RowStep, LeasesClose, HasExecution, Sound, Contradictory, SharedWriterClosed, Onwards
<1>2. ASSUME NEW id \in AttemptIds \ X PROVE Undisturbed(id)
    BY <1>2 DEF Undisturbed, LeasesClose, HasExecution
<1> QED
    BY <1>1, <1>2 DEF Careful

\* Steps that write one row, of the attempt in hand or of one that they close.
LEMMA OneRow ==
    ASSUME Onwards, NEW id \in AttemptIds, NEW X, LeasesClose(X), RowStep(id),
           id \in X \/ (leases'[id] # "ACTIVE" /\ (HasExecution(id)' => HasExecution(id))),
           \A i \in AttemptIds \ {id} : executions'[i] = executions[i]
    PROVE  Careful(X)
<1> USE Zenon
<1>1. ASSUME NEW i \in AttemptIds, i # id PROVE RowStep(i)
    BY <1>1 DEF RowStep, LeasesClose, HasExecution, Sound, Contradictory, SharedWriterClosed,
                Onwards
<1>2. ASSUME NEW i \in AttemptIds \ X, i # id PROVE Undisturbed(i)
    BY <1>2 DEF Undisturbed, HasExecution, LeasesClose
<1>3. id \notin X => Undisturbed(id)
    BY DEF Undisturbed
<1> QED
    BY <1>1, <1>2, <1>3 DEF Careful

\* A step that is careful about fewer attempts is no less careful.
LEMMA CarefulMore ==
    ASSUME NEW X, NEW Y, Careful(X), X \subseteq Y
    PROVE  Careful(Y)
BY Zenon DEF Careful

\* Closing attempts leaves no lease of theirs behind.
LEMMA ClosingLeases ==
    ASSUME NEW out, NEW open, CloseAttempts(out, open),
           \A id \in DOMAIN out : out[id].lease # "ACTIVE"
    PROVE  /\ LeasesClose({})
           /\ \A id \in AttemptIds : id \in DOMAIN out => leases'[id] # "ACTIVE"
<1> USE Zenon
<1>1. leases' = [id \in AttemptIds |-> IF id \in DOMAIN out THEN out[id].lease ELSE leases[id]]
    BY DEF CloseAttempts
<1> QED
    BY <1>1 DEF LeasesClose

\* A failure closes the lease of its attempt.
LEMMA FailureCloses ==
    ASSUME NEW id \in AttemptIds, NEW c, NEW q, NEW presence,
           FailureConsequence(id, Failed(id, c, q, presence))
    PROVE  LeasesClose({}) /\ leases'[id] # "ACTIVE"
<1> USE Zenon
<1> DEFINE out == Failed(id, c, q, presence)
<1>1. \E cause : \/ out = CloseOne(id, "FAILED", "RELEASED", "RETRY_WAIT", presence, cause)
                 \/ out = CloseOne(id, "FAILED", "REVOKED", "SUSPENDED", presence, cause)
    BY DEF Failed
<1>2. CloseAttempts(out, escalations)
    BY DEF FailureConsequence
<1> HIDE DEF out
<1>3. DOMAIN out = {id} /\ out[id].lease # "ACTIVE"
    BY SMT, <1>1 DEF CloseOne
<1> QED
    BY <1>2, <1>3, ClosingLeases

\* nack.
LEMMA NackCareful ==
    ASSUME RInv, Onwards, NEW id \in AttemptIds, NEW c, NEW terminal \in BOOLEAN, NEW q,
           NEW reusable, nack(id, c, terminal, q, reusable)
    PROVE  Careful({}) /\ leases'[id] # "ACTIVE"
<1> USE Zenon
<1> DEFINE durable == durable_quiescence(terminal, q)
           presence == incarnation_presence(PresenceOfFailure(c), terminal, durable, reusable)
           row == [executions[id] EXCEPT !.state = IF terminal THEN "FAILED" ELSE "UNKNOWN",
                                         !.terminal = terminal, !.quiescent = durable,
                                         !.classed = TRUE]
<1>1. /\ FailureConsequence(id, Failed(id, c, durable, presence))
      /\ \/ executions' = executions
         \/ executions[id].state \in LiveExecution /\ executions' = [executions EXCEPT ![id] = row]
    BY ZenonT(60) DEF nack
<1>2. /\ row.state = IF terminal THEN "FAILED" ELSE "UNKNOWN"
      /\ row.terminal = terminal
    BY ZenonT(60) DEF RInv, LInv, IInv, TypeOK, ExecutionRow
<1> HIDE DEF row, durable, presence
<1>3. LeasesClose({}) /\ leases'[id] # "ACTIVE"
    BY <1>1, FailureCloses
<1>4. CASE executions' = executions
    BY <1>3, <1>4, RowsAlone
<1>5. CASE executions[id].state \in LiveExecution /\ executions' = [executions EXCEPT ![id] = row]
    <2>1. executions'[id] = row /\ \A i \in AttemptIds \ {id} : executions'[i] = executions[i]
        BY <1>5 DEF RInv, LInv, IInv, TypeOK
    <2>2. RowStep(id) /\ HasExecution(id)
        BY <1>2, <1>5, <2>1 DEF RowStep, Sound, Contradictory, HasExecution, LiveExecution
    <2> QED
        BY <1>3, <2>1, <2>2, OneRow
<1> QED
    BY <1>1, <1>3, <1>4, <1>5

\* nack_preserving_physical_history.
LEMMA NackPreservingCareful ==
    ASSUME Onwards, NEW id \in AttemptIds, NEW c, nack_preserving_physical_history(id, c)
    PROVE  Careful({}) /\ leases'[id] # "ACTIVE" /\ executions' = executions
<1> USE Zenon
<1> DEFINE presence == incarnation_presence(PresenceOfFailure(c), FALSE, FALSE, FALSE)
<1>1. FailureConsequence(id, Failed(id, c, FALSE, presence)) /\ executions' = executions
    BY DEF nack_preserving_physical_history
<1> HIDE DEF presence
<1> QED
    BY <1>1, FailureCloses, RowsAlone

\* ack_success.
LEMMA AckCareful ==
    ASSUME RInv, Onwards, NEW id \in AttemptIds, NEW q, NEW reusable, ack_success(id, q, reusable)
    PROVE  Careful({}) /\ leases'[id] # "ACTIVE"
<1> USE Zenon
<1> DEFINE unsafe == ~writer_is_safe_to_replace(id[1] \in Writers, HasExecution(id), q,
                                                executions[id].isolated)
           presence == incarnation_presence("SUCCEEDED", TRUE, q /\ ~unsafe,
                                            reusable /\ ~unsafe)
           bad == CloseOne(id, "FAILED", "REVOKED", "SUSPENDED", presence, WriterUnknown)
           good == CloseOne(id, "SUCCEEDED", "RELEASED", "COMPLETED", presence, "NONE")
           row == [executions[id] EXCEPT !.state = "SUCCEEDED", !.terminal = TRUE,
                                         !.quiescent = q /\ ~unsafe]
<1>1. /\ CloseAttempts(bad, escalations) \/ CloseAttempts(good, escalations)
      /\ \/ executions' = executions
         \/ HasExecution(id) /\ executions' = [executions EXCEPT ![id] = row]
      /\ results' = IF unsafe THEN results ELSE [results EXCEPT ![id[1]] = "AVAILABLE"]
    BY ZenonT(60) DEF ack_success
<1>0. unsafe => id[1] \in Writers /\ (HasExecution(id) => ~executions[id].isolated)
    BY DEF writer_is_safe_to_replace
<1>2. /\ row.state = "SUCCEEDED" /\ row.terminal = TRUE
      /\ row.isolated = executions[id].isolated
    BY ZenonT(60) DEF RInv, LInv, IInv, TypeOK, ExecutionRow
<1>3. /\ id \in DOMAIN bad /\ \A i \in DOMAIN bad : bad[i].lease # "ACTIVE"
      /\ id \in DOMAIN good /\ \A i \in DOMAIN good : good[i].lease # "ACTIVE"
    BY ZenonT(60) DEF CloseOne
<1> HIDE DEF row, bad, good, unsafe
<1>4. LeasesClose({}) /\ leases'[id] # "ACTIVE"
    BY <1>1, <1>3, ClosingLeases
<1>5. CASE executions' = executions
    BY <1>4, <1>5, RowsAlone
<1>6. CASE HasExecution(id) /\ executions' = [executions EXCEPT ![id] = row]
    <2>1. executions'[id] = row /\ \A i \in AttemptIds \ {id} : executions'[i] = executions[i]
        BY <1>6 DEF RInv, LInv, IInv, TypeOK
    <2>2. ~unsafe => results'[id[1]] # "NONE"
        BY <1>1, AttemptIdFacts DEF RInv, LInv, IInv, TypeOK
    <2>3. RowStep(id)
        BY <1>0, <1>2, <1>4, <1>6, <2>1, <2>2
        DEF RowStep, Sound, Contradictory, SharedWriterClosed, HasExecution
    <2> QED
        BY <1>4, <1>6, <2>1, <2>3, OneRow
<1> QED
    BY <1>1, <1>4, <1>5, <1>6


\* record_physical_outcome without proof, of an end only when the process has ended.
LEMMA RecordCareful ==
    ASSUME RInv, Onwards, NEW id \in AttemptIds,
           NEW state \in {"UNKNOWN", "LOST", "RUNNING", "TERMINATED"},
           state = "TERMINATED" => physical[id] = "ended",
           NEW classed, record_physical_outcome(id, state, classed, FALSE, FALSE)
    PROVE  /\ Careful({id}) /\ leases' = leases /\ attempts' = attempts
           /\ HasExecution(id) /\ executions'[id].state = state
           /\ \A i \in AttemptIds \ {id} : executions'[i] = executions[i]
<1> USE Zenon
<1> DEFINE unresolved == state \in {"UNKNOWN", "LOST"}
           row == [executions[id] EXCEPT
                      !.state = state,
                      !.terminal = ~unresolved /\ (@ \/ FALSE),
                      !.quiescent = ~unresolved /\ (@ \/ FALSE),
                      !.classed = @ \/ classed]
<1>1. /\ executions' = [executions EXCEPT ![id] = row] /\ leases' = leases
      /\ attempts' = attempts /\ HasExecution(id)
    BY ZenonT(60) DEF record_physical_outcome
<1>2. row.state = state
    BY ZenonT(60) DEF RInv, LInv, IInv, TypeOK, ExecutionRow
<1> HIDE DEF row
<1>3. executions'[id] = row /\ \A i \in AttemptIds \ {id} : executions'[i] = executions[i]
    BY <1>1 DEF RInv, LInv, IInv, TypeOK
<1>4. RowStep(id)
    BY <1>2, <1>3 DEF RowStep, Sound, Contradictory, Onwards, HasExecution
<1>5. LeasesClose({id})
    BY <1>1 DEF LeasesClose
<1>6. Careful({id})
    BY <1>3, <1>4, <1>5, OneRow
<1> QED
    BY <1>1, <1>2, <1>3, <1>6

\* confirm_running_and_renew.
LEMMA ConfirmCareful ==
    ASSUME RInv, Onwards, NEW id \in AttemptIds, confirm_running_and_renew(id)
    PROVE  /\ Careful({id}) /\ leases' = leases /\ attempts' = attempts
           /\ HasExecution(id) /\ executions'[id].state = "RUNNING"
           /\ \A i \in AttemptIds \ {id} : executions'[i] = executions[i]
<1> USE Zenon
<1> DEFINE row == [executions[id] EXCEPT !.state = "RUNNING"]
<1>1. /\ executions' = [executions EXCEPT ![id] = row] /\ leases' = leases
      /\ attempts' = attempts /\ executions[id].state \in LiveExecution
    BY ZenonT(60) DEF confirm_running_and_renew
<1>2. row.state = "RUNNING"
    BY ZenonT(60) DEF RInv, LInv, IInv, TypeOK, ExecutionRow
<1> HIDE DEF row
<1>3. executions'[id] = row /\ \A i \in AttemptIds \ {id} : executions'[i] = executions[i]
    BY <1>1 DEF RInv, LInv, IInv, TypeOK
<1>4. RowStep(id) /\ HasExecution(id)
    BY <1>1, <1>2, <1>3 DEF RowStep, Sound, Contradictory, HasExecution, LiveExecution
<1>5. LeasesClose({id})
    BY <1>1 DEF LeasesClose
<1>6. Careful({id})
    BY <1>3, <1>4, <1>5, OneRow
<1> QED
    BY <1>1, <1>2, <1>3, <1>4, <1>6

\* create_execution.
LEMMA CreateCareful ==
    ASSUME RInv, Onwards, NEW id \in AttemptIds, NEW isolated, create_execution(id, isolated)
    PROVE  Careful({id}) /\ leases' = leases /\ executions'[id].state = "STARTING"
<1> USE Zenon
<1> DEFINE row == [state |-> "STARTING", isolated |-> isolated, terminal |-> FALSE,
                   quiescent |-> FALSE, classed |-> FALSE]
<1>1. executions' = [executions EXCEPT ![id] = row] /\ leases' = leases
    BY ZenonT(60) DEF create_execution
<1>2. row.state = "STARTING"
    OBVIOUS
<1> HIDE DEF row
<1>3. executions'[id] = row /\ \A i \in AttemptIds \ {id} : executions'[i] = executions[i]
    BY <1>1 DEF RInv, LInv, IInv, TypeOK
<1>4. RowStep(id)
    BY <1>2, <1>3 DEF RowStep, Sound, Contradictory, HasExecution
<1>5. LeasesClose({id})
    BY <1>1 DEF LeasesClose
<1> QED
    BY <1>1, <1>2, <1>3, <1>4, <1>5, OneRow

\* The evidence of an end that becomes durable before its consequence.
LEMMA PendingCareful ==
    ASSUME RInv, Onwards, NEW id \in AttemptIds, physical[id] = "ended", NEW state, NEW q,
           record_pending_physical_terminal(id, state, state # "SUCCEEDED", q)
    PROVE  Careful({id})
<1> USE Zenon
<1> DEFINE row == [executions[id] EXCEPT !.state = state, !.terminal = TRUE, !.quiescent = q,
                                         !.classed = state # "SUCCEEDED"]
<1>1. /\ executions' = [executions EXCEPT ![id] = row] /\ leases' = leases
      /\ state \in EndedExecution
    BY ZenonT(60) DEF record_pending_physical_terminal
<1>2. row.state = state /\ row.terminal = TRUE /\ row.classed = (state # "SUCCEEDED")
    BY ZenonT(60) DEF RInv, LInv, IInv, TypeOK, ExecutionRow
<1> HIDE DEF row
<1>3. executions'[id] = row /\ \A i \in AttemptIds \ {id} : executions'[i] = executions[i]
    BY <1>1 DEF RInv, LInv, IInv, TypeOK
<1>4. RowStep(id)
    BY <1>1, <1>2, <1>3 DEF RowStep, Sound, Contradictory, Onwards, HasExecution, EndedExecution
<1>5. LeasesClose({id})
    BY <1>1 DEF LeasesClose
<1> QED
    BY <1>3, <1>4, <1>5, OneRow

\* The sweep of elapsed leases, of the loop and of the startup.
LEMMA ExpireCareful ==
    ASSUME Onwards, NEW recovering, expire_leases(recovering)
    PROVE  Careful({}) /\ LeasesClose({}) /\ executions' = executions
<1> USE Zenon
<1> DEFINE out == [id \in Expirable(recovering) |-> Expired(id)]
<1>1. CloseAttempts(out, escalations) /\ executions' = executions
    BY ZenonT(60) DEF expire_leases
<1>2. \A id \in DOMAIN out : out[id].lease # "ACTIVE"
    <2>1. \A id : Expired(id).lease = "EXPIRED"
        BY ZenonT(60) DEF Expired
    <2> QED
        BY <2>1
<1> HIDE DEF out
<1> QED
    BY <1>1, <1>2, ClosingLeases, RowsAlone

\* cancel_batch.
LEMMA CancelBatchCareful ==
    ASSUME Onwards, NEW b, cancel_batch(b)
    PROVE  Careful({})
<1> USE Zenon
<1>1. PICK open, ids : /\ CloseAttempts([id \in ids |-> Cancelled(id, FALSE)], open)
                       /\ executions' = executions
    BY ZenonT(60) DEF cancel_batch
<1>2. \A id : Cancelled(id, FALSE).lease = "REVOKED"
    BY ZenonT(60) DEF Cancelled
<1> DEFINE out == [id \in ids |-> Cancelled(id, FALSE)]
<1>3. \A id \in DOMAIN out : out[id].lease # "ACTIVE"
    BY <1>2
<1>4. CloseAttempts(out, open)
    BY <1>1
<1> HIDE DEF out
<1> QED
    BY <1>1, <1>3, <1>4, ClosingLeases, RowsAlone

\* cancel_task, which claims no quiescence: an execution that it calls TERMINATED was
\* proven quiet before.
LEMMA CancelTaskCareful ==
    ASSUME RInv, Onwards, NEW t \in Tasks, cancel_task(t, FALSE)
    PROVE  Careful({})
<1> USE Zenon
<1> DEFINE ending == IF tasks[t].current = 0 THEN {} ELSE {Current(t)}
           out == [i \in ending |-> Cancelled(i, FALSE)]
           Row(i) == [executions[i] EXCEPT !.state = IF Quiet(executions[i], FALSE)
                                                     THEN "TERMINATED" ELSE "LOST"]
<1>1. /\ executions' = [i \in AttemptIds |->
                           IF i \in ending /\ executions[i].state \in LiveExecution
                           THEN Row(i) ELSE executions[i]]
      /\ CloseAttempts(out, escalations)
    BY ZenonT(60) DEF cancel_task
<1>2. \A i : Cancelled(i, FALSE).lease = "REVOKED"
    BY ZenonT(60) DEF Cancelled
<1>3. DOMAIN out = ending /\ \A i \in DOMAIN out : out[i].lease # "ACTIVE"
    BY <1>2
<1>4. \A i \in AttemptIds :
         Row(i).state = IF Quiet(executions[i], FALSE) THEN "TERMINATED" ELSE "LOST"
    BY DEF RInv, LInv, IInv, TypeOK, ExecutionRow
<1>5. \A i \in AttemptIds : Quiet(executions[i], FALSE) => physical[i] = "ended"
    BY DEF Quiet, durable_quiescence, RInv, LInv, IInv, Evidence
<1> HIDE DEF Row, out, ending
<1>6. /\ LeasesClose({})
      /\ \A i \in AttemptIds : i \in ending => leases'[i] # "ACTIVE"
    BY <1>1, <1>3, ClosingLeases
<1>7. \A i \in AttemptIds : \/ executions'[i] = executions[i]
                            \/ /\ i \in ending /\ executions[i].state \in LiveExecution
                               /\ executions'[i] = Row(i)
    BY <1>1
<1>8. ASSUME NEW i \in AttemptIds PROVE RowStep(i) /\ Undisturbed(i)
    <2>1. CASE executions'[i] = executions[i]
        BY <1>6, <2>1 DEF RowStep, Undisturbed, Sound, Contradictory, SharedWriterClosed,
                           Onwards, HasExecution, LeasesClose
    <2>2. CASE i \in ending /\ executions[i].state \in LiveExecution /\ executions'[i] = Row(i)
        <3>1. executions'[i].state \in {"TERMINATED", "LOST"} /\ HasExecution(i)
            BY <1>4, <2>2 DEF HasExecution, LiveExecution
        <3>2. executions'[i].state = "TERMINATED" => physical'[i] = "ended"
            BY <1>4, <1>5, <2>2 DEF Onwards
        <3> QED
            BY <1>6, <2>2, <3>1, <3>2 DEF RowStep, Undisturbed, Sound, Contradictory, HasExecution
    <2> QED
        BY <1>7, <2>1, <2>2
<1> QED
    BY <1>8 DEF Careful

\* Root's word on a writer is about an attempt that is over.
LEMMA FinalizeCareful ==
    ASSUME RInv, Onwards, NEW t \in Tasks, NEW q \in BOOLEAN, Truthful(Latest(t), q),
           tasks[t].state \in {"SUSPENDED", "CANCELLED"}, leases' = leases,
           FinalizeWriter(t, q)
    PROVE  Careful({})
<1> USE Zenon
<1>1. PICK id : id = Latest(t)
    OBVIOUS
<1> DEFINE row == FinalizedExecution(executions[id], q)
<1>2. executions' = [executions EXCEPT ![id] = row]
    BY ZenonT(60), <1>1 DEF FinalizeWriter
<1>3. LeasesClose({})
    BY DEF LeasesClose
<1>4. CASE id \notin AttemptIds
    <2>1. executions' = executions
        BY SMT, <1>2, <1>4 DEF RInv, LInv, IInv, TypeOK
    <2> QED
        BY <1>3, <2>1, RowsAlone
<1>5. CASE id \in AttemptIds
    <2>1. executions[id] \in ExecutionRow
        BY <1>5 DEF RInv, LInv, IInv, TypeOK
    <2>2. q => physical[id] = "ended"
        BY <1>1, <1>5 DEF Truthful
    <2>3. id[1] = t
        BY <1>1 DEF Latest
    <2>4. leases[id] # "ACTIVE"
        BY <1>5, <2>3 DEF RInv, LInv, IInv, Agreement
    <2>5. /\ row.state = "NONE" <=> executions[id].state = "NONE"
          /\ row.state = "TERMINATED" => executions[id].state = "TERMINATED" \/ q
          /\ row.state \in {"SUCCEEDED", "FAILED"} =>
                row.state = executions[id].state /\ (executions[id].terminal => row.terminal)
          /\ row.isolated = executions[id].isolated /\ row.classed = executions[id].classed
        <3>1. CASE executions[id].state = "NONE"
            BY <3>1 DEF FinalizedExecution
        <3>2. CASE executions[id].state # "NONE" /\ q
            <4> DEFINE r == [executions[id] EXCEPT
                                !.state = IF @ \in LiveExecution \cup {"LOST"} THEN "TERMINATED" ELSE @,
                                !.terminal = TRUE, !.quiescent = TRUE]
            <4>1. row = r
                BY ZenonT(60), <3>2 DEF FinalizedExecution
            <4>2. /\ r.state = IF executions[id].state \in LiveExecution \cup {"LOST"}
                               THEN "TERMINATED" ELSE executions[id].state
                  /\ r.terminal = TRUE
                  /\ r.isolated = executions[id].isolated /\ r.classed = executions[id].classed
                BY ZenonT(60), <2>1 DEF ExecutionRow
            <4> HIDE DEF r, row
            <4> QED
                BY ZenonT(60), <3>2, <4>1, <4>2
        <3>3. CASE executions[id].state # "NONE" /\ ~q
            <4> DEFINE r == [executions[id] EXCEPT
                                !.state = IF @ \in LiveExecution THEN "LOST" ELSE @]
            <4>1. row = r \/ row = executions[id]
                BY ZenonT(60), <3>3 DEF FinalizedExecution
            <4>2. /\ r.state = IF executions[id].state \in LiveExecution THEN "LOST"
                               ELSE executions[id].state
                  /\ r.terminal = executions[id].terminal
                  /\ r.isolated = executions[id].isolated /\ r.classed = executions[id].classed
                BY ZenonT(60), <2>1 DEF ExecutionRow
            <4> HIDE DEF r, row
            <4> QED
                BY ZenonT(60), <3>3, <4>1, <4>2
        <3> QED
            BY <3>1, <3>2, <3>3
    <2> HIDE DEF row
    <2>6. executions'[id] = row /\ \A i \in AttemptIds \ {id} : executions'[i] = executions[i]
        BY <1>2, <1>5 DEF RInv, LInv, IInv, TypeOK
    <2>7. RowStep(id) /\ (HasExecution(id)' => HasExecution(id))
        BY <1>5, <2>2, <2>4, <2>5, <2>6 DEF RowStep, Sound, Contradictory, SharedWriterClosed,
                                           Onwards, HasExecution
    <2> QED
        BY <1>3, <1>5, <2>4, <2>6, <2>7, OneRow
<1> QED
    BY <1>4, <1>5

\* The host, Root, the workers, the processes and the clock.
LEMMA OthersCareful ==
    ASSUME RInv, Onwards,
           \/ HostCalls \/ Root \/ WorkerAck \/ Processes
           \/ \E id \in AttemptIds : LeaseElapses(id)
    PROVE  Careful({})
<1> USE Zenon
<1>1. ASSUME executions' = executions, leases' = leases PROVE Careful({})
    BY <1>1, RowsAlone DEF LeasesClose
<1>2. CASE HostCalls
    BY <1>1, <1>2, CancelTaskCareful, CancelBatchCareful
    DEF HostCalls, submit_batch, resize_partition, reconcile_pool, ack_result
<1>3. CASE Root
    <2>1. ASSUME NEW t \in Tasks, NEW q \in BOOLEAN, Truthful(Latest(t), q), resolve_retry(t, q)
          PROVE  Careful({})
        <3>1. tasks[t].state \in {"SUSPENDED", "CANCELLED"} /\ leases' = leases
            BY <2>1 DEF resolve_retry
        <3>2. FinalizeWriter(t, q) \/ executions' = executions
            BY <2>1 DEF resolve_retry
        <3> QED
            BY <1>1, <2>1, <3>1, <3>2, FinalizeCareful
    <2>2. ASSUME NEW t \in Tasks, NEW q \in BOOLEAN, Truthful(Latest(t), q),
                 release_cancelled_writer(t, q)
          PROVE  Careful({})
        <3>1. /\ tasks[t].state \in {"SUSPENDED", "CANCELLED"} /\ leases' = leases
              /\ FinalizeWriter(t, q)
            BY <2>2 DEF release_cancelled_writer
        <3> QED
            BY <2>2, <3>1, FinalizeCareful
    <2>3. ASSUME NEW t \in Tasks, resolve_cancel_task(t) PROVE Careful({})
        BY <1>1, <2>3 DEF resolve_cancel_task
    <2> QED
        BY <1>3, <2>1, <2>2, <2>3 DEF Root
<1>4. CASE WorkerAck
    BY <1>4, AckCareful DEF WorkerAck
<1>5. CASE Processes
    BY <1>1, <1>5 DEF Processes, PhysicalStep
<1>6. CASE \E id \in AttemptIds : LeaseElapses(id)
    <2>1. PICK id \in AttemptIds : LeaseElapses(id)
        BY <1>6
    <2>2. LeasesClose({}) /\ executions' = executions
        BY <2>1 DEF LeasesClose, LeaseElapses, RInv, LInv, IInv, TypeOK
    <2> QED
        BY <2>2, RowsAlone
<1> QED
    BY <1>2, <1>3, <1>4, <1>5, <1>6

----------------------------------------------------------------------------
(* The inductive invariant *)

Rows == \A id \in AttemptIds : Sound(id)

Reviving == \A g \in Agents : agents[g].state = "REVIVING" => agents[g].task = NoTask

\* The observer has written down what it saw, and the NACK is still to come.
Nacking(id) ==
    /\ ticket.id = id
    /\ \/ ticket.step = "nack lost" /\ executions[id].state = "LOST"
       \/ ticket.step = "nack ended" /\ executions[id].state = "TERMINATED"

\* What is watched was started, and runs as long as its lease holds, unless the
\* observer is about to close it.
Seen(id) ==
    /\ HasExecution(id)
    /\ leases[id] = "ACTIVE" => executions[id].state = "RUNNING" \/ Nacking(id)

Watch ==
    /\ \A id \in watched : Seen(id)
    /\ ticket.step # "idle" => ticket.id \in watched
    /\ ticket.step = "ended" => physical[ticket.id] = "ended"

\* The claim in dispatch has no execution before the commitment; after it, as long as
\* its lease holds, the execution is as the dispatcher left it.
Before == {"resolve", "unavailable", "create"}
During == {"start", "observed", "confirm", "unresolved", "nack", "ended"}

Committed ==
    /\ pc \in During => executions[claim].state \in LiveExecution
    /\ pc = "nack ended" => executions[claim].state = "TERMINATED"
    /\ pc = "admit" => executions[claim].state = "RUNNING"

Dispatched ==
    pc \in Dispatching =>
        /\ claim \notin watched
        /\ pc \in Before => ~HasExecution(claim)
        /\ pc \notin Before => HasExecution(claim)
        /\ leases[claim] = "ACTIVE" => Committed

----------------------------------------------------------------------------
(* What the observer watches *)

\* Steps that leave the ticket and what is watched alone, or add what runs.
LEMMA WatchKept ==
    ASSUME Onwards, RInv, Watch, NEW X, Careful(X), ticket' = ticket,
           \A id \in watched' : \/ id \in watched /\ id \notin X
                               \/ /\ HasExecution(id)'
                                  /\ leases'[id] = "ACTIVE" => executions'[id].state = "RUNNING",
           ticket.step # "idle" => ticket.id \in watched'
    PROVE  Watch'
<1> USE Zenon
<1>1. ASSUME NEW id \in watched, id \notin X PROVE Seen(id)'
    <2>1. id \in AttemptIds /\ Seen(id) /\ RowStep(id) /\ Undisturbed(id)
        BY <1>1 DEF RInv, LInv, Receipts, Watch, Careful
    <2>2. HasExecution(id)'
        BY <2>1 DEF Seen, RowStep
    <2>3. ASSUME leases'[id] = "ACTIVE" PROVE executions'[id].state = "RUNNING" \/ Nacking(id)'
        BY <2>1, <2>3 DEF Seen, Undisturbed, Nacking
    <2> QED
        BY <2>2, <2>3 DEF Seen
<1>2. \A id \in watched' : Seen(id)'
    BY <1>1 DEF Seen
<1>3. ticket.step = "ended" => ticket.id \in AttemptIds /\ physical[ticket.id] = "ended"
    BY DEF RInv, LInv, Receipts, TicketOK, Watch
<1>4. ticket.step = "ended" => physical'[ticket.id] = "ended"
    BY <1>3 DEF Onwards
<1> QED
    BY <1>2, <1>4 DEF Watch

\* The observer works on one execution and forgets it, or is about to close it.
LEMMA WatchApplied ==
    ASSUME RInv, Watch, Careful({ticket.id}), watched' \subseteq watched,
           \/ ticket' = NoTicket /\ ticket.id \notin watched'
           \/ /\ ticket'.id = ticket.id /\ ticket'.step \in {"nack lost", "nack ended"}
              /\ watched' = watched /\ ticket.step # "idle"
              /\ Nacking(ticket.id)'
    PROVE  Watch'
<1> USE Zenon
<1>1. PICK tid : tid = ticket.id
    OBVIOUS
<1>2. ASSUME NEW id \in watched, id # tid PROVE Seen(id)'
    <2>1. id \in AttemptIds /\ Seen(id) /\ RowStep(id) /\ Undisturbed(id)
        BY <1>1, <1>2 DEF RInv, LInv, Receipts, Watch, Careful
    <2>2. HasExecution(id)'
        BY <2>1 DEF Seen, RowStep
    <2>3. ASSUME leases'[id] = "ACTIVE" PROVE executions'[id].state = "RUNNING"
        BY <1>1, <1>2, <2>1, <2>3 DEF Seen, Undisturbed, Nacking
    <2> QED
        BY <2>2, <2>3 DEF Seen
<1>3. CASE ticket' = NoTicket /\ ticket.id \notin watched'
    <2>1. NoTicket.step = "idle"
        BY DEF NoTicket
    <2> QED
        BY <1>1, <1>2, <1>3, <2>1 DEF Watch
<1>4. CASE /\ ticket'.id = ticket.id /\ ticket'.step \in {"nack lost", "nack ended"}
           /\ watched' = watched /\ ticket.step # "idle" /\ Nacking(ticket.id)'
    <2>1. tid \in watched /\ tid \in AttemptIds /\ Seen(tid) /\ RowStep(tid)
        BY <1>1, <1>4 DEF RInv, LInv, Receipts, Watch, Careful
    <2>2. Nacking(tid)'
        BY <1>1, <1>4 DEF Nacking
    <2>3. Seen(tid)'
        BY <2>1, <2>2 DEF Seen, RowStep
    <2> QED
        BY <1>1, <1>2, <1>4, <2>1, <2>3 DEF Watch
<1> QED
    BY <1>3, <1>4

\* The observer takes up an execution.
LEMMA WatchTaken ==
    ASSUME Watch, NEW id \in watched, UNCHANGED <<executions, leases, physical, watched>>,
           ticket.step = "idle",
           \/ ticket' = [id |-> id, step |-> "lost"]
           \/ physical[id] = "ended" /\ ticket' = [id |-> id, step |-> "ended"]
    PROVE  Watch'
<1>1. \A i \in watched : Seen(i)'
    BY Zenon DEF Watch, Seen, Nacking, HasExecution
<1>2. ticket'.id = id /\ (ticket'.step = "ended" => physical[id] = "ended")
    OBVIOUS
<1> QED
    BY Zenon, <1>1, <1>2 DEF Watch

\* The consequences of an observation, and that they find what they expect.
LEMMA ApplyKeepsWatch ==
    ASSUME RInv, Onwards, Rows, Watch, Apply
    PROVE  /\ Careful({ticket.id}) /\ Watch'
           /\ UNCHANGED <<failed, loopVars>>
           /\ watched' \subseteq watched /\ ticket.id \in watched /\ ticket.id \in AttemptIds
           /\ \A id \in watched : id \in watched' \/ (id = ticket.id /\ leases'[id] # "ACTIVE")
           /\ ticket' = NoTicket \/ ticket'.id = ticket.id
<1> USE Zenon
<1>1. ticket.step # "idle" /\ ticket.id \in watched /\ ticket.id \in AttemptIds
    BY DEF Apply, ApplyLost, ApplyEnded, nack_current, Watch, RInv, LInv, Receipts, TicketOK
<1>2. PICK tid : tid = ticket.id /\ tid \in AttemptIds /\ Seen(tid) /\ Sound(tid)
    BY <1>1 DEF Watch, Rows
<1>3. ticket \in [id : Claims, step : TicketSteps]
    BY DEF RInv, LInv, Receipts, TicketOK
<1>4. \A step : [ticket EXCEPT !.step = step].id = ticket.id
                /\ [ticket EXCEPT !.step = step].step = step
    BY <1>3
<1>5. NoTicket.step = "idle"
    BY DEF NoTicket
<1>6. CASE ApplyLost
    <2>1. CASE physical_transition_allowed(executions[tid].state, "LOST")
        <3>1. /\ record_physical_outcome(tid, "LOST", TRUE, FALSE, FALSE)
              /\ ticket' = [ticket EXCEPT !.step = "nack lost"] /\ watched' = watched
              /\ UNCHANGED <<failed, loopVars>>
            BY <1>2, <1>6, <2>1 DEF ApplyLost, ObserverStep
        <3>2. ticket'.id = tid /\ ticket'.step = "nack lost"
            BY <1>2, <1>4, <3>1
        <3>3. "LOST" \in {"UNKNOWN", "LOST", "RUNNING", "TERMINATED"} /\ "LOST" # "TERMINATED"
            OBVIOUS
        <3>4. Careful({tid}) /\ executions'[tid].state = "LOST"
            BY <1>2, <3>1, <3>3, RecordCareful
        <3>5. Nacking(tid)'
            BY <3>2, <3>4 DEF Nacking
        <3>6. Watch'
            BY <1>1, <1>2, <3>1, <3>2, <3>4, <3>5, WatchApplied DEF Nacking
        <3> QED
            BY <1>1, <1>2, <3>1, <3>2, <3>4, <3>6
    <2>2. CASE ~physical_transition_allowed(executions[tid].state, "LOST")
        <3>1. Forget /\ UNCHANGED vars /\ UNCHANGED <<failed, loopVars>>
            BY <1>2, <1>6, <2>2 DEF ApplyLost, ObserverStep
        <3>2. executions' = executions /\ leases' = leases
            BY <3>1 DEF vars
        <3>3. Careful({tid})
            BY <3>2, RowsAlone DEF LeasesClose
        <3>4. leases'[tid] # "ACTIVE"
            <4>1. executions[tid].state # "RUNNING"
                BY <2>2 DEF physical_transition_allowed
            <4>2. ~Nacking(tid)
                BY <1>6 DEF ApplyLost, Nacking
            <4> QED
                BY <1>2, <3>2, <4>1, <4>2 DEF Seen
        <3>5. ticket' = NoTicket /\ watched' = watched \ {tid}
            BY <1>2, <3>1 DEF Forget
        <3>6. Watch'
            BY <1>2, <3>3, <3>5, WatchApplied
        <3> QED
            BY <1>1, <1>2, <3>1, <3>3, <3>4, <3>5, <3>6
    <2> QED
        BY <2>1, <2>2
<1>7. CASE ApplyEnded
    <2>1. EndIsLegal(tid)
        <3>1. executions[tid].state \in ExecutionState
            BY <1>2 DEF Seen, HasExecution, RInv, LInv, IInv, TypeOK, ExecutionRow
        <3> QED
            BY <3>1 DEF EndIsLegal, physical_transition_allowed, ExecutionState, EndedExecution
    <2>2. /\ record_physical_outcome(tid, "TERMINATED", TRUE, FALSE, FALSE)
          /\ ticket' = [ticket EXCEPT !.step = "nack ended"] /\ watched' = watched
          /\ UNCHANGED <<failed, loopVars>>
        BY <1>2, <1>7, <2>1 DEF ApplyEnded, ObserverStep, RecordEnd
    <2>3. ticket'.id = tid /\ ticket'.step = "nack ended"
        BY <1>2, <1>4, <2>2
    <2>4. physical[tid] = "ended"
        BY <1>2, <1>7 DEF ApplyEnded, Watch
    <2>5. Careful({tid}) /\ executions'[tid].state = "TERMINATED"
        BY <1>2, <2>2, <2>4, RecordCareful
    <2>6. Nacking(tid)'
        BY <2>3, <2>5 DEF Nacking
    <2>7. Watch'
        BY <1>1, <1>2, <2>2, <2>3, <2>5, <2>6, WatchApplied DEF Nacking
    <2> QED
        BY <1>1, <1>2, <2>2, <2>3, <2>5, <2>7
<1>8. CASE nack_current
    <2>1. CASE ~validate_authority(tid)
        <3>1. Forget /\ UNCHANGED vars /\ UNCHANGED <<failed, loopVars>>
            BY <1>2, <1>8, <2>1 DEF nack_current, ObserverStep
        <3>2. executions' = executions /\ leases' = leases
            BY <3>1 DEF vars
        <3>3. Careful({tid})
            BY <3>2, RowsAlone DEF LeasesClose
        <3>4. leases'[tid] # "ACTIVE"
            BY <1>2, <2>1, <3>2 DEF validate_authority, RInv, LInv, IInv, Agreement, Active
        <3>5. ticket' = NoTicket /\ watched' = watched \ {tid}
            BY <1>2, <3>1 DEF Forget
        <3>6. Watch'
            BY <1>2, <3>3, <3>5, WatchApplied
        <3> QED
            BY <1>1, <1>2, <3>1, <3>3, <3>4, <3>5, <3>6
    <2>2. CASE validate_authority(tid)
        <3>1. executions[tid].state # "SUCCEEDED"
            BY <1>2, <2>2 DEF validate_authority, Seen, Nacking
        <3>2. PICK c : PlainNack(tid, c) /\ Forget /\ UNCHANGED <<failed, loopVars>>
            BY <1>2, <1>8, <2>2, <3>1 DEF nack_current, ObserverStep
        <3>3. Careful({}) /\ leases'[tid] # "ACTIVE"
            BY <1>2, <3>2, NackCareful DEF PlainNack
        <3>4. Careful({tid})
            BY <3>3, CarefulMore
        <3>5. ticket' = NoTicket /\ watched' = watched \ {tid}
            BY <1>2, <3>2 DEF Forget
        <3>6. Watch'
            BY <1>2, <3>4, <3>5, WatchApplied
        <3> QED
            BY <1>1, <1>2, <3>2, <3>3, <3>4, <3>5, <3>6
    <2> QED
        BY <2>1, <2>2
<1> QED
    BY <1>6, <1>7, <1>8 DEF Apply

----------------------------------------------------------------------------
(* The dispatcher is refused nothing *)

Trouble == {"commit", "confirm", "nack", "ended", "observer"}

\* The lease is the authority.
LEMMA LeaseIsAuthority ==
    ASSUME RInv, NEW id \in AttemptIds
    PROVE  validate_authority(id) <=> leases[id] = "ACTIVE"
BY Zenon DEF validate_authority, RInv, LInv, IInv, Agreement, Active

\* The host of a claim in authority is free: a live execution on a live incarnation is
\* that of the ACTIVE attempt of its agent, and the claim has none yet.
LEMMA AuthorityCommits ==
    ASSUME RInv, Hosted, NEW id \in AttemptIds, validate_authority(id), ~HasExecution(id)
    PROVE  Committable(id)
<1> USE Zenon
<1>1. PICK g \in Agents : /\ g = attempts[id].agent
                          /\ agents[g].state \in {"ASSIGNED", "DRAINING"}
    BY AuthorityIsActive DEF RInv, LInv, IInv, Binding
<1>2. ASSUME NEW other \in AttemptIds,
             IncarnationOf(other) \in {g} \X LiveGenerations(g),
             executions[other].state \in LiveExecution
      PROVE  FALSE
    <2>1. attempts[other].agent = g /\ HostLive(other)
        <3>1. /\ attempts[other].agent = g
              /\ attempts[other].incarnation \in LiveGenerations(g)
            BY <1>2 DEF IncarnationOf
        <3>2. \A n \in LiveGenerations(g) : incarnations[<<g, n>>] \in LiveIncarnation
            BY DEF LiveGenerations
        <3> QED
            BY <3>1, <3>2 DEF HostLive, IncarnationOf
    <2>2. Active(other)
        BY <1>2, <2>1 DEF Hosted, Housed, Running
    <2>3. other = id
        BY <1>1, <2>1, <2>2, AuthorityIsActive, OneAttemptPerAgent DEF RInv, LInv
    <2> QED
        BY <1>2, <2>3 DEF HasExecution, LiveExecution
<1> QED
    BY <1>1, <1>2 DEF Committable

\* The rows stay sound, whatever a careful step does.
LEMMA RowsKept == ASSUME Rows, NEW X, Careful(X) PROVE Rows'
BY Zenon DEF Rows, Careful, RowStep

\* Steps of the loop outside of a dispatch.
LEMMA LoopOutsideKeeps ==
    ASSUME RInv, Onwards, Rows, Watch, NEW X, Careful(X), \A id \in X : id \notin watched,
           pc' \notin Dispatching, UNCHANGED watchVars
    PROVE  Rows' /\ Watch' /\ Dispatched'
<1> USE Zenon
<1>1. watched' = watched /\ ticket' = ticket
    BY DEF watchVars
<1>2. ticket.step # "idle" => ticket.id \in watched'
    BY <1>1 DEF Watch
<1>3. Watch'
    BY <1>1, <1>2, WatchKept
<1> QED
    BY <1>3, RowsKept DEF Dispatched

\* Steps of the loop in a dispatch: the claim in hand is not watched yet.
LEMMA LoopInsideKeeps ==
    ASSUME RInv, Onwards, Rows, Watch, Dispatched, pc \in Dispatching, Careful({claim}),
           claim' = claim, UNCHANGED watchVars,
           pc' \in Before => ~HasExecution(claim)',
           pc' \in Dispatching \ Before => HasExecution(claim)',
           leases'[claim] = "ACTIVE" => Committed'
    PROVE  Rows' /\ Watch' /\ Dispatched'
<1> USE Zenon
<1>1. watched' = watched /\ ticket' = ticket
    BY DEF watchVars
<1>2. ticket.step # "idle" => ticket.id \in watched'
    BY <1>1 DEF Watch
<1>3. claim \notin watched
    BY DEF Dispatched
<1>4. Watch'
    BY <1>1, <1>2, <1>3, WatchKept
<1>5. Dispatched'
    BY <1>1, <1>3 DEF Dispatched, HasExecution
<1> QED
    BY <1>4, <1>5, RowsKept

\* Maintenance.
LEMMA MaintenanceKeeps ==
    ASSUME RInv, Onwards, Rows, Watch, failed \notin Trouble,
           Maintain \/ Promote \/ ListRevivals \/ Revive \/ Ensure
    PROVE  Rows' /\ Watch' /\ Dispatched' /\ failed' \notin Trouble
<1> USE Zenon
<1>1. ASSUME executions' = executions, leases' = leases PROVE Careful({})
    BY <1>1, RowsAlone DEF LeasesClose
<1>2. (executions' = executions /\ leases' = leases) \/ Careful({})
    BY ExpireCareful
    DEF Maintain, reconcile_pool, Promote, promote_retry_wait, ListRevivals, Revive, revive_agent,
        Ensure, ensure_task_consumers, Fail, vars
<1>3. pc' \notin Dispatching
    BY DEF Maintain, Promote, ListRevivals, Revive, Ensure, Goto, Fail, Dispatching
<1>4. UNCHANGED watchVars /\ (failed' = failed \/ failed' = "revive")
    BY DEF Maintain, Promote, ListRevivals, Revive, Ensure, Quietly, Fail
<1>5. "revive" \notin Trouble
    BY DEF Trouble
<1> QED
    BY <1>1, <1>2, <1>3, <1>4, <1>5, LoopOutsideKeeps

\* The claim.
LEMMA ClaimKeeps ==
    ASSUME RInv, Hosted, Onwards, Rows, Watch, failed \notin Trouble, dispatch_one
    PROVE  Rows' /\ Watch' /\ Dispatched' /\ failed' \notin Trouble
<1> USE Zenon
<1>0. failed' = failed /\ UNCHANGED watchVars
    BY DEF dispatch_one, Quietly
<1>1. CASE CycleEnds /\ UNCHANGED vars
    <2>1. executions' = executions /\ leases' = leases
        BY <1>1 DEF vars
    <2>2. Careful({})
        BY <2>1, RowsAlone DEF LeasesClose
    <2>3. pc' \notin Dispatching
        BY <1>1 DEF CycleEnds, Dispatching
    <2> QED
        BY <1>0, <2>2, <2>3, LoopOutsideKeeps
<1>2. CASE ~(CycleEnds /\ UNCHANGED vars)
    <2>1. PICK p \in Tasks \X Agents :
             /\ tasks[p[1]].epoch < MaxClaims /\ claim_selected(p[1], p[2])
             /\ pc' = "resolve" /\ claim' = <<p[1], tasks[p[1]].epoch + 1>>
        BY <1>2 DEF dispatch_one
    <2>0. PICK t \in Tasks : t = p[1]
        OBVIOUS
    <2>2. PICK id : id = <<t, tasks[t].epoch + 1>> /\ claim' = id
        BY <2>0, <2>1
    <2>3. tasks[t].epoch \in 0..MaxClaims
        BY DEF RInv, LInv, IInv, TypeOK, TaskRow
    <2>4. id \in AttemptIds /\ id[1] = t /\ ~(id[2] <= tasks[t].epoch)
        BY SMT, <2>0, <2>1, <2>2, <2>3, KernelAssumption DEF AttemptIds
    <2>5. ~HasExecution(id)
        BY <2>4 DEF Hosted, Housed
    <2>6. executions' = executions /\ leases' = [leases EXCEPT ![id] = "ACTIVE"]
        BY <2>0, <2>1, <2>2 DEF claim_selected
    <2>7. LeasesClose({id})
        BY <2>5, <2>6 DEF LeasesClose, RInv, LInv, IInv, TypeOK
    <2>8. Careful({id})
        BY <2>6, <2>7, RowsAlone
    <2>9. id \notin watched
        BY <2>5 DEF Watch, Seen
    <2>10. watched' = watched /\ ticket' = ticket /\ (ticket.step # "idle" => ticket.id \in watched')
        BY <1>0 DEF watchVars, Watch
    <2>11. Watch'
        BY <2>8, <2>9, <2>10, WatchKept
    <2>12. Dispatched'
        <3>1. pc' \in Before /\ pc' \notin During /\ pc' # "nack ended" /\ pc' # "admit"
            BY <2>1 DEF Before, During
        <3>2. ~HasExecution(id)'
            BY <2>5, <2>6 DEF HasExecution
        <3> QED
            BY <2>2, <2>9, <2>10, <3>1, <3>2 DEF Dispatched, HasExecution, Committed
    <2> QED
        BY <1>0, <2>8, <2>11, <2>12, RowsKept
<1> QED
    BY <1>1, <1>2

\* A step without a transaction disturbs nobody.
LEMMA IdleCareful ==
    ASSUME Onwards, UNCHANGED vars, NEW X
    PROVE  Careful(X)
<1> USE Zenon
<1>1. executions' = executions /\ leases' = leases
    BY DEF vars
<1> QED
    BY <1>1, RowsAlone DEF LeasesClose

\* The dispatch until the process is asked for.
LEMMA EarlyDispatchKeeps ==
    ASSUME RInv, Hosted, Onwards, Rows, Watch, Dispatched, failed \notin Trouble,
           \/ Resolve_environment \/ nack_configuration_unavailable \/ CommitExecution
           \/ StartExecution \/ StartReturns
    PROVE  Rows' /\ Watch' /\ Dispatched' /\ failed' \notin Trouble
<1> USE Zenon
<1>0. pc \in Dispatching /\ "expire" \notin Dispatching /\ "failed" \notin Dispatching
    BY DEF Dispatching, Resolve_environment, nack_configuration_unavailable, CommitExecution,
           StartExecution, StartReturns
<1>1. claim \in AttemptIds /\ claim \notin watched
    BY <1>0 DEF RInv, LInv, Receipts, Dispatched
<1>2. ASSUME UNCHANGED vars, pc' \notin Dispatching, UNCHANGED watchVars
      PROVE  Rows' /\ Watch' /\ Dispatched'
    <2>1. Careful({claim})
        BY <1>2, IdleCareful
    <2> QED
        BY <1>1, <1>2, <2>1, LoopOutsideKeeps
<1>3. ASSUME UNCHANGED vars, claim' = claim, UNCHANGED watchVars,
             pc' \in Before => pc \in Before,
             pc' \in Dispatching \ Before => pc \notin Before,
             leases[claim] = "ACTIVE" => Committed'
      PROVE  Rows' /\ Watch' /\ Dispatched'
    <2>1. executions' = executions /\ leases' = leases
        BY <1>3 DEF vars
    <2>2. pc' \in Before => ~HasExecution(claim)'
        BY <1>0, <1>3, <2>1 DEF Dispatched, HasExecution
    <2>3. pc' \in Dispatching \ Before => HasExecution(claim)'
        BY <1>0, <1>3, <2>1 DEF Dispatched, HasExecution
    <2> QED
        BY <1>0, <1>3, <2>1, <2>2, <2>3, IdleCareful, LoopInsideKeeps
<1>4. CASE Resolve_environment
    <2>1. UNCHANGED vars /\ UNCHANGED watchVars /\ failed' = failed /\ pc = "resolve"
        BY <1>4 DEF Resolve_environment, Quietly
    <2>2. CASE CycleEnds
        BY <1>0, <1>2, <2>1, <2>2 DEF CycleEnds
    <2>3. CASE Goto("create") \/ Goto("unavailable")
        <3>1. claim' = claim /\ pc' \in Before /\ pc \in Before /\ pc' \notin During
              /\ pc' # "nack ended" /\ pc' # "admit"
            BY <2>1, <2>3 DEF Goto, Before, During
        <3> QED
            BY <1>3, <2>1, <3>1 DEF Committed
    <2> QED
        BY <1>4, <2>2, <2>3 DEF Resolve_environment
<1>5. CASE nack_configuration_unavailable
    <2>1. UNCHANGED watchVars /\ failed' = failed /\ pc' \notin Dispatching
        BY <1>0, <1>5 DEF nack_configuration_unavailable, CycleEnds, Quietly
    <2>2. CASE UNCHANGED vars
        BY <1>2, <2>1, <2>2
    <2>3. CASE report_configuration_unavailable(claim)
        <3>1. FALSE \in BOOLEAN /\ nack(claim, "RESOURCE_UNAVAILABLE", FALSE, FALSE, FALSE)
            BY <2>3 DEF report_configuration_unavailable
        <3>2. Careful({})
            BY <1>1, <3>1, NackCareful
        <3> QED
            BY <2>1, <3>2, LoopOutsideKeeps
    <2> QED
        BY <1>5, <2>2, <2>3 DEF nack_configuration_unavailable
<1>6. CASE CommitExecution
    <2>1. pc = "create" /\ pc \in Before
        BY <1>6 DEF CommitExecution, Before
    <2>2. ~HasExecution(claim)
        BY <1>0, <2>1 DEF Dispatched
    <2>3. CASE Fail("create")
        <3>1. UNCHANGED vars /\ UNCHANGED watchVars /\ pc' = "failed" /\ failed' = "create"
            BY <2>3 DEF Fail
        <3>2. "create" \notin Trouble
            BY DEF Trouble
        <3> QED
            BY <1>0, <1>2, <3>1, <3>2
    <2>4. CASE ~Fail("create")
        <3>1. validate_authority(claim)
            BY <1>6, <2>4 DEF CommitExecution
        <3>2. Committable(claim)
            BY <1>1, <2>2, <3>1, AuthorityCommits
        <3>3. PICK isolated \in Isolation : create_execution(claim, isolated)
            BY <1>6, <3>1, <3>2 DEF CommitExecution
        <3>4. /\ pc' = "start" /\ claim' = claim /\ failed' = failed /\ UNCHANGED watchVars
            BY <1>6, <3>1, <3>2 DEF CommitExecution, Goto, Quietly
        <3>5. Careful({claim}) /\ leases' = leases /\ executions'[claim].state = "STARTING"
            BY <1>1, <3>3, CreateCareful
        <3>6. "STARTING" \in LiveExecution /\ "STARTING" # "NONE"
            BY DEF LiveExecution
        <3>7. pc' \notin Before /\ pc' # "nack ended" /\ pc' # "admit"
            BY <3>4 DEF Before
        <3>8. HasExecution(claim)'
            BY <3>4, <3>5, <3>6 DEF HasExecution
        <3>9. Committed'
            BY <3>4, <3>5, <3>6, <3>7 DEF Committed
        <3> QED
            BY <1>0, <3>4, <3>5, <3>7, <3>8, <3>9, LoopInsideKeeps
    <2> QED
        BY <2>3, <2>4
<1>7. CASE StartExecution \/ StartReturns
    <2>1. UNCHANGED vars /\ UNCHANGED watchVars /\ failed' = failed /\ claim' = claim
        BY <1>7 DEF StartExecution, StartReturns, Goto, Quietly
    <2>2. /\ pc \in During /\ pc \notin Before /\ pc' \in During /\ pc' \notin Before
          /\ pc' # "nack ended" /\ pc' # "admit"
        BY <1>7 DEF StartExecution, StartReturns, Goto, Before, During
    <2>3. executions' = executions
        BY <2>1 DEF vars
    <2>4. leases[claim] = "ACTIVE" => Committed'
        BY <1>0, <2>1, <2>2, <2>3 DEF Dispatched, Committed
    <2> QED
        BY <1>3, <2>1, <2>2, <2>4
<1> QED
    BY <1>4, <1>5, <1>6, <1>7

\* A record of what is not yet over is legal for every execution but a finished one,
\* and that of an end for every execution.
LEMMA RecordsAreLegal ==
    ASSUME NEW s \in ExecutionState \cup {"NONE"}
    PROVE  /\ s # "NONE" => physical_transition_allowed(s, "TERMINATED")
           /\ s \in {"STARTING", "UNKNOWN"} => physical_transition_allowed(s, "UNKNOWN")
           /\ s \in LiveExecution => physical_transition_allowed(s, "RUNNING")
BY Zenon DEF physical_transition_allowed, ExecutionState, EndedExecution, LiveExecution

\* The dispatch once the process was asked for.
LEMMA LateDispatchKeeps ==
    ASSUME RInv, Onwards, Rows, Watch, Dispatched, failed \notin Trouble,
           \/ Confirm \/ Admit \/ StaleStart \/ persist_unresolved_physical_then_nack
           \/ nack_start \/ NackHistory \/ CollectedEnd \/ NackEnded
    PROVE  Rows' /\ Watch' /\ Dispatched' /\ failed' \notin Trouble
<1> USE Zenon
<1>0. pc \in Dispatching \ Before /\ "expire" \notin Dispatching /\ "failed" \notin Dispatching
    BY DEF Dispatching, Before, Confirm, Admit, StaleStart, nack_start, NackHistory,
           persist_unresolved_physical_then_nack, CollectedEnd, NackEnded
<1>1. /\ claim \in AttemptIds /\ claim \notin watched /\ HasExecution(claim)
      /\ leases[claim] = "ACTIVE" => Committed
      /\ validate_authority(claim) <=> leases[claim] = "ACTIVE"
    BY <1>0, LeaseIsAuthority DEF RInv, LInv, Receipts, Dispatched
<1>2. ASSUME NEW X, Careful(X), X \subseteq {claim}, pc' \notin Dispatching, UNCHANGED watchVars
      PROVE  Rows' /\ Watch' /\ Dispatched'
    <2>1. \A id \in X : id \notin watched
        BY <1>1, <1>2
    <2> QED
        BY <1>2, <2>1, LoopOutsideKeeps
<1>3. ASSUME NEW call, Fail(call), call \notin Trouble
      PROVE  Rows' /\ Watch' /\ Dispatched' /\ failed' \notin Trouble
    <2>1. UNCHANGED vars /\ UNCHANGED watchVars /\ pc' = "failed" /\ failed' = call
        BY <1>3 DEF Fail
    <2> QED
        BY <1>0, <1>2, <1>3, <2>1, IdleCareful
<1>4. ASSUME UNCHANGED vars, CycleEnds, Quietly
      PROVE  Rows' /\ Watch' /\ Dispatched' /\ failed' \notin Trouble
    BY <1>0, <1>2, <1>4, IdleCareful DEF CycleEnds, Quietly
<1>5. ASSUME NEW place, Goto(place), UNCHANGED vars, Quietly, place \in Dispatching \ Before,
             leases[claim] # "ACTIVE"
      PROVE  Rows' /\ Watch' /\ Dispatched' /\ failed' \notin Trouble
    <2>1. /\ pc' = place /\ claim' = claim /\ UNCHANGED watchVars /\ failed' = failed
          /\ leases' = leases /\ executions' = executions
        BY <1>5 DEF Goto, Quietly, vars
    <2>2. Careful({claim})
        BY <1>5, IdleCareful
    <2>3. HasExecution(claim)'
        BY <1>1, <2>1 DEF HasExecution
    <2> QED
        BY <1>0, <1>5, <2>1, <2>2, <2>3, LoopInsideKeeps
<1>6. ASSUME NEW classed, RecordUnknown(classed), CycleEnds
      PROVE  Rows' /\ Watch' /\ Dispatched' /\ failed' \notin Trouble
    <2>1. Careful({claim})
        BY <1>1, <1>6, RecordCareful DEF RecordUnknown
    <2> QED
        BY <1>0, <1>2, <1>6, <2>1 DEF RecordUnknown, CycleEnds, Quietly
<1>7. ASSUME NEW c, PlainNack(claim, c), CycleEnds, Quietly
      PROVE  Rows' /\ Watch' /\ Dispatched' /\ failed' \notin Trouble
    <2>1. Careful({})
        BY <1>1, <1>7, NackCareful DEF PlainNack
    <2> QED
        BY <1>0, <1>2, <1>7, <2>1 DEF CycleEnds, Quietly
<1>8. CASE Confirm
    <2>1. pc = "confirm" /\ pc \in During
        BY <1>8 DEF Confirm, During
    <2>2. CASE ~validate_authority(claim)
        <3>1. Goto("stale") /\ UNCHANGED vars /\ Quietly
            BY <1>8, <2>2 DEF Confirm
        <3>2. "stale" \in Dispatching \ Before
            BY DEF Dispatching, Before
        <3> QED
            BY <1>1, <1>5, <2>2, <3>1, <3>2
    <2>3. CASE validate_authority(claim)
        <3>1. executions[claim].state \in LiveExecution
            BY <1>1, <2>1, <2>3 DEF Committed
        <3>2. confirm_running_and_renew(claim) /\ Goto("admit") /\ Quietly
            BY <1>8, <2>3, <3>1 DEF Confirm
        <3>3. /\ Careful({claim}) /\ executions'[claim].state = "RUNNING"
            BY <1>1, <3>2, ConfirmCareful
        <3>4. /\ pc' = "admit" /\ claim' = claim /\ UNCHANGED watchVars /\ failed' = failed
            BY <3>2 DEF Goto, Quietly
        <3>5. pc' \notin Before /\ pc' \notin During /\ pc' # "nack ended" /\ "RUNNING" # "NONE"
            BY <3>4 DEF Before, During
        <3>6. HasExecution(claim)' /\ Committed'
            BY <3>3, <3>4, <3>5 DEF Committed, HasExecution
        <3> QED
            BY <1>0, <3>3, <3>4, <3>5, <3>6, LoopInsideKeeps
    <2> QED
        BY <2>2, <2>3
<1>9. CASE Admit
    <2>0. PICK id : id = claim
        OBVIOUS
    <2>1. /\ pc = "admit" /\ watched' = watched \cup {id} /\ UNCHANGED vars /\ ticket' = ticket
          /\ failed' = failed /\ pc' \notin Dispatching
        BY <1>0, <1>9, <2>0 DEF Admit, CycleEnds
    <2>2. executions' = executions /\ leases' = leases
        BY <2>1 DEF vars
    <2>3. Careful({}) /\ (ticket.step # "idle" => ticket.id \in watched')
        BY <2>1, IdleCareful DEF Watch
    <2>4. HasExecution(id)' /\ (leases'[id] = "ACTIVE" => executions'[id].state = "RUNNING")
        BY <1>1, <2>0, <2>1, <2>2 DEF HasExecution, Committed
    <2>5. Watch'
        BY <2>1, <2>3, <2>4, WatchKept
    <2> QED
        BY <2>1, <2>3, <2>5, RowsKept DEF Dispatched
<1>10. "stale" \notin Trouble /\ "unresolved" \notin Trouble /\ "history" \notin Trouble
    BY DEF Trouble
<1>11. CASE StaleStart \/ NackHistory
    BY <1>3, <1>6, <1>10, <1>11 DEF StaleStart, NackHistory
<1>12. CASE persist_unresolved_physical_then_nack
    <2>1. CASE Fail("unresolved")
        BY <1>3, <1>10, <2>1
    <2>2. CASE RecordUnknown(TRUE) /\ Goto("nack")
        <3>1. "UNKNOWN" \in {"UNKNOWN", "LOST", "RUNNING", "TERMINATED"} /\ "UNKNOWN" # "TERMINATED"
            OBVIOUS
        <3>2. record_physical_outcome(claim, "UNKNOWN", TRUE, FALSE, FALSE)
            BY <2>2 DEF RecordUnknown
        <3>3. Careful({claim}) /\ executions'[claim].state = "UNKNOWN"
            BY <1>1, <3>1, <3>2, RecordCareful
        <3>4. /\ pc' = "nack" /\ claim' = claim /\ UNCHANGED watchVars /\ failed' = failed
            BY <2>2 DEF Goto, RecordUnknown, Quietly
        <3>5. /\ pc' \notin Before /\ pc' # "admit" /\ pc' # "nack ended" /\ "UNKNOWN" # "NONE"
              /\ "UNKNOWN" \in LiveExecution
            BY <3>4 DEF Before, LiveExecution
        <3>6. HasExecution(claim)' /\ Committed'
            BY <3>3, <3>4, <3>5 DEF Committed, HasExecution
        <3> QED
            BY <1>0, <3>3, <3>4, <3>5, <3>6, LoopInsideKeeps
    <2> QED
        BY <1>12, <2>1, <2>2 DEF persist_unresolved_physical_then_nack
<1>13. CASE nack_start
    <2>1. pc = "nack" /\ pc \in During
        BY <1>13 DEF nack_start, During
    <2>2. CASE ~validate_authority(claim)
        <3>1. Goto("history") /\ UNCHANGED vars /\ Quietly
            BY <1>13, <2>2 DEF nack_start
        <3>2. "history" \in Dispatching \ Before
            BY DEF Dispatching, Before
        <3> QED
            BY <1>1, <1>5, <2>2, <3>1, <3>2
    <2>3. CASE validate_authority(claim)
        <3>1. executions[claim].state \in LiveExecution /\ "SUCCEEDED" \notin LiveExecution
            BY <1>1, <2>1, <2>3 DEF Committed, LiveExecution
        <3> QED
            BY <1>7, <1>13, <2>3, <3>1 DEF nack_start
    <2> QED
        BY <2>2, <2>3
<1>14. CASE CollectedEnd
    <2>1. pc = "ended" /\ physical[claim] = "ended"
        BY <1>14 DEF CollectedEnd, RInv, BootReceipts
    <2>2. EndIsLegal(claim)
        <3>1. executions[claim].state \in ExecutionState \cup {"NONE"}
            BY <1>1 DEF RInv, LInv, IInv, TypeOK, ExecutionRow
        <3> QED
            BY <1>1, <3>1, RecordsAreLegal DEF EndIsLegal, HasExecution
    <2>3. RecordEnd(claim) /\ Goto("nack ended") /\ Quietly
        BY <1>14, <2>2 DEF CollectedEnd
    <2>4. "TERMINATED" \in {"UNKNOWN", "LOST", "RUNNING", "TERMINATED"}
        OBVIOUS
    <2>5. Careful({claim}) /\ executions'[claim].state = "TERMINATED"
        BY <1>1, <2>1, <2>3, <2>4, RecordCareful DEF RecordEnd
    <2>6. /\ pc' = "nack ended" /\ claim' = claim /\ UNCHANGED watchVars /\ failed' = failed
        BY <2>3 DEF Goto, Quietly
    <2>7. /\ pc' \notin Before /\ pc' \notin During /\ pc' # "admit" /\ "TERMINATED" # "NONE"
        BY <2>6 DEF Before, During
    <2>8. HasExecution(claim)' /\ Committed'
        BY <2>5, <2>6, <2>7 DEF Committed, HasExecution
    <2> QED
        BY <1>0, <2>5, <2>6, <2>7, <2>8, LoopInsideKeeps
<1>15. CASE NackEnded
    <2>1. validate_authority(claim) => executions[claim].state = "TERMINATED"
        BY <1>1, <1>15 DEF NackEnded, Committed
    <2>2. "TERMINATED" # "SUCCEEDED"
        OBVIOUS
    <2> QED
        BY <1>4, <1>7, <1>15, <2>1, <2>2 DEF NackEnded
<1> QED
    BY <1>8, <1>9, <1>11, <1>12, <1>13, <1>14, <1>15

\* Steps of the others leave the claim in dispatch alone.
LEMMA DispatchLeftAlone ==
    ASSUME RInv, Dispatched, NEW X, Careful(X), pc \in Dispatching => claim \notin X,
           UNCHANGED loopVars, watched' \subseteq watched
    PROVE  Dispatched'
<1> USE Zenon
<1>1. pc' = pc /\ claim' = claim
    BY DEF loopVars
<1>2. SUFFICES ASSUME pc \in Dispatching
               PROVE  Dispatched'
    BY <1>1 DEF Dispatched
<1>3. claim \in AttemptIds /\ RowStep(claim) /\ Undisturbed(claim)
    BY <1>2 DEF RInv, LInv, Receipts, Careful
<1>4. HasExecution(claim)' <=> HasExecution(claim)
    BY <1>1, <1>3 DEF RowStep, Undisturbed, HasExecution
<1>5. leases'[claim] = "ACTIVE" => leases[claim] = "ACTIVE" /\ executions'[claim] = executions[claim]
    BY <1>3 DEF Undisturbed
<1>6. leases'[claim] = "ACTIVE" => Committed'
    BY <1>1, <1>2, <1>5 DEF Dispatched, Committed
<1> QED
    BY <1>1, <1>2, <1>4, <1>6 DEF Dispatched

\* The daemon after READY.
LEMMA RunningKeeps ==
    ASSUME RInv, Hosted, Onwards, Rows, Watch, Dispatched, failed \notin Trouble, LoopNext
    PROVE  Rows' /\ Watch' /\ Dispatched' /\ failed' \notin Trouble
<1> USE Zenon
<1>1. CASE Loop
    BY <1>1, MaintenanceKeeps, ClaimKeeps, EarlyDispatchKeeps, LateDispatchKeeps DEF Loop
<1>2. ASSUME NEW id \in AttemptIds, observe_ticket(id)
      PROVE  Rows' /\ Watch' /\ Dispatched' /\ failed' \notin Trouble
    <2>1. /\ UNCHANGED vars /\ UNCHANGED loopVars /\ watched' = watched /\ failed' = failed
        BY <1>2 DEF observe_ticket
    <2>2. Careful({})
        BY <2>1, IdleCareful
    <2>3. /\ executions' = executions /\ leases' = leases /\ physical' = physical
          /\ id \in watched /\ ticket.step = "idle"
        BY <1>2, <2>1 DEF observe_ticket, vars, NoTicket
    <2>4. Watch'
        BY <1>2, <2>1, <2>3, WatchTaken DEF observe_ticket
    <2> QED
        BY <2>1, <2>2, <2>4, RowsKept, DispatchLeftAlone
<1>3. CASE Apply
    <2>1. PICK tid : tid = ticket.id
        OBVIOUS
    <2>2. /\ Careful({tid}) /\ Watch' /\ UNCHANGED <<failed, loopVars>>
          /\ watched' \subseteq watched /\ tid \in watched
        BY <1>3, <2>1, ApplyKeepsWatch
    <2>3. pc \in Dispatching => claim \notin {tid}
        BY <2>2 DEF Dispatched
    <2> QED
        BY <2>2, <2>3, RowsKept, DispatchLeftAlone
<1>4. CASE Others \/ \E t \in Tasks : BackoffElapses(t)
    <2>1. /\ UNCHANGED loopVars /\ watched' = watched /\ ticket' = ticket /\ failed' = failed
        BY <1>4 DEF Others, BackoffElapses, watchVars
    <2>2. Careful({})
        BY <1>4, OthersCareful, IdleCareful DEF Others, BackoffElapses
    <2>3. ticket.step # "idle" => ticket.id \in watched'
        BY <2>1 DEF Watch
    <2>4. Watch'
        BY <2>1, <2>2, <2>3, WatchKept
    <2> QED
        BY <2>1, <2>2, <2>4, RowsKept, DispatchLeftAlone
<1> QED
    BY <1>1, <1>2, <1>3, <1>4 DEF LoopNext

----------------------------------------------------------------------------
(* An agent that waits for its revival is bound to no task *)

AgentsClosed == \E out, open : CloseAttempts(out, open)
AgentFreed == \E t \in Tasks, q \in BOOLEAN : FinalizeWriter(t, q)
AgentUsed == (\E g \in Agents : revive_agent(g)) \/ claim_next_available

\* What writes the agents.
LEMMA AgentWriters ==
    ASSUME [Next]_vars
    PROVE  \/ agents' = agents \/ AgentsClosed \/ AgentFreed \/ AgentUsed
           \/ reconcile_pool \/ ensure_task_consumers
<1> USE Zenon
<1>1. CASE UNCHANGED vars
    BY <1>1 DEF vars
<1>2. ASSUME NEW id, NEW out, FailureConsequence(id, out) PROVE AgentsClosed
    BY <1>2 DEF AgentsClosed, FailureConsequence
<1>3. ASSUME NEW id, NEW c, NEW terminal, NEW q, NEW reusable, nack(id, c, terminal, q, reusable)
      PROVE  AgentsClosed
    BY <1>2, <1>3 DEF nack
<1>4. CASE Host
    <2>1. ASSUME NEW t, NEW q, cancel_task(t, q) PROVE AgentsClosed
        BY <2>1 DEF cancel_task, AgentsClosed
    <2>2. ASSUME NEW b, cancel_batch(b) PROVE AgentsClosed
        BY <2>2 DEF cancel_batch, AgentsClosed
    <2> QED
        BY <1>4, <2>1, <2>2 DEF Host, submit_batch, resize_partition, ack_result
<1>5. CASE Root
    BY <1>5 DEF Root, resolve_retry, release_cancelled_writer, resolve_cancel_task, AgentFreed
<1>6. CASE Dispatch
    <2>1. ASSUME NEW id, abort_before_physical_start(id) PROVE AgentsClosed
        BY <1>2, <2>1 DEF abort_before_physical_start
    <2>2. ASSUME NEW id, report_configuration_unavailable(id) PROVE AgentsClosed
        BY <1>3, <2>2 DEF report_configuration_unavailable
    <2> QED
        BY <1>6, <2>1, <2>2
        DEF Dispatch, AgentUsed, create_execution, confirm_running_and_renew
<1>7. CASE Observe
    <2>1. ASSUME NEW id, NEW q, NEW reusable, ack_success(id, q, reusable) PROVE AgentsClosed
        BY <2>1 DEF ack_success, AgentsClosed
    <2>2. ASSUME NEW id, NEW c, nack_preserving_physical_history(id, c) PROVE AgentsClosed
        BY <1>2, <2>2 DEF nack_preserving_physical_history
    <2>3. ASSUME NEW id, NEW state, NEW classed, NEW terminal, NEW q,
                 record_physical_outcome(id, state, classed, terminal, q)
          PROVE  agents' = agents
        BY <2>3 DEF record_physical_outcome
    <2>4. ASSUME NEW id, NEW state, NEW classed, NEW q,
                 record_pending_physical_terminal(id, state, classed, q)
          PROVE  agents' = agents
        BY <2>4 DEF record_pending_physical_terminal
    <2> QED
        BY <1>3, <1>7, <2>1, <2>2, <2>3, <2>4 DEF Observe
<1>8. CASE Clock
    <2>1. ASSUME NEW recovering, expire_leases(recovering) PROVE AgentsClosed
        BY <2>1 DEF expire_leases, AgentsClosed
    <2> QED
        BY <1>8, <2>1 DEF Clock, promote_retry_wait, LeaseElapses
<1>9. CASE Physical
    BY <1>9 DEF Physical, PhysicalStep
<1> QED
    BY <1>1, <1>4, <1>5, <1>6, <1>7, <1>8, <1>9 DEF Next

\* An agent that waits for its revival was released by its task.
LEMMA RevivingKept ==
    ASSUME IInv, Reviving, [Next]_vars
    PROVE  Reviving'
<1> USE Zenon
<1> SUFFICES ASSUME NEW h \in Agents, agents'[h].state = "REVIVING"
             PROVE  agents'[h].task = NoTask
    BY DEF Reviving
<1>1. agents \in [Agents -> AgentRow] /\ agents[h] \in AgentRow
    BY DEF IInv, TypeOK
<1>2. agents[h].state = "REVIVING" => agents[h].task = NoTask
    BY DEF Reviving
<1>3. CASE agents' = agents
    BY <1>2, <1>3
<1>4. \A g : release_agent(g).task = NoTask /\ release_agent(g).state # "REVIVING"
    BY DEF release_agent
<1>5. /\ [agents[h] EXCEPT !.state = "SUSPENDED", !.task = NoTask].task = NoTask
      /\ [agents[h] EXCEPT !.state = "DRAINING", !.retiring = TRUE].state = "DRAINING"
      /\ NewAgent.task = NoTask
    BY <1>1 DEF AgentRow, NewAgent
<1>6. CASE AgentsClosed
    <2>1. agents'[h] \in {SuspendedAgent(h), release_agent(h), agents[h]}
        BY <1>6 DEF AgentsClosed, CloseAttempts
    <2> QED
        BY <1>2, <1>4, <1>5, <2>1 DEF SuspendedAgent
<1>7. CASE AgentFreed
    <2>1. PICK g : agents' = [agents EXCEPT ![g] = RevivedAgent(g)]
        BY <1>7 DEF AgentFreed, FinalizeWriter
    <2>2. RevivedAgent(h) = agents[h] \/ RevivedAgent(h).task = NoTask
        BY DEF RevivedAgent, release_agent
    <2>3. agents'[h] = agents[h] \/ agents'[h] = RevivedAgent(h)
        BY <1>1, <2>1
    <2> QED
        BY <1>2, <2>2, <2>3
<1>8. CASE AgentUsed
    <2>1. ASSUME NEW g \in Agents, revive_agent(g)
          PROVE  agents'[h] = agents[h] \/ agents'[h].state # "REVIVING"
        <3>1. agents' = [agents EXCEPT ![g].state = "READY"]
            BY <2>1 DEF revive_agent
        <3> QED
            BY <1>1, <3>1 DEF AgentRow
    <2>2. ASSUME NEW t \in Tasks, NEW g \in Agents, claim_selected(t, g)
          PROVE  agents'[h] = agents[h] \/ agents'[h].state # "REVIVING"
        <3>1. agents' = [agents EXCEPT ![g].state = "ASSIGNED", ![g].task = t]
            BY <2>2 DEF claim_selected
        <3> QED
            BY <1>1, <3>1 DEF AgentRow
    <2> QED
        BY <1>2, <1>8, <2>1, <2>2 DEF AgentUsed, claim_next_available
<1>9. CASE reconcile_pool
    <2>1. \/ agents'[h] \in {NewAgent, agents[h],
                             [agents[h] EXCEPT !.state = "DRAINING", !.retiring = TRUE]}
          \/ agents'[h] = [state |-> "RETIRED", task |-> NoTask, retiring |-> FALSE]
        BY <1>9 DEF reconcile_pool
    <2>2. [state |-> "RETIRED", task |-> NoTask, retiring |-> FALSE].task = NoTask
        OBVIOUS
    <2> QED
        BY <1>2, <1>5, <2>1, <2>2
<1>10. CASE ensure_task_consumers
    <2>1. agents'[h] = agents[h] \/ agents'[h] = NewAgent
        BY <1>1, <1>10 DEF ensure_task_consumers
    <2> QED
        BY <1>2, <1>5, <2>1
<1> QED
    BY <1>3, <1>6, <1>7, <1>8, <1>9, <1>10, AgentWriters

=============================================================================
