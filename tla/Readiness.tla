----------------------------- MODULE Readiness -----------------------------
(***************************************************************************)
(* What the daemon promises about starting work, in four variables: the    *)
(* gate opens at most once, only while it is open does a physical start    *)
(* begin, and a gate that was shut, or a thread that failed, leads to a    *)
(* process with no start and no thread left.  Daemon is shown to implement *)
(* it.                                                                     *)
(***************************************************************************)
EXTENDS Naturals

VARIABLES
    status,     \* closed, open or shut
    starts,     \* the physical starts in flight
    failed,     \* a thread of the daemon has failed
    down        \* every thread of the daemon has ended

readyVars == <<status, starts, failed, down>>

ReadyInit == status = "closed" /\ starts = 0 /\ failed = FALSE /\ down = FALSE

Open == status = "closed" /\ status' = "open" /\ UNCHANGED <<starts, down>>
Shut == status # "shut" /\ status' = "shut" /\ UNCHANGED <<starts, down>>
BeginStart == status = "open" /\ starts' = starts + 1 /\ UNCHANGED <<status, down>>
EndStart == starts > 0 /\ starts' = starts - 1 /\ UNCHANGED <<status, down>>
GoDown == status # "open" /\ starts = 0 /\ down' = TRUE /\ UNCHANGED <<status, starts>>

Fail == ~failed /\ failed' = TRUE /\ UNCHANGED <<status, starts, down>>

\* A failure is never taken back; it may come with any other step.
ReadyNext ==
    /\ Open \/ Shut \/ BeginStart \/ EndStart \/ (~down /\ GoDown) \/ Fail
    /\ failed => failed'

ReadySpec ==
    ReadyInit /\ [][ReadyNext]_readyVars /\ ((status = "shut" \/ failed) ~> down)

=============================================================================
