------------------------------- MODULE Daemon -------------------------------
(***************************************************************************)
(* The life of the daemon (agentype-runtime: daemon.rs, control.rs and the *)
(* runners of observer.rs, notifier.rs and supervision.rs): start() with   *)
(* its recovery, activation and publication of READY, the dispatch gate,   *)
(* the four runners and the watchdog, a fatal of any of them, shutdown and *)
(* join.                                                                   *)
(*                                                                         *)
(* Executions appear as far as READY depends on them: those with current  *)
(* authority, those durably RUNNING, and their registry entries.  What     *)
(* recovery decides about one is Recovery's subject, what the heartbeat    *)
(* does with one is Supervision's.                                         *)
(***************************************************************************)
EXTENDS Naturals

CONSTANT Executions

VARIABLES
    authority,  \* the executions' attempts: unclaimed, current or closed
    running,    \* the executions that are durably RUNNING
    entry,      \* their registry entries: none, eligible, stale or stopped
    ending,     \* the execution whose end an observation is recording
    gate,       \* GatePhase
    starts,     \* in_flight_starts
    released,   \* ReadyRelease
    main,       \* the thread of start(), then of the host that holds the daemon
    handled,    \* the executions this pass of start() is done with
    control,    \* where the control-loop thread is, and its claim
    runner,     \* the phase of every runner
    thread,     \* the threads of the other runners
    watch,      \* the watchdog thread
    stop,       \* DaemonInner.stop
    fatal,      \* DaemonInner.phase is Failed
    exit        \* what start() or join returned

executionVars == <<authority, running, entry, ending>>
lifeVars == <<gate, starts, released, main, handled, control, runner, thread, watch, stop,
              fatal, exit>>
daemonVars == <<executionVars, lifeVars>>

NoExecution == "no execution"
Runners == {"control", "observer", "supervision", "notifier"}
Threads == Runners \ {"control"}

Places == {"recover", "sweep", "assert", "activate", "maintain", "spawn", "health",
           "validate", "flip", "release", "up", "stopping", "join", "done"}

Startup == {"recover", "sweep", "assert", "activate", "maintain", "spawn"}

DaemonTypeOK ==
    /\ authority \in [Executions -> {"unclaimed", "current", "closed"}]
    /\ running \in SUBSET Executions
    /\ entry \in [Executions -> {"none", "eligible", "stale", "stopped"}]
    /\ ending \in Executions \cup {NoExecution}
    /\ gate \in {"Closed", "Ready", "Stopping", "Failed"}
    /\ starts \in 0..1 /\ released \in BOOLEAN
    /\ main \in Places
    /\ handled \in SUBSET Executions
    /\ control \in [at : {"unborn", "paused", "cycle", "claim", "start", "confirm", "admit",
                          "refused", "failing", "ended"},
                    id : Executions \cup {NoExecution}]
    /\ runner \in [Runners -> {"Running", "ShuttingDown", "Failed"}]
    /\ thread \in [Threads -> {"unborn", "paused", "live", "failing", "ended"}]
    /\ watch \in {"unborn", "poll", "publish", "stopping", "ended"}
    /\ stop \in BOOLEAN /\ fatal \in BOOLEAN
    /\ exit \in {"none", "StartError", "Stopped", "Failed"}

\* A process is started on a store that an earlier one left, with an empty registry.
DaemonInit ==
    /\ authority \in [Executions -> {"unclaimed", "current"}]
    /\ running \in SUBSET {e \in Executions : authority[e] = "current"}
    /\ entry = [e \in Executions |-> "none"] /\ ending = NoExecution
    /\ gate = "Closed" /\ starts = 0 /\ released = FALSE
    /\ main = "recover" /\ handled = {}
    /\ control = [at |-> "unborn", id |-> NoExecution]
    /\ runner = [r \in Runners |-> "Running"]
    /\ thread = [r \in Threads |-> IF r = "observer" THEN "unborn" ELSE "live"]
    /\ watch = "unborn"
    /\ stop = FALSE /\ fatal = FALSE /\ exit = "none"

Current(e) == authority[e] = "current"
Owned(e) == entry[e] # "none"
SetAuthority(e, a) == authority' = [authority EXCEPT ![e] = a]
SetEntry(e, s) == entry' = [entry EXCEPT ![e] = s]

----------------------------------------------------------------------------
(* The gate *)

gate_fail == gate' = IF gate \in {"Closed", "Ready"} THEN "Failed" ELSE gate

begin_shutdown == gate' = IF gate # "Failed" THEN "Stopping" ELSE gate

\* The registry lock is held across validation, flip and release.
with_readiness_barrier == main \in {"validate", "flip", "release"}

is_failed == \E r \in Runners : runner[r] = "Failed"

\* request_stop of every runner.  A runner reads only its own phase, so the order
\* among them is theirs alone; what matters is that the gate is dealt with before.
RequestStops ==
    runner' = [r \in Runners |-> IF runner[r] = "Running" THEN "ShuttingDown" ELSE runner[r]]

----------------------------------------------------------------------------
(* start() *)

MainAt(place) == main' = place

\* An error leaves start(): StartupGuard stops what runs so far.
Abort == MainAt("stopping")

MainOnly == UNCHANGED <<gate, starts, released, control, runner, thread, watch, stop, fatal,
                        exit>>

\* Reconciliation: an execution is confirmed and readmitted, or its attempt closed.
\* An admission that the heartbeat runner refuses ends the recovery.
Readmit(e) ==
    /\ main = "recover" /\ Current(e) /\ e \notin handled
    /\ \/ /\ running' = running \cup {e} /\ UNCHANGED authority
          /\ IF runner["supervision"] = "Running" THEN SetEntry(e, "eligible") /\ UNCHANGED main
             ELSE Abort /\ UNCHANGED entry
       \/ SetAuthority(e, "closed") /\ UNCHANGED <<running, entry, main>>
    /\ handled' = handled \cup {e} /\ UNCHANGED ending /\ MainOnly

\* The pass over the candidates is over, or a runner failed on the way.
EndOfCandidates ==
    /\ main = "recover"
    /\ \/ is_failed /\ Abort
       \/ (\A e \in Executions : Current(e) => e \in handled) /\ MainAt("sweep")
    /\ UNCHANGED <<executionVars, handled>> /\ MainOnly

\* expire_leases and the maintenance after it, in recovery and after activation:
\* any lease may have elapsed meanwhile.
expire_leases ==
    /\ \E elapsed \in SUBSET {e \in Executions : Current(e)} :
          authority' = [e \in Executions |-> IF e \in elapsed THEN "closed" ELSE authority[e]]
    /\ UNCHANGED <<running, entry, ending>>

Maintenance ==
    /\ \/ main = "sweep" /\ MainAt("assert")
       \/ main = "maintain" /\ IF is_failed THEN Abort ELSE MainAt("spawn")
    /\ expire_leases /\ UNCHANGED handled /\ MainOnly

assert_ready_invariant ==
    /\ main = "assert"
    /\ IF is_failed \/ \E e \in Executions : Current(e) /\ ~(e \in running /\ Owned(e))
       THEN Abort ELSE MainAt("activate")
    /\ handled' = {} /\ UNCHANGED executionVars /\ MainOnly

\* An observation that finds the process running, and one that finds its end (or,
\* during activation, anything else): the renewal stops, the end is recorded, the
\* attempt closed and the entry dropped.
refresh_positive(e) ==
    /\ Owned(e) /\ SetEntry(e, "eligible") /\ UNCHANGED <<authority, running, ending>>

StopRenewal(e) ==
    /\ Owned(e) /\ SetEntry(e, "stopped") /\ ending' = e /\ UNCHANGED <<authority, running>>

RecordEnd ==
    /\ ending \in running
    /\ running' = running \ {ending} /\ UNCHANGED <<authority, entry, ending>>

nack_current ==
    /\ ending \in Executions \ running /\ Current(ending)
    /\ SetAuthority(ending, "closed") /\ UNCHANGED <<running, entry, ending>>

DropEnded ==
    /\ ending \in Executions \ running /\ ~Current(ending)
    /\ SetEntry(ending, "none") /\ ending' = NoExecution /\ UNCHANGED <<authority, running>>

\* One bounded observation of every supervised execution.
activation_sweep ==
    /\ main = "activate"
    /\ \/ \E e \in Executions \ handled :
             /\ ending = NoExecution /\ (refresh_positive(e) \/ StopRenewal(e))
             /\ handled' = handled \cup {e} /\ UNCHANGED main
       \/ (RecordEnd \/ nack_current \/ DropEnded) /\ UNCHANGED <<handled, main>>
       \/ /\ ending = NoExecution /\ \A e \in Executions : Owned(e) => e \in handled
          /\ MainAt("maintain") /\ UNCHANGED <<executionVars, handled>>
       \/ ending = NoExecution /\ Abort /\ UNCHANGED <<executionVars, handled>>
    /\ MainOnly

\* The workers start paused; then the watchdog, whose failure to start is fatal.
SpawnWorkers ==
    /\ main = "spawn"
    /\ control' = [control EXCEPT !.at = "paused"]
    /\ thread' = [thread EXCEPT !["observer"] = "paused"]
    /\ \/ /\ watch' = "poll" /\ MainAt("health") /\ UNCHANGED gate
       \/ /\ gate_fail /\ MainAt("stopping") /\ UNCHANGED watch
    /\ UNCHANGED <<executionVars, starts, released, handled, runner, stop, fatal, exit>>

Refuse == MainAt("stopping")

CheckHealth ==
    /\ main = "health"
    /\ IF is_failed THEN Refuse ELSE MainAt("validate")
    /\ UNCHANGED <<executionVars, handled>> /\ MainOnly

require_fresh_running_authority ==
    /\ main = "validate"
    /\ IF \A e \in Executions :
             Current(e) => e \in running /\ entry[e] = "eligible"
       THEN MainAt("flip") ELSE Refuse
    /\ UNCHANGED <<executionVars, handled>> /\ MainOnly

try_commit_ready ==
    /\ main = "flip"
    /\ IF gate = "Closed" THEN gate' = "Ready" /\ MainAt("release")
       ELSE Refuse /\ UNCHANGED gate
    /\ UNCHANGED <<executionVars, starts, released, handled, control, runner, thread, watch, stop,
                   fatal, exit>>

Release ==
    /\ main = "release"
    /\ released' = TRUE /\ MainAt("up")
    /\ UNCHANGED <<executionVars, gate, starts, handled, control, runner, thread, watch, stop,
                   fatal, exit>>

----------------------------------------------------------------------------
(* The host: poll_health, request_shutdown, join *)

request_shutdown ==
    /\ main = "up"
    /\ begin_shutdown /\ MainAt("stopping")
    /\ UNCHANGED <<executionVars, starts, released, handled, control, runner, thread, watch, stop,
                   fatal, exit>>

poll_health ==
    /\ main = "up" /\ is_failed
    /\ fatal' = TRUE /\ begin_shutdown /\ MainAt("stopping")
    /\ UNCHANGED <<executionVars, starts, released, handled, control, runner, thread, watch, stop,
                   exit>>

StopAll ==
    /\ main = "stopping"
    /\ RequestStops /\ stop' = TRUE /\ MainAt("join")
    /\ UNCHANGED <<executionVars, gate, starts, released, handled, control, thread, watch, fatal,
                   exit>>

Ended ==
    /\ control.at \in {"unborn", "ended"} /\ watch \in {"unborn", "ended"}
    /\ \A r \in Threads : thread[r] \in {"unborn", "ended"}

\* Mutant: the exit status is the coordinator's alone.
JoinForgets ==
    /\ main = "join" /\ Ended
    /\ exit' = IF ~released THEN "StartError" ELSE IF fatal THEN "Failed" ELSE "Stopped"
    /\ MainAt("done")
    /\ UNCHANGED <<executionVars, gate, starts, released, handled, control, runner, thread,
                   watch, stop, fatal>>

\* The threads are joined, the watchdog first, and the exit reports any fatal.
join ==
    /\ main = "join" /\ Ended
    /\ exit' = IF ~released THEN "StartError"
               ELSE IF fatal \/ is_failed THEN "Failed" ELSE "Stopped"
    /\ MainAt("done")
    /\ UNCHANGED <<executionVars, gate, starts, released, handled, control, runner, thread,
                   watch, stop, fatal>>

Main ==
    \/ \E e \in Executions : Readmit(e)
    \/ EndOfCandidates \/ Maintenance \/ assert_ready_invariant \/ activation_sweep
    \/ SpawnWorkers \/ CheckHealth \/ require_fresh_running_authority
    \/ try_commit_ready \/ Release
    \/ StopAll \/ join

Host == request_shutdown \/ poll_health

----------------------------------------------------------------------------
(* The control loop, at the grain of the gate and of the admission *)

ControlAt(place) == control' = [control EXCEPT !.at = place]
ControlOnly == UNCHANGED <<released, main, handled, thread, watch, stop, fatal, exit>>

\* Paused behind READY, then cycle after cycle until told to stop.
ControlTurns ==
    /\ \/ control.at = "paused" /\ (released \/ runner["control"] # "Running")
          /\ ControlAt(IF released THEN "cycle" ELSE "ended")
       \/ control.at = "cycle" /\ runner["control"] # "Running" /\ ControlAt("ended")
    /\ UNCHANGED <<executionVars, gate, starts, runner>> /\ ControlOnly

\* A cycle sweeps elapsed leases, and then asks the gate for a permit.
ControlSweeps ==
    /\ control.at = "cycle" /\ runner["control"] = "Running"
    /\ expire_leases
    /\ UNCHANGED <<gate, starts, runner, control>> /\ ControlOnly

\* Mutant: work is claimed without looking at the gate.
BeginUngated ==
    /\ control.at = "cycle" /\ runner["control"] = "Running"
    /\ starts' = starts + 1 /\ ControlAt("claim")
    /\ UNCHANGED <<executionVars, gate, runner>> /\ ControlOnly

try_begin_physical_start ==
    /\ control.at = "cycle" /\ runner["control"] = "Running" /\ gate = "Ready"
    /\ starts' = starts + 1 /\ ControlAt("claim")
    /\ UNCHANGED <<executionVars, gate, runner>> /\ ControlOnly

\* The permit is dropped when dispatch_one returns.
DropPermit == starts' = starts - 1

EndDispatch == control' = [at |-> "cycle", id |-> NoExecution]

DispatchClaim ==
    /\ \/ /\ control.at = "claim"
          /\ \/ \E e \in Executions : /\ authority[e] = "unclaimed" /\ SetAuthority(e, "current")
                                      /\ control' = [at |-> "start", id |-> e]
                                      /\ UNCHANGED <<running, starts>>
             \/ /\ \A e \in Executions : authority[e] # "unclaimed"
                /\ EndDispatch /\ DropPermit /\ UNCHANGED <<authority, running>>
       \/ /\ control.at = "start"
          /\ \/ ControlAt("confirm") /\ UNCHANGED <<authority, running, starts>>
             \/ /\ SetAuthority(control.id, "closed") /\ UNCHANGED running
                /\ EndDispatch /\ DropPermit
       \/ /\ control.at = "confirm" /\ DropPermit /\ UNCHANGED authority
          /\ IF Current(control.id)
             THEN running' = running \cup {control.id} /\ ControlAt("admit")
             ELSE EndDispatch /\ UNCHANGED running
    /\ UNCHANGED <<entry, ending, gate, runner>> /\ ControlOnly

\* The admission.  RunnerStopped is no work when the gate is closed, and a failure
\* when it is open.
consume_dispatch ==
    /\ \/ /\ control.at = "admit" /\ ~with_readiness_barrier /\ UNCHANGED runner
          /\ IF runner["supervision"] = "Running"
             THEN SetEntry(control.id, "eligible") /\ EndDispatch
             ELSE control' = [at |-> "refused", id |-> NoExecution] /\ UNCHANGED entry
       \/ /\ control.at = "refused" /\ UNCHANGED entry
          /\ IF gate # "Ready" THEN ControlAt("cycle") /\ UNCHANGED runner
             ELSE ControlAt("failing") /\ runner' = [runner EXCEPT !["control"] = "Failed"]
    /\ UNCHANGED <<authority, running, ending, gate, starts>> /\ ControlOnly

\* An error or a panic of a cycle; the permit, if any, goes with it.
ControlFails ==
    /\ control.at \in {"cycle", "claim", "confirm"} /\ runner["control"] # "Failed"
    /\ runner' = [runner EXCEPT !["control"] = "Failed"]
    /\ control' = [at |-> "failing", id |-> NoExecution]
    /\ starts' = 0
    /\ UNCHANGED <<executionVars, gate>> /\ ControlOnly

ControlPublishes ==
    /\ control.at = "failing" /\ gate_fail /\ ControlAt("cycle")
    /\ UNCHANGED <<executionVars, starts, runner>> /\ ControlOnly

Control ==
    \/ ControlTurns \/ ControlSweeps \/ try_begin_physical_start
    \/ DispatchClaim \/ consume_dispatch \/ ControlPublishes

----------------------------------------------------------------------------
(* The observer, the notifier, the heartbeat and the watchdog *)

ThreadAt(r, place) == thread' = [thread EXCEPT ![r] = place]
ThreadOnly == UNCHANGED <<starts, released, main, handled, control, watch, stop, fatal, exit>>
Live(r) == thread[r] = "live"

\* The observer waits for READY, or for the end.
ObserverWakes ==
    /\ thread["observer"] = "paused" /\ (released \/ runner["observer"] # "Running")
    /\ ThreadAt("observer", IF released THEN "live" ELSE "ended")
    /\ UNCHANGED <<executionVars, gate, runner>> /\ ThreadOnly

\* A steady-state observation; a step on the registry waits for the barrier.
observe_due ==
    /\ Live("observer") /\ runner["observer"] = "Running" /\ ending = NoExecution
    /\ ~with_readiness_barrier
    /\ \E e \in Executions : refresh_positive(e) \/ StopRenewal(e)
    /\ UNCHANGED <<gate, runner, thread>> /\ ThreadOnly

ObserverApplies ==
    /\ Live("observer")
    /\ RecordEnd \/ nack_current \/ (~with_readiness_barrier /\ DropEnded)
    /\ UNCHANGED <<gate, runner, thread>> /\ ThreadOnly

\* Mutant: eligibility is changed without the registry lock.
StopStaleUnlocked ==
    /\ Live("supervision") /\ runner["supervision"] # "Failed"
    /\ \E e \in Executions : Owned(e) /\ SetEntry(e, "stale")
    /\ UNCHANGED <<authority, running, ending, gate, runner, thread>> /\ ThreadOnly

\* The heartbeat stops an entry whose evidence is no longer fresh, under the lock.
StopStale ==
    /\ Live("supervision") /\ runner["supervision"] # "Failed" /\ ~with_readiness_barrier
    /\ \E e \in Executions : Owned(e) /\ SetEntry(e, "stale")
    /\ UNCHANGED <<authority, running, ending, gate, runner, thread>> /\ ThreadOnly

\* The heartbeat drops all ownership as it ends.
ClearIf(r) ==
    IF r = "supervision" THEN entry' = [e \in Executions |-> "none"] ELSE UNCHANGED entry

\* A thread that was told to stop, or has failed, ends between two pieces of work.
ThreadEnds(r) ==
    /\ Live(r) /\ runner[r] # "Running" /\ (r = "observer" => ending = NoExecution)
    /\ r = "supervision" => ~with_readiness_barrier
    /\ ThreadAt(r, "ended") /\ ClearIf(r)
    /\ UNCHANGED <<authority, running, ending, gate, runner>> /\ ThreadOnly

\* An error or a panic: the runner is Failed, then the gate, and the thread ends.
ThreadFails(r) ==
    /\ Live(r) /\ runner[r] # "Failed"
    /\ runner' = [runner EXCEPT ![r] = "Failed"] /\ ThreadAt(r, "failing")
    /\ ending' = IF r = "observer" THEN NoExecution ELSE ending
    /\ UNCHANGED <<authority, running, entry, gate>> /\ ThreadOnly

ThreadPublishes(r) ==
    /\ thread[r] = "failing" /\ gate_fail /\ ThreadAt(r, "live")
    /\ UNCHANGED <<executionVars, runner>> /\ ThreadOnly

\* The watchdog: an orderly stop, or a failed runner, or its own panic.
WatchOnly == UNCHANGED <<starts, released, main, handled, control, thread, stop, exit>>

Watchdog ==
    /\ \/ /\ watch = "poll" /\ UNCHANGED <<executionVars, gate, fatal, runner>>
          /\ \/ stop /\ watch' = "ended"
             \/ ~stop /\ is_failed /\ watch' = "publish"
       \/ /\ watch = "publish" /\ gate_fail /\ watch' = "stopping"
          /\ UNCHANGED <<executionVars, fatal, runner>>
       \/ /\ watch = "stopping" /\ fatal' = TRUE /\ RequestStops /\ watch' = "ended"
          /\ UNCHANGED <<executionVars, gate>>
    /\ WatchOnly

WatchdogPanics ==
    /\ watch = "poll" /\ watch' = "publish"
    /\ UNCHANGED <<executionVars, gate, fatal, runner>> /\ WatchOnly

\* Cancellations and results of a daemon that is up.
Closing ==
    /\ main = "up" /\ \E e \in Executions : Current(e) /\ SetAuthority(e, "closed")
    /\ UNCHANGED <<running, entry, ending, lifeVars>>

Faults == ControlFails \/ WatchdogPanics \/ \E r \in Threads : ThreadFails(r)

Thread(r) == ThreadEnds(r) \/ ThreadPublishes(r)

DaemonNext ==
    \/ Main \/ Host \/ Control \/ ObserverWakes \/ observe_due \/ ObserverApplies
    \/ StopStale \/ \E r \in Threads : Thread(r)
    \/ Watchdog \/ Closing \/ Faults

\* Every thread keeps running and every adapter call returns; nobody has to ask for
\* a shutdown, and nothing has to fail.
DaemonFairness ==
    /\ WF_daemonVars(Main) /\ WF_daemonVars(Control) /\ WF_daemonVars(Watchdog)
    /\ WF_daemonVars(ObserverWakes) /\ WF_daemonVars(ObserverApplies)
    /\ \A r \in Threads : WF_daemonVars(Thread(r))

DaemonSpec == DaemonInit /\ [][DaemonNext]_daemonVars /\ DaemonFairness

----------------------------------------------------------------------------
(* What is checked *)

Promise == INSTANCE Readiness WITH
    status <- CASE gate = "Closed" -> "closed" [] gate = "Ready" -> "open" [] OTHER -> "shut",
    starts <- starts, failed <- is_failed,
    down <- Ended /\ main \notin Startup

\* The daemon implements the promise of Readiness: whatever fails, the gate opens
\* once at most, only an open gate begins a start, and a shut one brings every
\* thread down; so does a fatal of any runner, whoever is in the middle of what.
KeepsItsPromise == Promise!ReadySpec

\* READY is published on supervised authority: at the flip every current attempt has
\* a RUNNING execution whose renewal is on, although the heartbeat and the observer
\* have threads of their own.
ReadyIsSupervised ==
    [][gate # "Ready" /\ gate' = "Ready"
       => \A e \in Executions : Current(e) => e \in running /\ entry[e] = "eligible"]_daemonVars

\* A failure is never hidden and never made up: the exit says Failed exactly when a
\* runner or the coordinator failed, and an admission that the heartbeat refuses during
\* an orderly shutdown is no fatal of the control loop (consume_dispatch).
FailuresAreReal ==
    /\ [](/\ exit = "Stopped" => ~is_failed /\ ~fatal
          /\ exit = "Failed" => is_failed \/ fatal)
    /\ [][control.at = "refused" /\ control'.at = "failing" => is_failed]_daemonVars

=============================================================================
