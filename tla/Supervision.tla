---------------------------- MODULE Supervision ----------------------------
(***************************************************************************)
(* Heartbeat supervision (agentype-runtime: supervision.rs): the registry  *)
(* of admitted executions, the heartbeat thread that renews their leases   *)
(* in fenced kernel transactions, and the physical observer that feeds it  *)
(* freshness (observer.rs).                                                *)
(*                                                                         *)
(* Time is discrete and every instant is kept as its distance from now:    *)
(* left is expires_at - now, fresh is last_positive_observed_at + limit -  *)
(* now, due is next_due_at - now, none below zero.  A tick shortens them   *)
(* all.  An execution is admitted once in the life of the process, so the  *)
(* entry of an execution is also the entry of its generation.              *)
(***************************************************************************)
EXTENDS Integers, FiniteSets

CONSTANTS
    Executions,
    Lease,          \* lease_seconds
    Heartbeat,      \* heartbeat_seconds
    Freshness       \* freshness_limit

\* RuntimeTimingConfig and PhysicalObserverConfig refuse any other timing.
ASSUME TimingAssumption ==
    /\ Lease \in Nat /\ Heartbeat \in Nat /\ Freshness \in Nat
    /\ 0 < Heartbeat /\ Heartbeat < Lease
    /\ 0 < Freshness /\ Freshness < Lease

VARIABLES
    authority,      \* the durable Attempt and Lease of an execution
    left,           \* what is left of an active lease
    running,        \* the executions whose durable state is RUNNING
    token,          \* the age of an admission that is minted and not yet consumed
    entry,          \* the registry: none, eligible or stopped (renewal_eligible)
    due,            \* when the entry is due
    fresh,          \* how long its evidence stays fresh
    beat,           \* where the heartbeat thread is, and the renewal in hand
    phase,          \* the RunnerPhase
    sight           \* the observation in hand

durable == <<authority, left, running>>
registry == <<entry, due, fresh>>
supVars == <<durable, token, registry, beat, phase, sight>>

NoExecution == "no execution"
Ages == 0..Heartbeat
Outcomes == {"Renewed", "NotRunning", "FreshnessExpired", "AuthorityLost"}
Unminted == -1   \* no admission was minted for the execution in this process
Spent == -2      \* it was consumed

Beats == [at : {"wait", "check", "anchor", "read", "renew", "apply", "fail", "clear", "gone"},
          queue : SUBSET Executions,
          id : Executions \cup {NoExecution},
          age : Ages,               \* now - anchor, up to the heartbeat
          until : 0..Freshness,     \* fresh_until - now
          unbounded : BOOLEAN,      \* fresh_until is f64::MAX: there was no entry
          refreshed : BOOLEAN,      \* the freshness epoch moved since it was read
          outcome : Outcomes]

Idle == [at |-> "wait", queue |-> {}, id |-> NoExecution, age |-> 0, until |-> 0,
         unbounded |-> FALSE, refreshed |-> FALSE, outcome |-> "Renewed"]

Sights == [at : {"idle", "answered", "nack", "drop"},
           id : Executions \cup {NoExecution},
           kind : {"ExactRunning", "PhysicalEnded", "ProtocolInvalid", "Unresolved"}]
Unseeing == [at |-> "idle", id |-> NoExecution, kind |-> "ExactRunning"]

SupTypeOK ==
    /\ authority \in [Executions -> {"none", "active", "closed"}]
    /\ left \in [Executions -> 0..Lease]
    /\ running \in SUBSET Executions
    /\ token \in [Executions -> {Unminted, Spent} \cup 0..Lease]
    /\ entry \in [Executions -> {"none", "eligible", "stopped"}]
    /\ due \in [Executions -> 0..Heartbeat]
    /\ fresh \in [Executions -> 0..Freshness]
    /\ beat \in Beats
    /\ phase \in {"Running", "ShuttingDown", "Failed", "Stopped"}
    /\ sight \in Sights

\* A process starts with an empty registry; the leases are those of the store.
SupInit ==
    /\ authority \in [Executions -> {"none", "active", "closed"}]
    /\ left \in [Executions -> 0..Lease]
    /\ \A e \in Executions : authority[e] # "active" => left[e] = 0
    /\ running \in SUBSET Executions
    /\ token = [e \in Executions |-> Unminted]
    /\ entry = [e \in Executions |-> "none"]
    /\ due = [e \in Executions |-> 0]
    /\ fresh = [e \in Executions |-> 0]
    /\ beat = Idle /\ phase = "Running" /\ sight = Unseeing

Owned(e) == entry[e] # "none"

\* validate_authority_tx: the Attempt and the Lease are ACTIVE and not elapsed.
Current(e) == authority[e] = "active" /\ left[e] > 0

Down(n) == IF n > 0 THEN n - 1 ELSE 0

Remaining(span, age) == IF age < span THEN span - age ELSE 0

----------------------------------------------------------------------------
(* Time *)

Tick ==
    /\ left' = [e \in Executions |-> Down(left[e])]
    /\ fresh' = [e \in Executions |-> Down(fresh[e])]
    /\ due' = [e \in Executions |-> Down(due[e])]
    /\ token' = [e \in Executions |->
                    IF token[e] \in 0..(Lease - 1) THEN token[e] + 1 ELSE token[e]]
    /\ beat' = [beat EXCEPT !.age = IF beat.age < Heartbeat THEN beat.age + 1 ELSE beat.age,
                            !.until = Down(beat.until)]
    /\ UNCHANGED <<authority, running, entry, phase, sight>>

----------------------------------------------------------------------------
(* The kernel transactions that supervision depends on *)

\* The fenced confirmation of RUNNING and first renewal mints an admission.
Confirm(e) ==
    /\ Current(e) /\ token[e] = Unminted
    /\ running' = running \cup {e}
    /\ left' = [left EXCEPT ![e] = Lease]
    /\ token' = [token EXCEPT ![e] = 0]
    /\ UNCHANGED <<authority, registry, beat, phase, sight>>

\* A claim of the execution, and anything that closes its attempt: a result, a
\* cancellation, a NACK, the sweep of elapsed leases.
Claimed(e) ==
    /\ authority[e] = "none"
    /\ authority' = [authority EXCEPT ![e] = "active"]
    /\ left' = [left EXCEPT ![e] = Lease]
    /\ UNCHANGED <<running, token, registry, beat, phase, sight>>

Close(e) ==
    /\ authority[e] = "active"
    /\ authority' = [authority EXCEPT ![e] = "closed"]
    /\ left' = [left EXCEPT ![e] = 0]
    /\ running' \in {running, running \ {e}}
    /\ UNCHANGED <<token, registry, beat, phase, sight>>

----------------------------------------------------------------------------
(* Admission *)

\* Mutant: the schedule is anchored at the insertion, not at the commit.
AdmitAtInsertion(e) ==
    /\ token[e] \in 0..Lease
    /\ token' = [token EXCEPT ![e] = Spent]
    /\ phase = "Running"
    /\ entry' = [entry EXCEPT ![e] = "eligible"]
    /\ due' = [due EXCEPT ![e] = Heartbeat]
    /\ fresh' = [fresh EXCEPT ![e] = Remaining(Freshness, token[e])]
    /\ UNCHANGED <<durable, beat, phase, sight>>

\* admit consumes the admission.  Only a running heartbeat takes ownership; the
\* first renewal's commit time anchors both the schedule and the freshness.
admit(e) ==
    /\ token[e] \in 0..Lease
    /\ token' = [token EXCEPT ![e] = Spent]
    /\ IF phase = "Running"
       THEN /\ entry' = [entry EXCEPT ![e] = "eligible"]
            /\ due' = [due EXCEPT ![e] = Remaining(Heartbeat, token[e])]
            /\ fresh' = [fresh EXCEPT ![e] = Remaining(Freshness, token[e])]
       ELSE UNCHANGED registry
    /\ UNCHANGED <<durable, beat, phase, sight>>

\* drop_if_current: the entry goes, its generation is consumed.
drop_if_current(e) ==
    /\ entry' = [entry EXCEPT ![e] = "none"]
    /\ due' = [due EXCEPT ![e] = 0]
    /\ fresh' = [fresh EXCEPT ![e] = 0]

\* stop_renewal_eligibility keeps the entry.
stop_renewal_eligibility(e) ==
    entry' = [entry EXCEPT ![e] = IF @ = "none" THEN @ ELSE "stopped"]

----------------------------------------------------------------------------
(* The heartbeat thread *)

Beating == UNCHANGED <<token, phase, sight>>

\* The loop wakes at the earliest deadline, or ends with the runner.
renew_due ==
    /\ beat.at = "wait" /\ phase = "Running"
    /\ \E e \in Executions : Owned(e) /\ due[e] = 0
    /\ beat' = [Idle EXCEPT !.at = "check",
                            !.queue = {e \in Executions : Owned(e) /\ due[e] = 0}]
    /\ Beating /\ UNCHANGED <<durable, registry>>

\* The next of the due entries: gone, stale, or to be renewed.
CheckFreshness ==
    /\ beat.at = "check"
    /\ Beating /\ UNCHANGED <<durable, fresh>>
    /\ IF beat.queue = {} THEN beat' = Idle /\ UNCHANGED <<entry, due>>
       ELSE \E e \in beat.queue :
              IF ~Owned(e)
              THEN beat' = [beat EXCEPT !.queue = @ \ {e}] /\ UNCHANGED <<entry, due>>
              ELSE IF entry[e] = "stopped" \/ fresh[e] = 0
              THEN /\ due' = [due EXCEPT ![e] = Heartbeat]
                   /\ stop_renewal_eligibility(e)
                   /\ beat' = [beat EXCEPT !.queue = @ \ {e}]
              ELSE /\ beat' = [beat EXCEPT !.at = "anchor", !.id = e, !.queue = @ \ {e}]
                   /\ UNCHANGED <<entry, due>>

\* The anchor of the next deadline is read before the renewal ...
Anchor ==
    /\ beat.at = "anchor"
    /\ beat' = [beat EXCEPT !.at = "read", !.age = 0]
    /\ Beating /\ UNCHANGED <<durable, registry>>

\* ... and the freshness to renew under, in a critical section of its own.
ReadFreshness ==
    /\ beat.at = "read"
    /\ beat' = [beat EXCEPT !.at = "renew", !.until = fresh[beat.id],
                            !.unbounded = ~Owned(beat.id), !.refreshed = FALSE]
    /\ Beating /\ UNCHANGED <<durable, registry>>

\* Mutant: renewal without the freshness endpoint.
RenewUnguarded ==
    /\ beat.at = "renew"
    /\ LET e == beat.id
           outcome == IF ~Current(e) THEN "AuthorityLost"
                      ELSE IF e \notin running THEN "NotRunning"
                      ELSE "Renewed"
       IN  /\ left' = IF outcome = "Renewed" THEN [left EXCEPT ![e] = Lease] ELSE left
           /\ beat' = [beat EXCEPT !.at = "apply", !.until = 0, !.outcome = outcome]
    /\ Beating /\ UNCHANGED <<authority, running, registry>>

renew_supervised_execution_guarded ==
    /\ beat.at = "renew"
    /\ LET e == beat.id
           outcome == IF beat.until = 0 /\ ~beat.unbounded THEN "FreshnessExpired"
                      ELSE IF ~Current(e) THEN "AuthorityLost"
                      ELSE IF e \notin running THEN "NotRunning"
                      ELSE "Renewed"
       IN  /\ left' = IF outcome = "Renewed" THEN [left EXCEPT ![e] = Lease] ELSE left
           /\ beat' = [beat EXCEPT !.at = "apply", !.until = 0, !.outcome = outcome]
    /\ Beating /\ UNCHANGED <<authority, running, registry>>

\* Mutant: a stale result revokes whatever freshness there is by now.
ApplyRevokes ==
    /\ beat.at = "apply"
    /\ LET e == beat.id
       IN  /\ due' = IF Owned(e) THEN [due EXCEPT ![e] = Remaining(Heartbeat, beat.age)] ELSE due
           /\ IF beat.outcome = "Renewed" THEN UNCHANGED entry ELSE stop_renewal_eligibility(e)
    /\ beat' = [Idle EXCEPT !.at = "check", !.queue = beat.queue]
    /\ Beating /\ UNCHANGED <<durable, fresh>>

\* The result is applied to the entry; a staleness that an observation overtook
\* only makes the entry due at once.
ApplyRenewal ==
    /\ beat.at = "apply"
    /\ LET e == beat.id
           overtaken == beat.outcome = "FreshnessExpired" /\ beat.refreshed
       IN  /\ due' = IF ~Owned(e) THEN due
                     ELSE [due EXCEPT ![e] = IF overtaken THEN 0
                                             ELSE Remaining(Heartbeat, beat.age)]
           /\ IF beat.outcome = "Renewed" \/ overtaken THEN UNCHANGED entry
              ELSE stop_renewal_eligibility(e)
    /\ beat' = [Idle EXCEPT !.at = "check", !.queue = beat.queue]
    /\ Beating /\ UNCHANGED <<durable, fresh>>

\* The runner was told to stop: the thread leaves its loop and drops all ownership.
\* No lease is revoked.
LeaveLoop ==
    /\ beat.at = "wait" /\ phase # "Running"
    /\ beat' = [Idle EXCEPT !.at = "clear"]
    /\ Beating /\ UNCHANGED <<durable, registry>>

\* A persistence fault, or a panic, of a renewal.
BeatFails ==
    /\ beat.at \in {"check", "renew"}
    /\ phase' = "Failed"
    /\ beat' = [Idle EXCEPT !.at = "fail"]
    /\ UNCHANGED <<durable, token, registry, sight>>

\* ... and the gate, the daemon's, is failed before the ownership goes.
FailGate ==
    /\ beat.at = "fail"
    /\ beat' = [Idle EXCEPT !.at = "clear"]
    /\ Beating /\ UNCHANGED <<durable, registry>>

clear ==
    /\ beat.at = "clear"
    /\ entry' = [e \in Executions |-> "none"]
    /\ due' = [e \in Executions |-> 0]
    /\ fresh' = [e \in Executions |-> 0]
    /\ beat' = [Idle EXCEPT !.at = "gone"]
    /\ UNCHANGED <<durable, token, phase, sight>>

request_stop ==
    /\ phase = "Running" /\ phase' = "ShuttingDown"
    /\ UNCHANGED <<durable, token, registry, beat, sight>>

\* A renewal step that does not hold the registry lock, and one that does.
BeatUnlocked == Anchor \/ renew_supervised_execution_guarded \/ LeaveLoop \/ FailGate
BeatLocked == renew_due \/ CheckFreshness \/ ReadFreshness \/ ApplyRenewal \/ clear

----------------------------------------------------------------------------
(* The physical observer *)

Seeing == UNCHANGED <<token, phase>>

\* observe_execution answers for a supervised execution; an end stops the renewal
\* before its outcome is collected.
Answer(e, kind) ==
    /\ sight.at = "idle" /\ Owned(e)
    /\ sight' = [at |-> "answered", id |-> e, kind |-> kind]
    /\ IF kind = "PhysicalEnded" THEN stop_renewal_eligibility(e) ELSE UNCHANGED entry
    /\ UNCHANGED <<durable, due, fresh, beat>> /\ Seeing

\* ExactRunning re-establishes freshness and brings the deadline forward.
refresh_positive ==
    /\ sight.at = "answered" /\ sight.kind = "ExactRunning"
    /\ IF Owned(sight.id)
       THEN /\ entry' = [entry EXCEPT ![sight.id] = "eligible"]
            /\ fresh' = [fresh EXCEPT ![sight.id] = Freshness]
            /\ due' = [due EXCEPT ![sight.id] = 0]
            /\ beat' = [beat EXCEPT !.refreshed = @ \/ beat.id = sight.id]
       ELSE UNCHANGED <<entry, fresh, due, beat>>
    /\ sight' = Unseeing
    /\ UNCHANGED durable /\ Seeing

\* ProtocolInvalid stops the renewal, and an activation sweep also closes the attempt.
ProtocolInvalid(activation) ==
    /\ sight.at = "answered" /\ sight.kind = "ProtocolInvalid"
    /\ stop_renewal_eligibility(sight.id)
    /\ sight' = IF activation THEN [sight EXCEPT !.at = "nack"] ELSE Unseeing
    /\ UNCHANGED <<durable, due, fresh, beat>> /\ Seeing

\* An error or an unclear answer means nothing, except to an activation sweep.
Unresolved(activation) ==
    /\ sight.at = "answered" /\ sight.kind = "Unresolved"
    /\ sight' = IF activation THEN [sight EXCEPT !.at = "nack"] ELSE Unseeing
    /\ UNCHANGED <<durable, registry, beat>> /\ Seeing

\* PhysicalEnded and IdentityLost: record the physical end, then the fenced NACK,
\* then the entry goes.  A loss that the history refuses, for it has an end
\* already, drops the entry at once.
RecordPhysicalEnd ==
    /\ sight.at = "answered" /\ sight.kind = "PhysicalEnded"
    /\ running' = running \ {sight.id}
    /\ \/ sight' = [sight EXCEPT !.at = "nack"]
       \/ sight.id \notin running /\ sight' = [sight EXCEPT !.at = "drop"]
    /\ UNCHANGED <<authority, left, registry, beat>> /\ Seeing

\* A stale authority is no error: there is nothing to close.
NackObserved ==
    /\ sight.at = "nack"
    /\ IF Current(sight.id)
       THEN /\ authority' = [authority EXCEPT ![sight.id] = "closed"]
            /\ left' = [left EXCEPT ![sight.id] = 0]
       ELSE UNCHANGED <<authority, left>>
    /\ sight' = [sight EXCEPT !.at = "drop"]
    /\ UNCHANGED <<running, registry, beat>> /\ Seeing

DropObserved ==
    /\ sight.at = "drop"
    /\ drop_if_current(sight.id)
    /\ sight' = Unseeing
    /\ UNCHANGED <<durable, beat>> /\ Seeing

Kinds == {"ExactRunning", "PhysicalEnded", "ProtocolInvalid", "Unresolved"}

ApplySight(activation) ==
    \/ refresh_positive
    \/ ProtocolInvalid(activation) \/ Unresolved(activation)
    \/ RecordPhysicalEnd \/ NackObserved \/ DropObserved

SupNext ==
    \/ Tick
    \/ BeatUnlocked \/ BeatLocked \/ BeatFails \/ request_stop
    \/ \E e \in Executions : Claimed(e) \/ Confirm(e) \/ Close(e) \/ admit(e)
    \/ \E e \in Executions, kind \in Kinds : Answer(e, kind)
    \/ \E activation \in BOOLEAN : ApplySight(activation)

SupSpec == SupInit /\ [][SupNext]_supVars

----------------------------------------------------------------------------
(* What is checked *)

\* "A healthy supervisor can never schedule itself past the durable expiry": while
\* an entry may renew, its next deadline comes before its lease runs out.
ScheduledBeforeExpiry ==
    \A e \in Executions :
        entry[e] = "eligible" /\ Current(e) => due[e] < left[e]

Renewing == beat.at = "renew" /\ beat'.at = "apply"

\* The heartbeat extends a lease only on evidence that is fresh when the
\* transaction commits, although it checked the evidence, and released the
\* registry lock, before; and it gives no authority back: a lease that ran out,
\* or whose attempt was closed, is never extended.
RenewedOnFreshEvidence ==
    [][\A e \in Executions :
          Renewing /\ left'[e] > left[e] => fresh[e] > 0 /\ Current(e)]_supVars

\* A renewal result revokes only the evidence it examined: the heartbeat never stops
\* an execution with fresh evidence whose authority and physical state are intact.
FreshIsNotRevoked ==
    [][\A e \in Executions :
          /\ beat # beat' /\ entry[e] = "eligible" /\ entry'[e] = "stopped"
          /\ sight = sight'
          => \/ fresh[e] = 0
             \/ beat.outcome \in {"AuthorityLost", "NotRunning"}]_supVars

=============================================================================
