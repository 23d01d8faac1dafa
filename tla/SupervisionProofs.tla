------------------------- MODULE SupervisionProofs -------------------------
(***************************************************************************)
(* The heartbeat keeps its three promises for every number of executions   *)
(* and every lease, heartbeat and freshness that the configuration admits. *)
(*                                                                         *)
(* The inductive invariant says what the heartbeat and the observer may    *)
(* still rely on after they released the registry lock.                    *)
(***************************************************************************)
EXTENDS Supervision, TLAPS

\* No renewal can succeed any more.
Gone(e) == e \notin running \/ ~Current(e)

\* An admission is minted under an authority, anchors the lease it renewed, and is
\* consumed before the registry has an entry.
Minted ==
    \A e \in Executions :
        /\ token[e] # Unminted => authority[e] # "none"
        /\ entry[e] # "none" => token[e] = Spent
        /\ token[e] \in 0..Lease /\ Current(e) => left[e] >= Lease - token[e]

\* The observer drops only what can no longer be renewed.
Sighted ==
    /\ sight.at # "idle" => sight.id \in Executions /\ token[sight.id] = Spent
    /\ sight.at = "drop" => Gone(sight.id)

\* An entry that vanished under the heartbeat's hands belonged to such an execution.
InRenewal ==
    beat.at \in {"anchor", "read", "renew", "apply"} =>
        /\ beat.id \in Executions /\ token[beat.id] = Spent
        /\ entry[beat.id] = "none" => Gone(beat.id)

\* The freshness that was read is a lower bound of the present one, and is the present
\* one unless an observation came in between.
FreshAsRead ==
    beat.at = "renew" =>
        /\ beat.unbounded => Gone(beat.id)
        /\ ~beat.unbounded /\ entry[beat.id] # "none" => beat.until <= fresh[beat.id]
        /\ ~beat.unbounded /\ ~beat.refreshed => fresh[beat.id] <= beat.until

\* The anchor was read before the lease was extended; a staleness that no observation
\* overtook is still one.
ResultHolds ==
    beat.at = "apply" =>
        /\ beat.outcome = "Renewed" /\ Current(beat.id) /\ beat.age < Heartbeat
           => left[beat.id] >= Lease - beat.age
        /\ beat.outcome = "FreshnessExpired" /\ ~beat.refreshed => fresh[beat.id] = 0

SInv ==
    /\ SupTypeOK
    /\ Minted
    /\ Sighted
    /\ InRenewal
    /\ FreshAsRead
    /\ ResultHolds
    /\ ScheduledBeforeExpiry

----------------------------------------------------------------------------
(* Types *)

\* The heartbeat thread keeps the types ...
LEMMA BeatTypes ==
    ASSUME SupTypeOK, BeatUnlocked \/ BeatLocked \/ BeatFails \/ request_stop \/ Tick,
           InRenewal
    PROVE  SupTypeOK'
<1>0. Idle \in Beats
    BY TimingAssumption DEF Idle, Beats, Outcomes, Ages
<1>b. beat \in Beats
    BY DEF SupTypeOK
<1>d. \A e, n : n \in 0..Heartbeat => [due EXCEPT ![e] = n] \in [Executions -> 0..Heartbeat]
    BY Zenon DEF SupTypeOK
<1>1. CASE Tick
    <2>1. \A n \in Nat : Down(n) \in 0..n
        BY DEF Down
    <2>2. left' \in [Executions -> 0..Lease] /\ due' \in [Executions -> 0..Heartbeat]
        BY <1>1, <2>1, TimingAssumption DEF Tick, SupTypeOK
    <2>3. fresh' \in [Executions -> 0..Freshness]
        BY <1>1, <2>1, TimingAssumption DEF Tick, SupTypeOK
    <2>4. token' \in [Executions -> {Unminted, Spent} \cup 0..Lease]
        BY <1>1, TimingAssumption DEF Tick, SupTypeOK, Unminted, Spent
    <2>5. beat' \in Beats
        <3>1. /\ (IF beat.age < Heartbeat THEN beat.age + 1 ELSE beat.age) \in Ages
              /\ Down(beat.until) \in 0..Freshness
            BY <1>b, TimingAssumption DEF Beats, Ages, Down
        <3> QED
            BY Zenon, <1>1, <1>b, <3>1 DEF Tick, Beats
    <2> QED
        BY <1>1, <2>2, <2>3, <2>4, <2>5 DEF Tick, SupTypeOK
<1>2. CASE renew_due
    BY Zenon, <1>0, <1>2 DEF renew_due, Beating, durable, registry, Beats, Idle, SupTypeOK
<1>3. CASE CheckFreshness
    <2>0. beat.queue \subseteq Executions
        BY <1>b DEF Beats
    <2>1. beat' \in Beats
        <3>1. \A e \in beat.queue : [beat EXCEPT !.queue = @ \ {e}] \in Beats
            BY <1>b DEF Beats
        <3>2. \A e \in beat.queue :
                 [beat EXCEPT !.at = "anchor", !.id = e, !.queue = @ \ {e}] \in Beats
            BY Zenon, <1>b, <2>0 DEF Beats
        <3> QED
            BY Zenon, <1>0, <1>3, <3>1, <3>2 DEF CheckFreshness
    <2>2. entry' \in [Executions -> {"none", "eligible", "stopped"}]
        BY Zenon, <1>3, <2>0 DEF CheckFreshness, SupTypeOK, stop_renewal_eligibility
    <2>3. due' \in [Executions -> 0..Heartbeat]
        <3>1. Heartbeat \in 0..Heartbeat /\ due \in [Executions -> 0..Heartbeat]
            BY TimingAssumption DEF SupTypeOK
        <3> QED
            BY Zenon, <1>3, <1>d, <3>1 DEF CheckFreshness
    <2> QED
        BY Zenon, <1>3, <2>1, <2>2, <2>3 DEF CheckFreshness, Beating, durable, SupTypeOK
<1>4. CASE Anchor
    <2>1. beat' \in Beats
        <3>1. 0 \in Ages
            BY TimingAssumption DEF Ages
        <3> QED
            BY Zenon, <1>4, <1>b, <3>1 DEF Anchor, Beats
    <2> QED
        BY <1>4, <2>1 DEF Anchor, Beating, durable, registry, SupTypeOK
<1>5. CASE ReadFreshness
    <2>1. beat.id \in Executions
        BY <1>5 DEF ReadFreshness, InRenewal
    <2>2. fresh[beat.id] \in 0..Freshness /\ (~Owned(beat.id)) \in BOOLEAN
        BY <2>1 DEF SupTypeOK, Owned
    <2>3. beat' = [beat EXCEPT !.at = "renew", !.until = fresh[beat.id],
                               !.unbounded = ~Owned(beat.id), !.refreshed = FALSE]
        BY <1>5 DEF ReadFreshness
    <2>4. beat' \in Beats
        BY Zenon, <1>b, <2>2, <2>3 DEF Beats
    <2> QED
        BY <1>5, <2>4 DEF ReadFreshness, Beating, durable, registry, SupTypeOK
<1>6. CASE renew_supervised_execution_guarded
    <2>1. beat' \in Beats
        <3>1. \A outcome \in Outcomes :
                 [beat EXCEPT !.at = "apply", !.until = 0, !.outcome = outcome] \in Beats
            <4>1. 0 \in 0..Freshness
                BY TimingAssumption
            <4> QED
                BY Zenon, <1>b, <4>1 DEF Beats
        <3> QED
            BY Zenon, <1>6, <3>1 DEF renew_supervised_execution_guarded, Outcomes
    <2>2. left' \in [Executions -> 0..Lease]
        BY <1>6, TimingAssumption DEF renew_supervised_execution_guarded, SupTypeOK
    <2> QED
        BY <1>6, <2>1, <2>2 DEF renew_supervised_execution_guarded, Beating, registry, SupTypeOK
<1>7. CASE ApplyRenewal
    <2>1. beat' \in Beats
        BY Zenon, <1>0, <1>b, <1>7 DEF ApplyRenewal, Beats
    <2>2. entry' \in [Executions -> {"none", "eligible", "stopped"}]
        BY <1>7 DEF ApplyRenewal, SupTypeOK, stop_renewal_eligibility
    <2>3. beat.age \in 0..Heartbeat
        BY DEF SupTypeOK, Beats, Ages
    <2>4. due' \in [Executions -> 0..Heartbeat]
        <3>1. /\ 0 \in 0..Heartbeat /\ Remaining(Heartbeat, beat.age) \in 0..Heartbeat
              /\ due \in [Executions -> 0..Heartbeat]
            BY <2>3, TimingAssumption DEF SupTypeOK, Remaining
        <3> QED
            BY Zenon, <1>7, <1>d, <3>1 DEF ApplyRenewal
    <2> QED
        BY <1>7, <2>1, <2>2, <2>4 DEF ApplyRenewal, Beating, durable, SupTypeOK
<1>8. CASE LeaveLoop \/ FailGate \/ BeatFails
    <2>1. beat' \in Beats
        BY <1>0, <1>8 DEF LeaveLoop, FailGate, BeatFails, Beats
    <2> QED
        BY <1>8, <2>1 DEF LeaveLoop, FailGate, BeatFails, Beating, durable, registry, SupTypeOK
<1>9. CASE clear
    BY <1>0, <1>9, TimingAssumption DEF clear, durable, Beats, SupTypeOK
<1>10. CASE request_stop
    BY <1>10 DEF request_stop, durable, registry, SupTypeOK
<1> QED
    BY <1>1, <1>2, <1>3, <1>4, <1>5, <1>6, <1>7, <1>8, <1>9, <1>10 DEF BeatUnlocked, BeatLocked

\* ... and so do the kernel, the admission and the observer.
LEMMA OtherTypes ==
    ASSUME SupTypeOK,
           \/ \E e \in Executions : Claimed(e) \/ Confirm(e) \/ Close(e) \/ admit(e)
           \/ \E e \in Executions, kind \in Kinds : Answer(e, kind)
           \/ \E activation \in BOOLEAN : ApplySight(activation)
    PROVE  SupTypeOK'
<1>1. CASE \E e \in Executions : Claimed(e)
    BY <1>1, TimingAssumption DEF Claimed, registry, SupTypeOK
<1>2. CASE \E e \in Executions : Confirm(e)
    BY <1>2, TimingAssumption DEF Confirm, registry, SupTypeOK
<1>3. CASE \E e \in Executions : Close(e)
    BY <1>3, TimingAssumption DEF Close, registry, SupTypeOK
<1>4. CASE \E e \in Executions : admit(e)
    BY <1>4, TimingAssumption DEF admit, registry, durable, Remaining, SupTypeOK, Unminted, Spent
<1>5. CASE \E e \in Executions, kind \in Kinds : Answer(e, kind)
    BY <1>5 DEF Answer, Seeing, durable, stop_renewal_eligibility, Sights, Kinds, SupTypeOK
<1>6. Unseeing \in Sights
    BY DEF Unseeing, Sights
<1>7. CASE refresh_positive
    <2>1. beat' \in Beats
        <3>1. beat \in Beats
            BY DEF SupTypeOK
        <3>2. [beat EXCEPT !.refreshed = beat.refreshed \/ beat.id = sight.id] \in Beats
            BY Zenon, <3>1 DEF Beats
        <3>3. \/ beat' = beat
              \/ beat' = [beat EXCEPT !.refreshed = beat.refreshed \/ beat.id = sight.id]
            BY <1>7, Zenon DEF refresh_positive
        <3> QED
            BY <3>1, <3>2, <3>3, Zenon
    <2>2. /\ entry' \in [Executions -> {"none", "eligible", "stopped"}]
          /\ due' \in [Executions -> 0..Heartbeat]
          /\ fresh' \in [Executions -> 0..Freshness]
        BY <1>7, TimingAssumption DEF refresh_positive, SupTypeOK
    <2> QED
        BY <1>6, <1>7, <2>1, <2>2 DEF refresh_positive, Seeing, durable, SupTypeOK
<1>8. CASE \E activation \in BOOLEAN : ProtocolInvalid(activation) \/ Unresolved(activation)
    <2>1. sight' \in Sights
        BY <1>6, <1>8 DEF ProtocolInvalid, Unresolved, SupTypeOK, Sights
    <2>2. entry' \in [Executions -> {"none", "eligible", "stopped"}]
        BY <1>8 DEF ProtocolInvalid, Unresolved, stop_renewal_eligibility, registry, SupTypeOK
    <2> QED
        BY <1>8, <2>1, <2>2 DEF ProtocolInvalid, Unresolved, Seeing, durable, registry, SupTypeOK
<1>9. CASE RecordPhysicalEnd
    <2>1. sight' \in Sights
        BY <1>9 DEF RecordPhysicalEnd, SupTypeOK, Sights
    <2> QED
        BY <1>9, <2>1 DEF RecordPhysicalEnd, Seeing, registry, SupTypeOK
<1>10. CASE NackObserved
    <2>1. sight' \in Sights
        BY <1>10 DEF NackObserved, SupTypeOK, Sights
    <2> QED
        BY <1>10, <2>1, TimingAssumption DEF NackObserved, Seeing, registry, SupTypeOK
<1>11. CASE DropObserved
    <2>1. \A e : [entry EXCEPT ![e] = "none"] \in [Executions -> {"none", "eligible", "stopped"}]
        BY Zenon DEF SupTypeOK
    <2>2. \A e, n : n \in 0..Heartbeat => [due EXCEPT ![e] = n] \in [Executions -> 0..Heartbeat]
        BY Zenon DEF SupTypeOK
    <2>3. \A e, n : n \in 0..Freshness => [fresh EXCEPT ![e] = n] \in [Executions -> 0..Freshness]
        BY Zenon DEF SupTypeOK
    <2>4. 0 \in 0..Heartbeat /\ 0 \in 0..Freshness
        BY TimingAssumption
    <2> QED
        BY Zenon, <1>6, <1>11, <2>1, <2>2, <2>3, <2>4
        DEF DropObserved, drop_if_current, Seeing, durable, SupTypeOK
<1> QED
    BY <1>1, <1>2, <1>3, <1>4, <1>5, <1>7, <1>8, <1>9, <1>10, <1>11 DEF ApplySight

----------------------------------------------------------------------------
(* The other conjuncts.  Writing primed and unprimed conjuncts side by side,   *)
(* each action disturbs few of them.                                           *)

\* What is gone stays gone, once its admission was minted.
LEMMA GoneForGood ==
    ASSUME SInv, SupNext, NEW e \in Executions, token[e] = Spent, Gone(e)
    PROVE  token'[e] = Spent /\ Gone(e)'
<1> USE DEF SInv, SupTypeOK
<1>0. authority[e] # "none" /\ token[e] # Unminted /\ token[e] \notin 0..Lease
    BY TimingAssumption DEF Minted, Spent, Unminted
<1>1. CASE Tick
    BY <1>0, <1>1, TimingAssumption DEF Tick, Down, Gone, Current
<1>2. CASE BeatUnlocked \/ BeatLocked
    <2>1. CASE renew_supervised_execution_guarded
        BY <1>0, <2>1 DEF renew_supervised_execution_guarded, Beating, Gone, Current
    <2>2. CASE ~renew_supervised_execution_guarded
        <3>1. UNCHANGED <<durable, token>>
            BY Zenon, <1>2, <2>2 DEF BeatUnlocked, BeatLocked, Anchor, LeaveLoop, FailGate,
                renew_due, CheckFreshness, ReadFreshness, ApplyRenewal, clear, Beating
        <3> QED
            BY <1>0, <3>1 DEF durable, Gone, Current
    <2> QED
        BY <2>1, <2>2
<1>3. CASE BeatFails \/ request_stop
    BY <1>0, <1>3 DEF BeatFails, request_stop, durable, Gone, Current
<1>4. CASE \E d \in Executions : Claimed(d) \/ Confirm(d)
    BY <1>0, <1>4 DEF Claimed, Confirm, Gone, Current
<1>5. CASE \E d \in Executions : Close(d)
    BY <1>0, <1>5, TimingAssumption DEF Close, Gone, Current
<1>6. CASE \E d \in Executions : admit(d)
    BY <1>0, <1>6 DEF admit, durable, Gone, Current
<1>7. CASE \E d \in Executions, kind \in Kinds : Answer(d, kind)
    BY <1>0, <1>7 DEF Answer, Seeing, durable, Gone, Current
<1>8. CASE \E activation \in BOOLEAN : ApplySight(activation)
    <2>1. CASE RecordPhysicalEnd
        BY <1>0, <2>1 DEF RecordPhysicalEnd, Seeing, Gone, Current
    <2>2. CASE NackObserved
        BY <1>0, <2>2, TimingAssumption DEF NackObserved, Seeing, Gone, Current
    <2>3. CASE ~RecordPhysicalEnd /\ ~NackObserved
        <3>1. UNCHANGED <<durable, token>>
            BY Zenon, <1>8, <2>3 DEF ApplySight, refresh_positive, ProtocolInvalid, Unresolved,
                DropObserved, Seeing
        <3> QED
            BY <1>0, <3>1 DEF durable, Gone, Current
    <2> QED
        BY <2>1, <2>2, <2>3
<1> QED
    BY <1>1, <1>2, <1>3, <1>4, <1>5, <1>6, <1>7, <1>8 DEF SupNext

\* Minted, Sighted and InRenewal.
LEMMA HoldersStep ==
    ASSUME SInv, SupNext
    PROVE  Minted' /\ Sighted' /\ InRenewal'
<1> USE DEF SInv, SupTypeOK
<1>g. \A e \in Executions : token[e] = Spent /\ Gone(e) => token'[e] = Spent /\ Gone(e)'
    BY GoneForGood
<1>1. CASE Tick
    <2>1. Minted'
        BY <1>1, TimingAssumption DEF Tick, Minted, Current, Down, Unminted, Spent
    <2>2. \A e \in Executions : token[e] = Spent => token'[e] = Spent
        BY <1>1, TimingAssumption DEF Tick, Spent
    <2>3. Sighted'
        BY <1>1, <1>g, <2>2 DEF Tick, Sighted
    <2>4. beat'.at = beat.at /\ beat'.id = beat.id /\ entry' = entry
        BY <1>1 DEF Tick, Beats
    <2> QED
        BY <1>g, <2>1, <2>2, <2>3, <2>4 DEF InRenewal
<1>2. CASE renew_due \/ Anchor \/ LeaveLoop \/ FailGate \/ BeatFails \/ request_stop
    <2>1. UNCHANGED <<durable, token, registry, sight>>
        BY Zenon, <1>2 DEF renew_due, Anchor, LeaveLoop, FailGate, BeatFails, request_stop, Beating
    <2>2. \/ beat'.at \notin {"anchor", "read", "renew", "apply"}
          \/ beat'.id = beat.id /\ beat.at \in {"anchor", "read", "renew", "apply"}
        <3>1. CASE Anchor
            BY <3>1 DEF Anchor, Beats
        <3>2. CASE renew_due \/ LeaveLoop \/ FailGate \/ BeatFails
            <4>1. beat'.at \in {"check", "clear", "fail"}
                BY ZenonT(60), <3>2 DEF renew_due, LeaveLoop, FailGate, BeatFails, Idle
            <4> QED
                BY <4>1
        <3>3. CASE request_stop
            <4>1. beat' = beat
                BY <3>3 DEF request_stop
            <4> QED
                BY <4>1
        <3> QED
            BY <1>2, <3>1, <3>2, <3>3
    <2>3. Minted' /\ Sighted'
        BY <1>g, <2>1 DEF durable, registry, Minted, Current, Sighted
    <2>4. InRenewal'
        BY <1>g, <2>1, <2>2 DEF durable, registry, InRenewal
    <2> QED
        BY <2>3, <2>4
<1>3. CASE CheckFreshness
    <2>1. UNCHANGED <<durable, token, sight>>
        BY Zenon, <1>3 DEF CheckFreshness, Beating
    <2>2. \A e \in Executions : entry'[e] = "none" <=> entry[e] = "none"
        BY Zenon, <1>3 DEF CheckFreshness, stop_renewal_eligibility
    <2>3. Minted' /\ Sighted'
        BY <1>g, <2>1, <2>2 DEF durable, Minted, Current, Sighted
    <2>4. InRenewal'
        <3>1. \/ beat' = Idle
              \/ \E e \in beat.queue : beat' = [beat EXCEPT !.queue = @ \ {e}]
              \/ \E e \in beat.queue :
                    Owned(e) /\ beat' = [beat EXCEPT !.at = "anchor", !.id = e, !.queue = @ \ {e}]
            BY Zenon, <1>3 DEF CheckFreshness
        <3>2. beat.at = "check" /\ beat \in Beats
            BY Zenon, <1>3 DEF CheckFreshness
        <3>3. CASE beat' = Idle
            BY <3>3 DEF Idle, InRenewal
        <3>4. CASE \E e \in beat.queue : beat' = [beat EXCEPT !.queue = @ \ {e}]
            <4>1. beat'.at = "check"
                BY <3>2, <3>4 DEF Beats
            <4> QED
                BY <4>1 DEF InRenewal
        <3>5. ASSUME NEW e \in beat.queue, Owned(e),
                     beat' = [beat EXCEPT !.at = "anchor", !.id = e, !.queue = @ \ {e}]
              PROVE  InRenewal'
            <4>1. e \in Executions /\ beat'.id = e
                BY <3>2, <3>5 DEF Beats
            <4>2. entry[e] # "none" /\ token'[e] = Spent
                BY <2>1, <3>5, <4>1 DEF Owned, Minted
            <4> QED
                BY <2>2, <4>1, <4>2 DEF InRenewal
        <3> QED
            BY Zenon, <3>1, <3>3, <3>4, <3>5
    <2> QED
        BY <2>3, <2>4
<1>4. CASE ReadFreshness
    <2>1. UNCHANGED <<durable, token, registry, sight>>
        BY <1>4 DEF ReadFreshness, Beating
    <2>2. beat.at = "read" /\ beat'.id = beat.id
        BY <1>4 DEF ReadFreshness, Beats
    <2> QED
        BY <1>g, <2>1, <2>2 DEF durable, registry, Minted, Current, Sighted, InRenewal
<1>5. CASE renew_supervised_execution_guarded
    <2>0. beat.at = "renew" /\ beat.id \in Executions /\ token[beat.id] = Spent
        BY <1>5 DEF renew_supervised_execution_guarded, InRenewal
    <2>1. UNCHANGED <<authority, running, token, registry, sight>>
        BY <1>5 DEF renew_supervised_execution_guarded, Beating
    <2>2. beat'.id = beat.id
        BY <1>5 DEF renew_supervised_execution_guarded, Beats
    <2>3. \A e \in Executions : token[e] # Spent => left'[e] = left[e]
        BY <1>5, <2>0 DEF renew_supervised_execution_guarded
    <2>4. Minted'
        BY <2>1, <2>3, TimingAssumption DEF registry, Minted, Current, Spent, Unminted
    <2> QED
        BY <1>g, <2>0, <2>1, <2>2, <2>4 DEF registry, Sighted, InRenewal
<1>6. CASE ApplyRenewal
    <2>1. UNCHANGED <<durable, token, sight>> /\ beat'.at = "check"
        BY <1>6 DEF ApplyRenewal, Beating, Idle
    <2>2. \A e \in Executions : entry'[e] = "none" <=> entry[e] = "none"
        BY <1>6 DEF ApplyRenewal, stop_renewal_eligibility
    <2> QED
        BY <1>g, <2>1, <2>2 DEF durable, Minted, Current, Sighted, InRenewal
<1>7. CASE clear
    <2>1. UNCHANGED <<durable, token, sight>> /\ beat'.at = "gone"
        BY <1>7 DEF clear, Idle
    <2>2. \A e \in Executions : entry'[e] = "none"
        BY <1>7 DEF clear
    <2> QED
        BY <1>g, <2>1, <2>2 DEF durable, Minted, Current, Sighted, InRenewal
<1>8. CASE \E d \in Executions : Claimed(d) \/ Close(d)
    <2>1. UNCHANGED <<token, registry, beat, sight>>
        BY <1>8 DEF Claimed, Close
    <2>2. \A e \in Executions : token[e] # Unminted =>
             authority'[e] # "none" /\ (Current(e)' => Current(e) /\ left'[e] = left[e])
        BY <1>8, TimingAssumption DEF Claimed, Close, Current, Minted
    <2>3. Minted'
        BY <2>1, <2>2, TimingAssumption DEF registry, Minted, Unminted, Spent
    <2> QED
        BY <1>g, <2>1, <2>3 DEF registry, Sighted, InRenewal
<1>9. CASE \E d \in Executions : Confirm(d)
    <2>1. UNCHANGED <<authority, registry, beat, sight>>
        BY <1>9 DEF Confirm
    <2>2. PICK d \in Executions : Confirm(d)
        BY <1>9
    <2>3. \A e \in Executions : e # d => token'[e] = token[e] /\ left'[e] = left[e]
        BY <2>2 DEF Confirm
    <2>4. token[d] = Unminted /\ token'[d] = 0 /\ left'[d] = Lease /\ authority[d] = "active"
        BY <2>2 DEF Confirm, Current
    <2>5. entry[d] = "none" /\ 0 # Unminted
        BY <2>4 DEF Minted, Unminted, Spent
    <2>6. Minted'
        BY <2>1, <2>3, <2>4, <2>5, TimingAssumption DEF registry, Minted, Current
    <2>7. \A e \in Executions : token[e] = Spent => token'[e] = Spent
        BY <2>3, <2>4 DEF Unminted, Spent
    <2> QED
        BY <1>g, <2>1, <2>6, <2>7 DEF registry, Sighted, InRenewal
<1>10. CASE \E d \in Executions : admit(d)
    <2>1. PICK d \in Executions : admit(d)
        BY <1>10
    <2>2. UNCHANGED <<durable, beat, sight>>
        BY <2>1 DEF admit
    <2>3. token[d] \in 0..Lease /\ token'[d] = Spent
        BY <2>1 DEF admit
    <2>4. \A e \in Executions : e # d => token'[e] = token[e] /\ entry'[e] = entry[e]
        BY <2>1 DEF admit, registry
    <2>5. token[d] # Unminted /\ token[d] # Spent /\ Spent \notin 0..Lease
        BY <2>3, TimingAssumption DEF Unminted, Spent
    <2>6. Minted'
        BY <2>2, <2>3, <2>4, <2>5 DEF durable, Minted, Current
    <2>7. \A e \in Executions : token[e] = Spent => token'[e] = Spent /\ entry'[e] = entry[e]
        BY <2>4, <2>5
    <2> QED
        BY <1>g, <2>2, <2>6, <2>7 DEF Sighted, InRenewal
<1>11. CASE \E d \in Executions, kind \in Kinds : Answer(d, kind)
    <2>1. PICK d \in Executions, kind \in Kinds : Answer(d, kind)
        BY <1>11
    <2>2. UNCHANGED <<durable, token, beat>>
        BY <2>1 DEF Answer, Seeing
    <2>3. \A e \in Executions : entry'[e] = "none" <=> entry[e] = "none"
        BY <2>1 DEF Answer, stop_renewal_eligibility
    <2>4. sight'.at = "answered" /\ sight'.id = d /\ entry[d] # "none"
        BY <2>1 DEF Answer, Owned
    <2> QED
        BY <1>g, <2>2, <2>3, <2>4 DEF durable, Minted, Current, Sighted, InRenewal
<1>12. CASE refresh_positive
    <2>1. UNCHANGED <<durable, token>> /\ sight'.at = "idle"
        BY <1>12 DEF refresh_positive, Seeing, Unseeing
    <2>2. \A e \in Executions : entry'[e] = "none" <=> entry[e] = "none"
        BY <1>12 DEF refresh_positive, Owned
    <2>3. beat'.at = beat.at /\ beat'.id = beat.id
        BY <1>12 DEF refresh_positive, Beats
    <2> QED
        BY <1>g, <2>1, <2>2, <2>3 DEF durable, Minted, Current, Sighted, InRenewal
<1>13. CASE \E activation \in BOOLEAN : ProtocolInvalid(activation) \/ Unresolved(activation)
    <2>1. UNCHANGED <<durable, token, beat>>
        BY <1>13 DEF ProtocolInvalid, Unresolved, Seeing
    <2>2. \A e \in Executions : entry'[e] = "none" <=> entry[e] = "none"
        BY <1>13 DEF ProtocolInvalid, Unresolved, stop_renewal_eligibility, registry
    <2>3. sight.at = "answered" /\ (sight'.at = "idle" \/ (sight'.at = "nack" /\ sight'.id = sight.id))
        BY <1>13 DEF ProtocolInvalid, Unresolved, Unseeing, Sights
    <2> QED
        BY <1>g, <2>1, <2>2, <2>3 DEF durable, Minted, Current, Sighted, InRenewal
<1>14. CASE RecordPhysicalEnd
    <2>1. UNCHANGED <<authority, left, token, registry, beat>>
        BY <1>14 DEF RecordPhysicalEnd, Seeing
    <2>2. sight.at = "answered" /\ sight'.id = sight.id /\ running' = running \ {sight.id}
        BY <1>14 DEF RecordPhysicalEnd, Sights
    <2> QED
        BY <1>g, <2>1, <2>2 DEF registry, Minted, Current, Sighted, InRenewal, Gone
<1>15. CASE NackObserved
    <2>1. UNCHANGED <<running, token, registry, beat>>
        BY <1>15 DEF NackObserved, Seeing
    <2>2. sight.at = "nack" /\ sight'.id = sight.id
        BY <1>15 DEF NackObserved, Sights
    <2>3. sight.id \in Executions /\ token[sight.id] = Spent /\ ~Current(sight.id)'
        BY <1>15, <2>2 DEF NackObserved, Sighted, Current
    <2>4. \A e \in Executions : /\ authority[e] # "none" => authority'[e] # "none"
                                /\ Current(e)' => Current(e) /\ left'[e] = left[e]
        BY <1>15, TimingAssumption DEF NackObserved, Current
    <2>5. Minted'
        BY <2>1, <2>4 DEF registry, Minted
    <2> QED
        BY <1>g, <2>1, <2>2, <2>3, <2>5 DEF registry, Sighted, InRenewal, Gone
<1>16. CASE DropObserved
    <2>1. UNCHANGED <<durable, token, beat>> /\ sight'.at = "idle"
        BY <1>16 DEF DropObserved, Seeing, Unseeing
    <2>2. sight.id \in Executions /\ Gone(sight.id)
        BY <1>16 DEF DropObserved, Sighted
    <2>3. \A e \in Executions : entry'[e] = IF e = sight.id THEN "none" ELSE entry[e]
        BY <1>16 DEF DropObserved, drop_if_current
    <2> QED
        BY <1>g, <2>1, <2>2, <2>3 DEF durable, Minted, Current, Sighted, InRenewal
<1> QED
    BY <1>1, <1>2, <1>3, <1>4, <1>5, <1>6, <1>7, <1>8, <1>9, <1>10, <1>11, <1>12, <1>13, <1>14,
       <1>15, <1>16 DEF SupNext, BeatUnlocked, BeatLocked, ApplySight

\* FreshAsRead and ResultHolds, for the steps of the heartbeat and of time ...
LEMMA ReceiptsBeat ==
    ASSUME SInv, SupNext, BeatUnlocked \/ BeatLocked \/ BeatFails \/ request_stop \/ Tick
    PROVE  FreshAsRead' /\ ResultHolds'
<1> USE DEF SInv, SupTypeOK
<1>g. \A e \in Executions : token[e] = Spent /\ Gone(e) => Gone(e)'
    BY GoneForGood
<1>b. beat.at \in {"renew", "apply"} => beat.id \in Executions /\ token[beat.id] = Spent
    BY DEF InRenewal
<1>1. CASE Tick
    <2>1. /\ beat'.at = beat.at /\ beat'.id = beat.id /\ beat'.unbounded = beat.unbounded
          /\ beat'.refreshed = beat.refreshed /\ beat'.outcome = beat.outcome
          /\ beat'.until = Down(beat.until)
          /\ beat'.age = IF beat.age < Heartbeat THEN beat.age + 1 ELSE beat.age
        BY <1>1 DEF Tick, Beats
    <2>2. beat.until \in Nat /\ beat.age \in Nat
        BY TimingAssumption DEF Beats, Ages
    <2>3. /\ entry' = entry /\ authority' = authority
          /\ \A e \in Executions : fresh'[e] = Down(fresh[e]) /\ left'[e] = Down(left[e])
        BY <1>1 DEF Tick
    <2>4. \A e \in Executions : fresh[e] \in Nat /\ left[e] \in Nat
        BY TimingAssumption
    <2>5. FreshAsRead'
        BY <1>g, <1>b, <2>1, <2>2, <2>3, <2>4 DEF FreshAsRead, Down
    <2>6. ResultHolds'
        BY <1>b, <2>1, <2>2, <2>3, <2>4, TimingAssumption DEF ResultHolds, Down, Current
    <2> QED
        BY <2>5, <2>6
<1>2. CASE renew_due \/ Anchor \/ CheckFreshness \/ ApplyRenewal \/ LeaveLoop \/ FailGate
           \/ BeatFails \/ clear
    <2>1. beat'.at \notin {"renew", "apply"}
        <3>1. CASE CheckFreshness
            <4>1. \/ beat' = Idle
                  \/ \E e \in beat.queue : beat' = [beat EXCEPT !.queue = @ \ {e}]
                  \/ \E e \in beat.queue :
                        beat' = [beat EXCEPT !.at = "anchor", !.id = e, !.queue = @ \ {e}]
                BY Zenon, <3>1 DEF CheckFreshness
            <4>2. beat.at = "check" /\ beat \in Beats
                BY Zenon, <3>1 DEF CheckFreshness
            <4>3. CASE beat' = Idle
                BY <4>3 DEF Idle
            <4>4. ASSUME NEW e, beat' = [beat EXCEPT !.queue = @ \ {e}]
                  PROVE  beat'.at = "check"
                BY <4>2, <4>4 DEF Beats
            <4>5. ASSUME NEW e, beat' = [beat EXCEPT !.at = "anchor", !.id = e, !.queue = @ \ {e}]
                  PROVE  beat'.at = "anchor"
                BY <4>2, <4>5 DEF Beats
            <4> QED
                BY Zenon, <4>1, <4>3, <4>4, <4>5
        <3>2. CASE ~CheckFreshness
            BY Zenon, <1>2, <3>2 DEF renew_due, Anchor, ApplyRenewal, LeaveLoop, FailGate, BeatFails, clear,
                              Idle, Beats
        <3> QED
            BY <3>1, <3>2
    <2> QED
        BY <2>1 DEF FreshAsRead, ResultHolds
<1>3. CASE ReadFreshness
    <2>1. beat.at = "read" /\ beat.id \in Executions /\ token[beat.id] = Spent
        BY <1>3 DEF ReadFreshness, InRenewal
    <2>2. /\ beat'.at = "renew" /\ beat'.id = beat.id /\ beat'.until = fresh[beat.id]
          /\ beat'.unbounded = (~Owned(beat.id))
        BY <1>3 DEF ReadFreshness, Beats
    <2>3. UNCHANGED <<durable, registry>> /\ fresh[beat.id] \in Nat
        BY <1>3, <2>1, TimingAssumption DEF ReadFreshness
    <2>4. beat'.unbounded => Gone(beat.id)'
        BY Zenon, <1>g, <2>1, <2>2 DEF InRenewal, Owned
    <2> QED
        BY <2>2, <2>3, <2>4 DEF FreshAsRead, ResultHolds, registry
<1>4. CASE renew_supervised_execution_guarded
    <2>1. beat.at = "renew" /\ beat.id \in Executions
        BY <1>4, <1>b DEF renew_supervised_execution_guarded
    <2>2. /\ beat'.at = "apply" /\ beat'.id = beat.id /\ beat'.refreshed = beat.refreshed
          /\ beat'.age = beat.age /\ fresh' = fresh
        BY <1>4 DEF renew_supervised_execution_guarded, Beats, registry
    <2>3. beat'.outcome = "Renewed" => left'[beat.id] = Lease
        BY <1>4, <2>1 DEF renew_supervised_execution_guarded, Beats
    <2>4. beat'.outcome = "FreshnessExpired" => beat.until = 0 /\ ~beat.unbounded
        BY <1>4 DEF renew_supervised_execution_guarded, Beats
    <2>5. beat.age \in Nat /\ fresh[beat.id] \in Nat
        BY <2>1, TimingAssumption DEF Beats, Ages
    <2>6. beat'.outcome = "FreshnessExpired" /\ ~beat.refreshed => fresh[beat.id] = 0
        BY <2>1, <2>4, <2>5 DEF FreshAsRead
    <2>7. ResultHolds'
        BY <2>2, <2>3, <2>5, <2>6, TimingAssumption DEF ResultHolds
    <2> QED
        BY <2>2, <2>7 DEF FreshAsRead
<1>5. CASE request_stop
    BY <1>5, <1>b, <1>g DEF request_stop, durable, registry, FreshAsRead, ResultHolds, Current
<1> QED
    BY <1>1, <1>2, <1>3, <1>4, <1>5 DEF BeatUnlocked, BeatLocked

\* ... and for those of the kernel, the admission and the observer.
LEMMA ReceiptsOthers ==
    ASSUME SInv, SupNext,
           \/ \E e \in Executions : Claimed(e) \/ Confirm(e) \/ Close(e) \/ admit(e)
           \/ \E e \in Executions, kind \in Kinds : Answer(e, kind)
           \/ \E activation \in BOOLEAN : ApplySight(activation)
    PROVE  FreshAsRead' /\ ResultHolds'
<1> USE DEF SInv, SupTypeOK
<1>g. \A e \in Executions : token[e] = Spent /\ Gone(e) => Gone(e)'
    BY GoneForGood
<1>b. beat.at \in {"renew", "apply"} =>
         beat.id \in Executions /\ token[beat.id] = Spent /\ authority[beat.id] # "none"
    BY DEF InRenewal, Minted, Spent, Unminted
<1>n. beat.at \in {"renew", "apply"} => beat.until \in Nat /\ fresh[beat.id] \in Nat
    BY SMTT(30), <1>b, TimingAssumption DEF Beats
\* None of them moves the beat, lowers a freshness but by dropping the entry, raises one but
\* by an observation, or gives back or moves the lease of an admitted execution.
<1>1. ASSUME beat' = beat,
             beat.at \in {"renew", "apply"} =>
                /\ entry[beat.id] = "none" <=> entry'[beat.id] = "none"
                /\ fresh'[beat.id] = fresh[beat.id]
                /\ Current(beat.id)' => Current(beat.id) /\ left'[beat.id] = left[beat.id]
      PROVE  FreshAsRead' /\ ResultHolds'
    BY Zenon, <1>1, <1>b, <1>g DEF FreshAsRead, ResultHolds
<1>2. CASE \E d \in Executions : Claimed(d) \/ Confirm(d) \/ Close(d)
    <2>1. UNCHANGED <<registry, beat>>
        BY <1>2 DEF Claimed, Confirm, Close
    <2>2. \A e \in Executions : token[e] = Spent /\ authority[e] # "none" =>
             (Current(e)' => Current(e) /\ left'[e] = left[e])
        BY SMTT(30), <1>2, TimingAssumption DEF Claimed, Confirm, Close, Current, Spent, Unminted
    <2> QED
        BY <1>1, <1>b, <2>1, <2>2 DEF registry
<1>3. CASE \E d \in Executions : admit(d)
    <2>1. \A e \in Executions : token[e] = Spent => entry'[e] = entry[e] /\ fresh'[e] = fresh[e]
        BY <1>3, TimingAssumption DEF admit, registry, Spent
    <2> QED
        BY <1>1, <1>3, <1>b, <2>1 DEF admit, durable, Current
<1>4. CASE \E d \in Executions, kind \in Kinds : Answer(d, kind)
    <2>1. \A e \in Executions : entry[e] = "none" <=> entry'[e] = "none"
        BY Zenon, <1>4 DEF Answer, stop_renewal_eligibility
    <2> QED
        BY <1>1, <1>4, <1>b, <2>1 DEF Answer, durable, Current
<1>5. CASE refresh_positive
    <2>1. /\ beat'.at = beat.at /\ beat'.id = beat.id /\ beat'.unbounded = beat.unbounded
          /\ beat'.outcome = beat.outcome /\ beat'.until = beat.until /\ beat'.age = beat.age
        BY <1>5 DEF refresh_positive, Beats
    <2>2. UNCHANGED durable
        BY Zenon, <1>5 DEF refresh_positive
    <2>3. CASE beat.at \in {"renew", "apply"} /\ beat.id = sight.id /\ Owned(sight.id)
        <3>1. beat'.refreshed
            BY Zenon, <1>5, <2>3 DEF refresh_positive, Beats
        <3>2. fresh'[beat.id] = Freshness /\ beat.until <= Freshness
            BY <1>5, <1>b, <2>3, TimingAssumption DEF refresh_positive, Beats
        <3> QED
            BY <1>b, <1>g, <2>1, <2>2, <2>3, <3>1, <3>2 DEF FreshAsRead, ResultHolds, durable, Current
    <2>4. CASE beat.at \in {"renew", "apply"} /\ ~(beat.id = sight.id /\ Owned(sight.id))
        <3>1. fresh'[beat.id] = fresh[beat.id] /\ entry'[beat.id] = entry[beat.id]
            BY <1>5, <1>b, <2>4 DEF refresh_positive
        <3>2. ~beat'.refreshed => ~beat.refreshed
            BY <1>5 DEF refresh_positive, Beats
        <3> QED
            BY Zenon, <1>b, <1>g, <2>1, <2>2, <3>1, <3>2 DEF FreshAsRead, ResultHolds, durable, Current
    <2>5. CASE beat.at \notin {"renew", "apply"}
        BY <2>1, <2>5 DEF FreshAsRead, ResultHolds
    <2> QED
        BY <2>3, <2>4, <2>5
<1>6. CASE \E activation \in BOOLEAN : ProtocolInvalid(activation) \/ Unresolved(activation)
    <2>1. \A e \in Executions : entry[e] = "none" <=> entry'[e] = "none"
        BY <1>6 DEF ProtocolInvalid, Unresolved, stop_renewal_eligibility, registry
    <2> QED
        BY <1>1, <1>6, <1>b, <2>1 DEF ProtocolInvalid, Unresolved, durable, registry, Current
<1>7. CASE RecordPhysicalEnd
    BY <1>1, <1>7 DEF RecordPhysicalEnd, registry, Current
<1>8. CASE NackObserved
    <2>1. \A e \in Executions : Current(e)' => Current(e) /\ left'[e] = left[e]
        BY <1>8, TimingAssumption DEF NackObserved, Current
    <2> QED
        BY <1>1, <1>8, <1>b, <2>1 DEF NackObserved, registry
<1>9. CASE DropObserved
    <2>1. UNCHANGED <<durable, beat>>
        BY <1>9 DEF DropObserved
    <2>2. \A e \in Executions : \/ entry'[e] = "none" /\ fresh'[e] = 0
                                \/ entry'[e] = entry[e] /\ fresh'[e] = fresh[e]
        BY Zenon, <1>9 DEF DropObserved, drop_if_current
    <2>3. FreshAsRead'
        BY SMTT(30), <1>b, <1>g, <1>n, <2>1, <2>2 DEF FreshAsRead, durable
    <2>4. ResultHolds'
        BY <1>b, <1>n, <2>1, <2>2 DEF ResultHolds, durable, Current
    <2> QED
        BY <2>3, <2>4
<1> QED
    BY <1>2, <1>3, <1>4, <1>5, <1>6, <1>7, <1>8, <1>9 DEF ApplySight

----------------------------------------------------------------------------
(* The schedule *)

\* An entry that may renew is due before its lease runs out, whoever moves either.
LEMMA ScheduleKept ==
    ASSUME SInv, SupNext
    PROVE  ScheduledBeforeExpiry'
<1> USE DEF SInv, SupTypeOK
<1>t. \A e \in Executions :
         /\ left[e] \in Nat /\ due[e] \in Nat /\ due[e] <= Heartbeat
         /\ left[e] <= Lease /\ fresh[e] \in Nat
    BY TimingAssumption
<1>1. CASE Tick
    <2>1. \A e \in Executions : /\ entry'[e] = entry[e] /\ authority'[e] = authority[e]
                                /\ left'[e] = Down(left[e]) /\ due'[e] = Down(due[e])
        BY <1>1 DEF Tick
    <2> QED
        BY <1>t, <2>1 DEF ScheduledBeforeExpiry, Current, Down
<1>2. CASE renew_due \/ Anchor \/ ReadFreshness \/ LeaveLoop \/ FailGate \/ BeatFails
           \/ request_stop
    BY <1>2 DEF renew_due, Anchor, ReadFreshness, LeaveLoop, FailGate, BeatFails, request_stop,
                durable, registry, ScheduledBeforeExpiry, Current
<1>3. CASE CheckFreshness
    <2>1. UNCHANGED durable
        BY Zenon, <1>3 DEF CheckFreshness
    <2>2. \A e \in Executions : \/ entry'[e] = entry[e] /\ due'[e] = due[e]
                                \/ entry'[e] = "stopped"
        BY Zenon, <1>3 DEF CheckFreshness, stop_renewal_eligibility, Owned, Beats
    <2> QED
        BY <2>1, <2>2 DEF ScheduledBeforeExpiry, durable, Current
<1>4. CASE renew_supervised_execution_guarded
    <2>1. UNCHANGED <<authority, registry>>
        BY <1>4 DEF renew_supervised_execution_guarded
    <2>2. left' = left \/ (Current(beat.id) /\ left' = [left EXCEPT ![beat.id] = Lease])
        BY <1>4 DEF renew_supervised_execution_guarded
    <2>3. \A e \in Executions : left'[e] = left[e] \/ left'[e] = Lease
        BY <2>2
    <2>4. \A e \in Executions : Current(e)' => Current(e)
        BY <2>1, <2>2, <1>t DEF Current, registry
    <2> QED
        BY <1>t, <2>1, <2>3, <2>4, TimingAssumption DEF ScheduledBeforeExpiry, registry
<1>5. CASE ApplyRenewal
    <2>1. beat.at = "apply" /\ beat.id \in Executions /\ UNCHANGED durable
        BY <1>5 DEF ApplyRenewal, InRenewal
    <2>2. \A e \in Executions : e # beat.id => entry'[e] = entry[e] /\ due'[e] = due[e]
        BY <1>5 DEF ApplyRenewal, stop_renewal_eligibility
    <2>3. CASE beat.outcome = "FreshnessExpired" /\ beat.refreshed
        <3>1. entry' = entry /\ (due'[beat.id] = due[beat.id] \/ due'[beat.id] = 0)
            BY <1>5, <2>1, <2>3 DEF ApplyRenewal
        <3> QED
            BY <1>t, <2>1, <2>2, <3>1 DEF ScheduledBeforeExpiry, durable, Current
    <2>4. CASE beat.outcome = "Renewed"
        <3>1. entry' = entry /\ (due'[beat.id] = due[beat.id]
                                 \/ due'[beat.id] = Remaining(Heartbeat, beat.age))
            BY <1>5, <2>1, <2>4 DEF ApplyRenewal
        <3>2. beat.age \in Nat
            BY TimingAssumption DEF Beats, Ages
        <3>3. Current(beat.id) => Remaining(Heartbeat, beat.age) < left[beat.id]
            BY <1>t, <2>1, <2>4, <3>2, TimingAssumption DEF ResultHolds, Remaining, Current
        <3> QED
            BY <2>1, <2>2, <3>1, <3>3 DEF ScheduledBeforeExpiry, durable, Current
    <2>5. CASE /\ beat.outcome # "Renewed"
               /\ ~(beat.outcome = "FreshnessExpired" /\ beat.refreshed)
        <3>1. entry'[beat.id] # "eligible"
            BY <1>5, <2>1, <2>5 DEF ApplyRenewal, stop_renewal_eligibility
        <3> QED
            BY <2>1, <2>2, <3>1 DEF ScheduledBeforeExpiry, durable, Current
    <2> QED
        BY <2>3, <2>4, <2>5
<1>6. CASE clear
    BY <1>6 DEF clear, ScheduledBeforeExpiry
<1>7. CASE \E d \in Executions : Claimed(d) \/ Confirm(d)
    <2>1. UNCHANGED registry
        BY <1>7 DEF Claimed, Confirm
    <2>2. \A e \in Executions : \/ authority'[e] = authority[e] /\ left'[e] = left[e]
                                \/ left'[e] = Lease
        BY <1>7 DEF Claimed, Confirm
    <2> QED
        BY <1>t, <2>1, <2>2, TimingAssumption DEF ScheduledBeforeExpiry, registry, Current
<1>8. CASE (\E d \in Executions : Close(d)) \/ NackObserved
    <2>1. UNCHANGED registry
        BY <1>8 DEF Close, NackObserved
    <2>2. \A e \in Executions : \/ authority'[e] = authority[e] /\ left'[e] = left[e]
                                \/ left'[e] = 0
        BY <1>8 DEF Close, NackObserved
    <2> QED
        BY <1>t, <2>1, <2>2 DEF ScheduledBeforeExpiry, registry, Current
<1>9. CASE \E d \in Executions : admit(d)
    <2>1. PICK d \in Executions : admit(d)
        BY <1>9
    <2>2. UNCHANGED durable /\ token[d] \in Nat /\ token[d] \in 0..Lease
        BY <2>1, TimingAssumption DEF admit
    <2>3. \A e \in Executions : e # d => entry'[e] = entry[e] /\ due'[e] = due[e]
        BY <2>1 DEF admit, registry
    <2>4. \/ entry'[d] = entry[d] /\ due'[d] = due[d]
          \/ due'[d] = Remaining(Heartbeat, token[d])
        BY <2>1 DEF admit, registry
    <2>5. Current(d) => Remaining(Heartbeat, token[d]) < left[d]
        BY <1>t, <2>2, TimingAssumption DEF Minted, Remaining, Current
    <2> QED
        BY <2>2, <2>3, <2>4, <2>5 DEF ScheduledBeforeExpiry, durable, Current
<1>10. CASE \/ \E e \in Executions, kind \in Kinds : Answer(e, kind)
            \/ \E activation \in BOOLEAN : ProtocolInvalid(activation) \/ Unresolved(activation)
            \/ RecordPhysicalEnd
    <2>1. UNCHANGED <<authority, left, due>>
        BY <1>10 DEF Answer, ProtocolInvalid, Unresolved, RecordPhysicalEnd, durable, registry
    <2>2. \A e \in Executions : entry'[e] = "eligible" => entry[e] = "eligible"
        BY <1>10 DEF Answer, ProtocolInvalid, Unresolved, RecordPhysicalEnd, registry,
                     stop_renewal_eligibility
    <2> QED
        BY <2>1, <2>2 DEF ScheduledBeforeExpiry, Current
<1>11. CASE refresh_positive
    <2>1. UNCHANGED durable
        BY <1>11 DEF refresh_positive
    <2>2. \A e \in Executions : \/ entry'[e] = entry[e] /\ due'[e] = due[e]
                                \/ due'[e] = 0
        BY <1>11 DEF refresh_positive
    <2> QED
        BY <1>t, <2>1, <2>2 DEF ScheduledBeforeExpiry, durable, Current
<1>12. CASE DropObserved
    <2>1. \A e \in Executions : \/ entry'[e] = entry[e] /\ due'[e] = due[e]
                                \/ entry'[e] = "none"
        BY <1>12 DEF DropObserved, drop_if_current
    <2> QED
        BY <1>12, <2>1 DEF DropObserved, ScheduledBeforeExpiry, durable, Current
<1> QED
    BY Zenon, <1>1, <1>2, <1>3, <1>4, <1>5, <1>6, <1>7, <1>8, <1>9, <1>10, <1>11, <1>12
    DEF SupNext, BeatLocked, BeatUnlocked, ApplySight

----------------------------------------------------------------------------
(* The theorems *)

LEMMA StepKeeps ==
    ASSUME SInv, [SupNext]_supVars
    PROVE  SInv'
<1>1. CASE SupNext
    <2>1. \/ BeatUnlocked \/ BeatLocked \/ BeatFails \/ request_stop \/ Tick
          \/ \E e \in Executions : Claimed(e) \/ Confirm(e) \/ Close(e) \/ admit(e)
          \/ \E e \in Executions, kind \in Kinds : Answer(e, kind)
          \/ \E activation \in BOOLEAN : ApplySight(activation)
        BY Zenon, <1>1 DEF SupNext
    <2>2. SupTypeOK /\ InRenewal
        BY DEF SInv
    <2>3. SupTypeOK'
        BY Zenon, <2>1, <2>2, BeatTypes, OtherTypes
    <2>4. FreshAsRead' /\ ResultHolds'
        BY Zenon, <1>1, <2>1, ReceiptsBeat, ReceiptsOthers
    <2> QED
        BY Zenon, <1>1, <2>3, <2>4, HoldersStep, ScheduleKept DEF SInv
<1>2. CASE UNCHANGED supVars
    <2>1. SupTypeOK'
        BY Zenon, <1>2 DEF supVars, durable, registry, SInv, SupTypeOK
    <2>2. Minted' /\ ScheduledBeforeExpiry'
        BY Zenon, <1>2 DEF supVars, durable, registry, SInv, Minted, ScheduledBeforeExpiry, Current
    <2>3. Sighted' /\ InRenewal'
        BY Zenon, <1>2 DEF supVars, durable, registry, SInv, Sighted, InRenewal, Gone, Current
    <2>4. FreshAsRead' /\ ResultHolds'
        BY Zenon, <1>2 DEF supVars, durable, registry, SInv, FreshAsRead, ResultHolds, Gone, Current
    <2> QED
        BY <2>1, <2>2, <2>3, <2>4 DEF SInv
<1> QED
    BY <1>1, <1>2

\* What the heartbeat and the observer rely on after they let go of the registry lock
\* (renew_one_due, record_observed_outcome) holds in every state of the supervision.
THEOREM SupervisionInvariant == SupSpec => []SInv
<1>1. ASSUME SupInit PROVE SInv
    <2>1. SupTypeOK
        <3>1. Idle \in Beats /\ Unseeing \in Sights
            BY TimingAssumption DEF Idle, Beats, Outcomes, Ages, Unseeing, Sights
        <3>2. token \in [Executions -> {Unminted, Spent} \cup 0..Lease]
            BY <1>1 DEF SupInit
        <3>3. due \in [Executions -> 0..Heartbeat] /\ fresh \in [Executions -> 0..Freshness]
            BY <1>1, TimingAssumption DEF SupInit
        <3> QED
            BY <1>1, <3>1, <3>2, <3>3 DEF SupInit, SupTypeOK
    <2>2. beat.at = "wait" /\ sight.at = "idle"
        BY <1>1 DEF SupInit, Idle, Unseeing
    <2>3. \A e \in Executions : token[e] = Unminted /\ entry[e] = "none"
        BY <1>1 DEF SupInit
    <2>4. Minted /\ ScheduledBeforeExpiry
        BY <2>3, TimingAssumption DEF Minted, ScheduledBeforeExpiry, Unminted
    <2> QED
        BY <2>1, <2>2, <2>4 DEF SInv, Sighted, InRenewal, FreshAsRead, ResultHolds
<1> QED
    BY <1>1, StepKeeps, PTL DEF SupSpec

\* A supervisor that may renew never schedules itself past the durable expiry of the
\* lease, whatever the timing that RuntimeTimingConfig admits.
THEOREM NeverScheduledPastExpiry == SupSpec => []ScheduledBeforeExpiry
<1>1. SInv => ScheduledBeforeExpiry
    BY DEF SInv
<1> QED
    BY <1>1, SupervisionInvariant, PTL

\* renew_supervised_execution_guarded extends a lease only on evidence that is fresh at
\* its commit, and only under an authority that is still in force.
THEOREM RenewsOnlyOnFreshEvidence == SupSpec => RenewedOnFreshEvidence
<1>1. ASSUME SInv, [SupNext]_supVars, NEW e \in Executions,
             Renewing, left'[e] > left[e]
      PROVE  fresh[e] > 0 /\ Current(e)
    <2> USE DEF SInv, SupTypeOK
    <2>1. beat.at = "renew" /\ beat'.at = "apply" /\ beat \in Beats
        BY <1>1 DEF Renewing
    <2>2. left' # left
        BY <1>1, TimingAssumption
    <2>3. CASE renew_supervised_execution_guarded
        <3>1. /\ left' = [left EXCEPT ![beat.id] = Lease]
              /\ Current(beat.id) /\ beat.id \in running
              /\ beat.until # 0 \/ beat.unbounded
            BY <2>2, <2>3 DEF renew_supervised_execution_guarded
        <3>2. e = beat.id
            BY <1>1, <3>1, TimingAssumption
        <3>3. ~beat.unbounded /\ entry[beat.id] # "none"
            BY <1>1, <2>1, <3>1 DEF FreshAsRead, InRenewal, Gone
        <3>4. beat.until \in Nat /\ fresh[e] \in Nat
            BY <1>1, TimingAssumption DEF Beats
        <3> QED
            BY <1>1, <2>1, <3>1, <3>2, <3>3, <3>4 DEF FreshAsRead
    \* No other step takes the heartbeat from renew to apply.
    <2>4. CASE Tick \/ refresh_positive
        BY Zenon, <2>1, <2>4 DEF Tick, refresh_positive, Beats
    <2>5. CASE BeatLocked \/ BeatFails \/ Anchor \/ LeaveLoop \/ FailGate
        BY <2>1, <2>5 DEF BeatLocked, renew_due, CheckFreshness, ReadFreshness, ApplyRenewal, clear,
                          BeatFails, Anchor, LeaveLoop, FailGate, Idle
    <2>6. CASE beat' = beat
        BY <2>1, <2>6
    <2>7. CASE \/ request_stop
               \/ \E d \in Executions : Claimed(d) \/ Confirm(d) \/ Close(d) \/ admit(d)
               \/ \E d \in Executions, kind \in Kinds : Answer(d, kind)
               \/ \E activation \in BOOLEAN : ProtocolInvalid(activation) \/ Unresolved(activation)
               \/ RecordPhysicalEnd \/ NackObserved \/ DropObserved
               \/ UNCHANGED supVars
        BY Zenon, <2>6, <2>7 DEF request_stop, Claimed, Confirm, Close, admit, Answer, ProtocolInvalid,
            Unresolved, RecordPhysicalEnd, NackObserved, DropObserved, supVars
    <2> QED
        BY Zenon, <1>1, <2>3, <2>4, <2>5, <2>7 DEF SupNext, BeatUnlocked, ApplySight
<1>2. SInv /\ [SupNext]_supVars =>
        [\A e \in Executions :
            Renewing /\ left'[e] > left[e] => fresh[e] > 0 /\ Current(e)]_supVars
    BY <1>1
<1> QED
    BY <1>2, SupervisionInvariant, PTL DEF SupSpec, RenewedOnFreshEvidence

\* A renewal result never revokes fresh evidence that it did not examine: when the
\* heartbeat stops an execution, its evidence is stale or its authority is lost.
THEOREM FreshEvidenceStays == SupSpec => FreshIsNotRevoked
<1>1. ASSUME SInv, [SupNext]_supVars, NEW e \in Executions,
             beat # beat', entry[e] = "eligible", entry'[e] = "stopped", sight = sight'
      PROVE  fresh[e] = 0 \/ beat.outcome \in {"AuthorityLost", "NotRunning"}
    <2> USE DEF SInv, SupTypeOK
    <2>1. CASE CheckFreshness
        BY Zenon, <1>1, <2>1 DEF CheckFreshness, stop_renewal_eligibility
    <2>2. CASE ApplyRenewal
        <3>1. /\ beat.at = "apply" /\ e = beat.id /\ beat.outcome # "Renewed"
              /\ ~(beat.outcome = "FreshnessExpired" /\ beat.refreshed)
            BY <1>1, <2>2 DEF ApplyRenewal, stop_renewal_eligibility
        <3>2. beat.outcome \in Outcomes
            BY <1>1 DEF Beats
        <3> QED
            BY <1>1, <3>1, <3>2 DEF ResultHolds, Outcomes
    \* No other step of the heartbeat stops an entry, and the observer's move its sight.
    <2>3. CASE Tick \/ renew_due \/ ReadFreshness \/ clear \/ BeatUnlocked \/ BeatFails
        BY <1>1, <2>3 DEF Tick, renew_due, ReadFreshness, clear, BeatUnlocked, BeatFails, Anchor,
            renew_supervised_execution_guarded, LeaveLoop, FailGate, registry
    <2>4. CASE \/ request_stop
               \/ \E d \in Executions : Claimed(d) \/ Confirm(d) \/ Close(d) \/ admit(d)
               \/ \E d \in Executions, kind \in Kinds : Answer(d, kind)
               \/ \E activation \in BOOLEAN : ProtocolInvalid(activation) \/ Unresolved(activation)
               \/ RecordPhysicalEnd \/ NackObserved \/ DropObserved
               \/ UNCHANGED supVars
        BY Zenon, <1>1, <2>4 DEF request_stop, Claimed, Confirm, Close, admit, Answer, ProtocolInvalid,
            Unresolved, RecordPhysicalEnd, NackObserved, DropObserved, supVars
    <2>5. CASE refresh_positive
        BY <1>1, <2>5 DEF refresh_positive
    <2> QED
        BY Zenon, <1>1, <2>1, <2>2, <2>3, <2>4, <2>5 DEF SupNext, BeatLocked, ApplySight
<1>2. SInv /\ [SupNext]_supVars =>
        [\A e \in Executions :
            /\ beat # beat' /\ entry[e] = "eligible" /\ entry'[e] = "stopped"
            /\ sight = sight'
            => \/ fresh[e] = 0
               \/ beat.outcome \in {"AuthorityLost", "NotRunning"}]_supVars
    BY <1>1
<1> QED
    BY <1>2, SupervisionInvariant, PTL DEF SupSpec, FreshIsNotRevoked
=============================================================================
