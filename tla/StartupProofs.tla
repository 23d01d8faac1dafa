---------------------------- MODULE StartupProofs ----------------------------
(***************************************************************************)
(* The startup of Recovery keeps NInv: the one thing that a startup        *)
(* refuses is a success with a failure class and no Result, and durable    *)
(* evidence of success decides its task.                                   *)
(***************************************************************************)
EXTENDS RecoveryProofs

----------------------------------------------------------------------------
(* The passes of a startup *)

\* What was read of an execution still holds (an attempt may have closed meanwhile).
AsRead(id) ==
    /\ todo[id].state = executions[id].state
    /\ todo[id].terminal = executions[id].terminal
    /\ todo[id].quiescent = executions[id].quiescent
    /\ todo[id].classed = executions[id].classed
    /\ attempts[id].state = "ACTIVE" => todo[id].current

\* The places of the second pass, and those after it.
Reconciling == {"reconcile"} \cup InHand
Later == {"sweep", "promote", "pool", "list", "revive", "assert", "activate", "validate"}
Recorded == {"nack", "nack ended"}

\* The first pass: an authority whose proven end has no consequence is still to come.
Replaying ==
    /\ \A id \in DOMAIN todo : HasExecution(id) /\ AsRead(id)
    /\ \A id \in AttemptIds :
          leases[id] = "ACTIVE" /\ Settled(executions[id]) => id \in DOMAIN todo

NothingSettled == \A id \in AttemptIds : ~(leases[id] = "ACTIVE" /\ Settled(executions[id]))

\* The candidate in hand.
Held ==
    /\ hand \in DOMAIN todo
    /\ executions[hand].state # "SUCCEEDED"
    /\ boot \in {"confirm", "history"} => executions[hand].state \in LiveExecution
    /\ boot = "history" => leases[hand] # "ACTIVE"
    /\ boot = "ended" => physical[hand] = "ended"

\* The second pass: an authority with an execution is still to come or supervised.
Candidates ==
    \A id \in DOMAIN todo :
        /\ HasExecution(id) /\ id \notin watched
        /\ AsRead(id) \/ (boot \in Recorded /\ id = hand)
        /\ Settled(todo[id]) => leases[id] # "ACTIVE"

Accountable == \A id \in AttemptIds : LooksCurrent(id) => id \in DOMAIN todo \/ id \in watched

Supervised == \A id \in AttemptIds : LooksCurrent(id) => id \in watched

Pass ==
    /\ boot \in {"down", "read", "replay", "read again"} => watched = {}
    /\ boot = "replay" => Replaying
    /\ boot = "read again" => NothingSettled
    /\ boot \in Reconciling => Candidates /\ Accountable
    /\ boot \in InHand => Held
    /\ boot \in Later => Supervised
    /\ boot = "revive" => \A g \in listed : agents[g].state = "REVIVING"
    /\ boot = "activate" => /\ DOMAIN todo \subseteq watched
                            /\ ticket.step # "idle" => ticket.id \notin DOMAIN todo
    /\ boot \notin {"activate", "up"} => ticket = NoTicket

LEMMA PlacesApart ==
    /\ \A p \in Reconciling : /\ p \notin Later /\ p \notin {"down", "read", "replay", "read again"}
                              /\ p \notin {"activate", "up"} /\ p # "revive"
    /\ \A p \in Later : /\ p \notin Reconciling /\ p \notin InHand /\ p # "up"
                        /\ p \notin {"down", "read", "replay", "read again"}
    /\ \A p \in {"down", "read", "replay", "read again", "up"} :
          p \notin Reconciling /\ p \notin InHand /\ p \notin Later /\ p # "activate" /\ p # "revive"
    /\ InHand \subseteq Reconciling /\ "reconcile" \in Reconciling /\ "reconcile" \notin InHand
    /\ Recorded \subseteq InHand
BY Zenon DEF Reconciling, Later, InHand, Recorded

LEMMA PassResting ==
    ASSUME boot' \in {"down", "read"}, watched' = {}, ticket' = NoTicket
    PROVE  Pass'
<1> USE Zenon
<1>1. /\ boot' \in {"down", "read", "replay", "read again", "up"}
      /\ boot' # "replay" /\ boot' # "read again"
    OBVIOUS
<1> QED
    BY <1>1, PlacesApart DEF Pass

LEMMA PassUp == ASSUME boot' = "up" PROVE Pass'
<1> USE Zenon
<1>1. /\ boot' \in {"down", "read", "replay", "read again", "up"} /\ boot' \in {"activate", "up"}
      /\ boot' \notin {"down", "read", "replay", "read again"}
    OBVIOUS
<1> QED
    BY <1>1, PlacesApart DEF Pass

LEMMA PassReconciling ==
    ASSUME boot' \in Reconciling, Candidates', Accountable', boot' \in InHand => Held',
           ticket' = NoTicket
    PROVE  Pass'
BY Zenon, PlacesApart DEF Pass

LEMMA PassLater ==
    ASSUME boot' \in Later, boot' \notin {"revive", "activate"}, Supervised', ticket' = NoTicket
    PROVE  Pass'
BY Zenon, PlacesApart DEF Pass

\* The startup leaves the observer's state alone.
LEMMA SupervisingKeeps ==
    ASSUME RInv, Onwards, Rows, Watch, NEW X, Careful(X), \A id \in X : id \notin watched,
           UNCHANGED watchVars
    PROVE  Rows' /\ Watch'
<1> USE Zenon
<1>1. watched' = watched /\ ticket' = ticket
    BY DEF watchVars
<1>2. ticket.step # "idle" => ticket.id \in watched'
    BY <1>1 DEF Watch
<1>3. Watch'
    BY <1>1, <1>2, WatchKept
<1> QED
    BY <1>3, RowsKept

\* Leases run out and processes start, run and end while the daemon is down or starting.
LEMMA WorldKeepsPass ==
    ASSUME RInv, Onwards, Pass, World
    PROVE  Pass'
<1> USE Zenon
<1>1. /\ executions' = executions /\ attempts' = attempts /\ agents' = agents
      /\ boot' = boot /\ todo' = todo /\ hand' = hand /\ listed' = listed
      /\ watched' = watched /\ ticket' = ticket
    BY DEF World, Processes, PhysicalStep, LeaseElapses, BackoffElapses, bootVars, loopVars,
                 watchVars, vars
<1>2. \A id \in AttemptIds : leases'[id] = "ACTIVE" => leases[id] = "ACTIVE"
    <2>1. ASSUME NEW i \in AttemptIds, LeaseElapses(i)
          PROVE  \A id \in AttemptIds : leases'[id] = "ACTIVE" => leases[id] = "ACTIVE"
        BY <2>1 DEF LeaseElapses, RInv, LInv, IInv, TypeOK
    <2>2. ASSUME leases' = leases
          PROVE  \A id \in AttemptIds : leases'[id] = "ACTIVE" => leases[id] = "ACTIVE"
        BY <2>2
    <2> QED
        BY <2>1, <2>2 DEF World, Processes, PhysicalStep, BackoffElapses, vars
<1>3. boot \in InHand => hand \in AttemptIds /\ DOMAIN todo \subseteq AttemptIds
    BY DEF RInv, BootReceipts
<1>4. DOMAIN todo \subseteq AttemptIds
    BY DEF RInv, BootReceipts
<1>5. \A id \in AttemptIds : LooksCurrent(id)' => LooksCurrent(id)
    BY <1>1, <1>2 DEF LooksCurrent, HasExecution
<1>6. boot = "replay" => Replaying'
    BY <1>1, <1>2 DEF Pass, Replaying, AsRead, HasExecution
<1>7. boot = "read again" => NothingSettled'
    BY <1>1, <1>2 DEF Pass, NothingSettled
<1>8. boot \in Reconciling => Candidates'
    BY <1>1, <1>2, <1>4 DEF Pass, Candidates, AsRead, HasExecution
<1>9. boot \in Reconciling => Accountable'
    BY <1>1, <1>5 DEF Pass, Accountable
<1>10. boot \in InHand => Held'
    BY <1>1, <1>2, <1>3 DEF Pass, Held, Onwards
<1>11. boot \in Later => Supervised'
    BY <1>1, <1>5 DEF Pass, Supervised
<1> QED
    BY <1>1, <1>6, <1>7, <1>8, <1>9, <1>10, <1>11 DEF Pass

Well == Rows /\ Watch /\ Pass /\ failed \notin Trouble

\* The last startup was refused for a row that is still there.
Refusal ==
    refused # "no" => /\ boot = "down" /\ refused = "contradiction"
                      /\ \E id \in AttemptIds : Contradictory(id)

\* The death of the process.
LEMMA DeathIsWell ==
    ASSUME RInv, Onwards, Well, NEW reason, Dead(reason), \E X : Careful(X)
    PROVE  Well' /\ Dispatched'
<1> USE Zenon
<1>1. /\ watched' = {} /\ ticket' = NoTicket /\ failed' = "no" /\ boot' = "down"
      /\ pc' = "expire"
    BY DEF Dead
<1>2. Rows'
    BY RowsKept DEF Well
<1>3. Watch'
    BY <1>1 DEF Watch, NoTicket
<1>4. Pass'
    BY <1>1, PassResting
<1>5. "no" \notin Trouble /\ "expire" \notin Dispatching
    BY DEF Trouble, Dispatching
<1> QED
    BY <1>1, <1>2, <1>3, <1>4, <1>5 DEF Well, Dispatched

\* The barrier, the reads and the ends of the passes.
LEMMA PassesStayWell ==
    ASSUME RInv, Onwards, Well, Barrier \/ ReadCandidates \/ PassEnds
    PROVE  Well'
<1> USE Zenon
<1>0. UNCHANGED watchVars /\ failed' = failed
    BY DEF Barrier, ReadCandidates, PassEnds, Then, Supervising
<1>1. watched' = watched /\ ticket' = ticket
    BY <1>0 DEF watchVars
<1>2. Careful({})
    BY ExpireCareful, IdleCareful DEF Barrier, ReadCandidates, PassEnds
<1>3. Rows' /\ Watch'
    BY <1>0, <1>2, SupervisingKeeps DEF Well
<1>4. SUFFICES Pass'
    BY <1>0, <1>3 DEF Well
<1>5. CASE Barrier
    <2>1. boot = "down" /\ boot' = "read"
        BY <1>5 DEF Barrier
    <2>2. /\ boot \in {"down", "read", "replay", "read again"} /\ boot \notin {"activate", "up"}
          /\ boot' \in {"down", "read"}
        BY <2>1
    <2>3. watched = {} /\ ticket = NoTicket
        BY <2>2 DEF Well, Pass
    <2> QED
        BY <1>1, <2>2, <2>3, PassResting
<1>6. CASE ReadCandidates
    <2>1. /\ todo' = reconciliation_candidates /\ executions' = executions /\ leases' = leases
          /\ attempts' = attempts /\ boot \in {"read", "read again"}
          /\ boot' = IF boot = "read" THEN "replay" ELSE "reconcile"
        BY <1>6 DEF ReadCandidates, vars
    <2>2. watched = {} /\ ticket = NoTicket
        <3>1. boot \in {"down", "read", "replay", "read again"} /\ boot \notin {"activate", "up"}
            BY <2>1
        <3> QED
            BY <3>1 DEF Well, Pass
    <2>3. /\ \A id : id \in DOMAIN todo' <=> id \in AttemptIds /\ HasExecution(id)
          /\ \A id \in DOMAIN todo' : todo'[id] = Snapshot(id)
        BY <2>1 DEF reconciliation_candidates
    <2>4. \A id : /\ Snapshot(id).state = executions[id].state
                  /\ Snapshot(id).terminal = executions[id].terminal
                  /\ Snapshot(id).quiescent = executions[id].quiescent
                  /\ Snapshot(id).classed = executions[id].classed
                  /\ Snapshot(id).current = (attempts[id].state = "ACTIVE")
        BY DEF Snapshot
    <2>5. \A id \in DOMAIN todo' : HasExecution(id)' /\ AsRead(id)'
        BY <2>1, <2>3, <2>4 DEF AsRead, HasExecution
    <2>6. ASSUME NEW id \in AttemptIds, Settled(executions[id]) PROVE HasExecution(id)
        BY <2>6 DEF Settled, HasExecution
    <2>7. CASE boot = "read"
        <3>1. boot' = "replay"
            BY <2>1, <2>7
        <3>2. boot' \in {"down", "read", "replay", "read again", "up"} /\ boot' # "read again"
            BY <3>1
        <3>3. Replaying'
            BY <2>1, <2>3, <2>5, <2>6 DEF Replaying
        <3> QED
            BY <1>1, <2>2, <3>1, <3>2, <3>3, PlacesApart DEF Pass
    <2>8. CASE boot = "read again"
        <3>1. boot' = "reconcile"
            BY <2>1, <2>8
        <3>2. NothingSettled
            BY <2>8 DEF Well, Pass
        <3>3. ASSUME NEW id \in DOMAIN todo', Settled(todo'[id]) PROVE leases'[id] # "ACTIVE"
            BY <2>1, <2>3, <2>4, <3>2, <3>3 DEF NothingSettled, Settled
        <3>4. Candidates'
            BY <1>1, <2>2, <2>5, <3>3 DEF Candidates
        <3>5. Accountable'
            BY <2>1, <2>3 DEF Accountable, LooksCurrent, HasExecution
        <3> QED
            BY <1>1, <2>2, <3>1, <3>4, <3>5, PlacesApart, PassReconciling
    <2> QED
        BY <2>1, <2>7, <2>8
<1>7. CASE PassEnds
    <2>1. /\ executions' = executions /\ leases' = leases /\ DOMAIN todo = {}
          /\ boot' = IF boot = "replay" THEN "read again" ELSE "sweep"
          /\ boot \in {"replay", "reconcile"}
        BY <1>7 DEF PassEnds, Then, vars
    <2>2. CASE boot = "replay"
        <3>1. boot' = "read again"
            BY <2>1, <2>2
        <3>2. boot' \in {"down", "read", "replay", "read again", "up"} /\ boot' # "replay"
              /\ boot \in {"down", "read", "replay", "read again"} /\ boot \notin {"activate", "up"}
            BY <2>2, <3>1
        <3>3. NothingSettled'
            BY <2>1, <2>2 DEF Well, Pass, Replaying, NothingSettled
        <3>4. watched' = {} /\ ticket' = NoTicket
            BY <1>1, <3>2 DEF Well, Pass
        <3> QED
            BY <3>1, <3>2, <3>3, <3>4, PlacesApart DEF Pass
    <2>3. CASE boot = "reconcile"
        <3>1. boot' = "sweep" /\ boot' \in Later /\ boot' \notin {"revive", "activate"}
            BY <2>1, <2>3 DEF Later
        <3>2. boot \in Reconciling /\ boot \notin {"activate", "up"}
            BY <2>3 DEF Reconciling
        <3>3. Accountable /\ ticket' = NoTicket
            BY <1>1, <3>2 DEF Well, Pass
        <3>4. Supervised'
            BY <1>1, <2>1, <3>3 DEF Supervised, Accountable, LooksCurrent, HasExecution
        <3> QED
            BY <3>1, <3>3, <3>4, PassLater
    <2> QED
        BY <2>1, <2>2, <2>3
<1> QED
    BY <1>5, <1>6, <1>7

\* A step that closes one attempt leaves the rows and the attempts of the others.
OthersSame(id) == \A i \in AttemptIds \ {id} : executions'[i] = executions[i] /\ attempts'[i] = attempts[i]

LEMMA ClosesOne ==
    ASSUME NEW id \in AttemptIds, NEW a, NEW l, NEW t, NEW presence, NEW cause,
           CloseAttempts(CloseOne(id, a, l, t, presence, cause), escalations)
    PROVE  \A i \in AttemptIds \ {id} : attempts'[i] = attempts[i]
<1> USE Zenon
<1> DEFINE out == CloseOne(id, a, l, t, presence, cause)
<1>1. DOMAIN out = {id}
    BY DEF CloseOne
<1>2. CloseAttempts(out, escalations)
    OBVIOUS
<1> HIDE DEF out
<1>3. attempts' = [i \in AttemptIds |-> IF i \in DOMAIN out
                                        THEN [attempts[i] EXCEPT !.state = out[i].attempt]
                                        ELSE attempts[i]]
    BY <1>2 DEF CloseAttempts
<1> QED
    BY <1>1, <1>3

LEMMA NackClosesOne ==
    ASSUME RInv, NEW id \in AttemptIds, NEW c, NEW terminal, NEW q, NEW reusable,
           nack(id, c, terminal, q, reusable)
    PROVE  OthersSame(id)
<1> USE Zenon
<1>1. \A i \in AttemptIds \ {id} : executions'[i] = executions[i]
    <2>1. PICK row : executions' = executions \/ executions' = [executions EXCEPT ![id] = row]
        BY ZenonT(60) DEF nack
    <2> QED
        BY <2>1 DEF RInv, LInv, IInv, TypeOK
<1>2. PICK durable, presence : FailureConsequence(id, Failed(id, c, durable, presence))
    BY DEF nack
<1>3. PICK l, t, cause : Failed(id, c, durable, presence) = CloseOne(id, "FAILED", l, t, presence, cause)
    BY DEF Failed
<1>4. CloseAttempts(CloseOne(id, "FAILED", l, t, presence, cause), escalations)
    BY <1>2, <1>3 DEF FailureConsequence
<1> QED
    BY <1>1, <1>4, ClosesOne DEF OthersSame

LEMMA AckClosesOne ==
    ASSUME RInv, NEW id \in AttemptIds, NEW q, NEW reusable, ack_success(id, q, reusable)
    PROVE  OthersSame(id)
<1> USE Zenon
<1>1. \A i \in AttemptIds \ {id} : executions'[i] = executions[i]
    <2>1. PICK row : executions' = executions \/ executions' = [executions EXCEPT ![id] = row]
        BY ZenonT(60) DEF ack_success
    <2> QED
        BY <2>1 DEF RInv, LInv, IInv, TypeOK
<1>2. PICK a, l, t, presence, cause :
         CloseAttempts(CloseOne(id, a, l, t, presence, cause), escalations)
    BY ZenonT(60) DEF ack_success
<1> QED
    BY <1>1, <1>2, ClosesOne DEF OthersSame

\* Done with a candidate.
LEMMA DoneRest ==
    ASSUME NEW id, NEW place, Done(id, place)
    PROVE  /\ boot' = place /\ refused' = refused
           /\ \A i : i \in DOMAIN todo' <=> i \in DOMAIN todo /\ i # id
           /\ \A i \in DOMAIN todo' : todo'[i] = todo[i]
BY Zenon DEF Done

\* The first pass: evidence of an end that is durable has its consequence.
LEMMA ReplayStaysWell ==
    ASSUME RInv, Reported, Onwards, Well, NEW id \in AttemptIds,
           replay_persisted_terminal_consequence(id)
    PROVE  Well' /\ (refused' = refused \/ Refusal')
<1> USE Zenon
<1>0. boot = "replay" /\ id \in DOMAIN todo
    BY DEF replay_persisted_terminal_consequence
<1>1. /\ Replaying /\ watched = {} /\ ticket = NoTicket
    <2>1. boot \in {"down", "read", "replay", "read again"} /\ boot \notin {"activate", "up"}
        BY <1>0
    <2> QED
        BY <1>0, <2>1 DEF Well, Pass
<1>2. HasExecution(id) /\ AsRead(id) /\ Sound(id)
    BY <1>0, <1>1 DEF Replaying, Well, Rows
<1>3. ~(Owed(id) /\ ~todo[id].terminal)
    BY <1>2 DEF Owed, AsRead, Sound, EndedExecution
<1>a. CASE Owed(id) /\ Contradicts(id)
    <2>1. Dead("contradiction") /\ UNCHANGED vars
        BY <1>3, <1>a DEF replay_persisted_terminal_consequence, Refuse
    <2>2. Well'
        BY <2>1, IdleCareful, DeathIsWell
    <2>3. Contradictory(id)
        BY <1>2, <1>a DEF Owed, Contradicts, AsRead, Contradictory
    <2>4. executions' = executions /\ results' = results
        BY <2>1 DEF vars
    <2>5. Contradictory(id)'
        BY <2>3, <2>4 DEF Contradictory
    <2> QED
        BY <2>1, <2>2, <2>5 DEF Dead, Refusal
<1>b. SUFFICES ASSUME ~(Owed(id) /\ Contradicts(id)) PROVE Well' /\ refused' = refused
    BY <1>a
<1>4. leases[id] = "ACTIVE" /\ Settled(executions[id]) => Owed(id) /\ validate_authority(id)
    <2>1. SUFFICES ASSUME leases[id] = "ACTIVE", Settled(executions[id])
                   PROVE  Owed(id) /\ validate_authority(id)
        OBVIOUS
    <2>2. id[1] \in Tasks
        BY DEF AttemptIds
    <2>3. tasks[id[1]].state \in {"LEASED", "RUNNING"}
        BY <2>1 DEF RInv, LInv, IInv, Agreement
    <2>4. results[id[1]] = "NONE"
        BY <2>2, <2>3 DEF Reported
    <2>5. /\ todo[id].state \in EndedExecution
          /\ ~(todo[id].state = "TERMINATED" /\ ~todo[id].terminal)
        BY <1>2, <2>1 DEF AsRead, Settled, EndedExecution
    <2> QED
        BY <2>1, <2>4, <2>5, LeaseIsAuthority DEF Owed
<1>5. ReplayApplies(id)
    BY <1>2 DEF ReplayApplies, AsRead
<1>6. Done(id, "replay") /\ Supervising
    BY <1>3, <1>5, <1>b DEF replay_persisted_terminal_consequence
<1>7. /\ Careful({})
      /\ OthersSame(id)
      /\ leases'[id] = "ACTIVE" => executions'[id] = executions[id] /\ ~Settled(executions[id])
    <2>1. CASE ~Owed(id) \/ ~validate_authority(id)
        <3>1. UNCHANGED vars
            BY <1>3, <1>b, <2>1 DEF replay_persisted_terminal_consequence
        <3>2. Careful({})
            BY <3>1, IdleCareful
        <3>3. executions' = executions /\ attempts' = attempts /\ leases' = leases
            BY <3>1 DEF vars
        <3> QED
            BY <1>4, <2>1, <3>2, <3>3 DEF OthersSame
    <2>2. CASE ~(~Owed(id) \/ ~validate_authority(id))
        <3>1. replay_success_consequence(id) \/ replay_failure_consequence(id)
            BY <1>3, <1>5, <1>b, <2>2 DEF replay_persisted_terminal_consequence
        <3>2. CASE replay_success_consequence(id)
            <4>1. PICK q, reusable : ack_success(id, q, reusable)
                BY <3>2 DEF replay_success_consequence
            <4> QED
                BY <4>1, AckCareful, AckClosesOne
        <3>3. CASE replay_failure_consequence(id)
            <4>1. PICK c, q, reusable : TRUE \in BOOLEAN /\ nack(id, c, TRUE, q, reusable)
                BY <3>3 DEF replay_failure_consequence
            <4> QED
                BY <4>1, NackCareful, NackClosesOne
        <3> QED
            BY <3>1, <3>2, <3>3
    <2> QED
        BY <2>1, <2>2
<1>8. UNCHANGED watchVars /\ failed' = failed /\ watched' = watched /\ ticket' = ticket
    BY <1>6 DEF Supervising, watchVars
<1>9. Rows' /\ Watch'
    BY <1>7, <1>8, SupervisingKeeps DEF Well
<1>10. /\ boot' = "replay" /\ refused' = refused
       /\ \A i : i \in DOMAIN todo' <=> i \in DOMAIN todo /\ i # id
       /\ \A i \in DOMAIN todo' : todo'[i] = todo[i]
    BY <1>6, DoneRest
<1>11. Replaying'
    <2>1. ASSUME NEW i \in DOMAIN todo' PROVE HasExecution(i)' /\ AsRead(i)'
        <3>1. i \in AttemptIds /\ i \in DOMAIN todo /\ i # id
            BY <1>10 DEF RInv, BootReceipts
        <3>2. /\ executions'[i] = executions[i] /\ attempts'[i] = attempts[i]
            BY <1>7, <3>1 DEF OthersSame
        <3> QED
            BY <1>1, <1>10, <3>1, <3>2 DEF Replaying, AsRead, HasExecution
    <2>2. ASSUME NEW i \in AttemptIds, leases'[i] = "ACTIVE", Settled(executions'[i])
          PROVE  i \in DOMAIN todo'
        <3>1. leases[i] = "ACTIVE" /\ executions'[i] = executions[i]
            BY <1>7, <2>2 DEF Careful, Undisturbed
        <3>2. i # id
            BY <1>7, <2>2, <3>1
        <3> QED
            BY <1>1, <1>10, <2>2, <3>1, <3>2 DEF Replaying
    <2> QED
        BY <2>1, <2>2 DEF Replaying
<1>12. boot' \in {"down", "read", "replay", "read again", "up"} /\ boot' # "read again"
    BY <1>10
<1>13. Pass'
    BY <1>1, <1>8, <1>10, <1>11, <1>12, PlacesApart DEF Pass
<1> QED
    BY <1>8, <1>9, <1>10, <1>13 DEF Well

\* The second pass is done with a candidate.
LEMMA CandidateDone ==
    ASSUME RInv, Pass, boot \in Reconciling, NEW id, Done(id, "reconcile"),
           boot \in Recorded => hand = id, Careful({id}), OthersSame(id),
           watched \subseteq watched', watched' \subseteq watched \cup {id},
           LooksCurrent(id)' => id \in watched', ticket' = ticket
    PROVE  Pass'
<1> USE Zenon
<1>1. /\ boot' = "reconcile"
      /\ \A i : i \in DOMAIN todo' <=> i \in DOMAIN todo /\ i # id
      /\ \A i \in DOMAIN todo' : todo'[i] = todo[i]
    BY DoneRest
<1>2. Candidates /\ Accountable /\ ticket = NoTicket /\ DOMAIN todo \subseteq AttemptIds
    BY PlacesApart DEF Pass, RInv, BootReceipts
<1>3. ASSUME NEW i \in AttemptIds, i # id
      PROVE  /\ leases'[i] = "ACTIVE" => leases[i] = "ACTIVE"
             /\ executions'[i] = executions[i] /\ attempts'[i] = attempts[i]
    BY <1>3 DEF Careful, Undisturbed, OthersSame
<1>4. ASSUME NEW i \in DOMAIN todo'
      PROVE  /\ HasExecution(i)' /\ i \notin watched' /\ AsRead(i)'
             /\ Settled(todo'[i]) => leases'[i] # "ACTIVE"
    <2>1. i \in AttemptIds /\ i \in DOMAIN todo /\ i # id /\ todo'[i] = todo[i]
        BY <1>1, <1>2
    <2>2. /\ HasExecution(i) /\ i \notin watched /\ AsRead(i)
          /\ Settled(todo[i]) => leases[i] # "ACTIVE"
        BY <1>2, <2>1 DEF Candidates
    <2> QED
        BY <1>3, <2>1, <2>2 DEF HasExecution, AsRead
<1>5. Candidates'
    BY <1>4 DEF Candidates
<1>6. Accountable'
    <2>1. ASSUME NEW i \in AttemptIds, LooksCurrent(i)' PROVE i \in DOMAIN todo' \/ i \in watched'
        <3>1. CASE i = id
            BY <2>1, <3>1
        <3>2. CASE i # id
            BY <1>1, <1>2, <1>3, <2>1, <3>2 DEF LooksCurrent, HasExecution, Accountable
        <3> QED
            BY <3>1, <3>2
    <2> QED
        BY <2>1 DEF Accountable
<1> QED
    BY <1>1, <1>2, <1>5, <1>6, PlacesApart, PassReconciling

\* The second pass goes on with the candidate in hand.
LEMMA CandidateHeld ==
    ASSUME RInv, Pass, boot \in Reconciling, boot' \in InHand, NEW id \in DOMAIN todo, hand' = id,
           todo' = todo, boot \in Recorded => hand = id, Careful({id}), OthersSame(id),
           HasExecution(id)', leases'[id] = "ACTIVE" => leases[id] = "ACTIVE",
           AsRead(id)' \/ boot' \in Recorded, watched' = watched, ticket' = ticket, Held'
    PROVE  Pass'
<1> USE Zenon
<1>2. Candidates /\ Accountable /\ ticket = NoTicket /\ DOMAIN todo \subseteq AttemptIds
    BY PlacesApart DEF Pass, RInv, BootReceipts
<1>3. ASSUME NEW i \in AttemptIds, i # id
      PROVE  /\ leases'[i] = "ACTIVE" => leases[i] = "ACTIVE"
             /\ executions'[i] = executions[i] /\ attempts'[i] = attempts[i]
    BY <1>3 DEF Careful, Undisturbed, OthersSame
<1>4. ASSUME NEW i \in DOMAIN todo
      PROVE  /\ HasExecution(i)' /\ i \notin watched'
             /\ AsRead(i)' \/ (boot' \in Recorded /\ i = id)
             /\ Settled(todo[i]) => leases'[i] # "ACTIVE"
    <2>1. /\ i \in AttemptIds /\ HasExecution(i) /\ i \notin watched
          /\ AsRead(i) \/ (boot \in Recorded /\ i = hand)
          /\ Settled(todo[i]) => leases[i] # "ACTIVE"
        BY <1>2 DEF Candidates
    <2>2. CASE i = id
        BY <2>1, <2>2
    <2>3. CASE i # id
        BY <1>3, <2>1, <2>3 DEF HasExecution, AsRead
    <2> QED
        BY <2>2, <2>3
<1>5. Candidates'
    BY <1>4 DEF Candidates
<1>6. Accountable'
    <2>1. ASSUME NEW i \in AttemptIds, LooksCurrent(i)' PROVE i \in DOMAIN todo' \/ i \in watched'
        <3>1. CASE i = id
            BY <3>1
        <3>2. CASE i # id
            BY <1>2, <1>3, <2>1, <3>2 DEF LooksCurrent, HasExecution, Accountable
        <3> QED
            BY <3>1, <3>2
    <2> QED
        BY <2>1 DEF Accountable
<1> QED
    BY <1>2, <1>5, <1>6, PlacesApart, PassReconciling

\* reconcile_one_execution.
LEMMA ReconcileStaysWell ==
    ASSUME RInv, Onwards, Well, NEW id \in AttemptIds, reconcile_one_execution(id)
    PROVE  Well' /\ refused' = refused
<1> USE Zenon
<1>0. boot = "reconcile" /\ id \in DOMAIN todo
    BY DEF reconcile_one_execution
<1>1. boot \in Reconciling /\ boot \notin Recorded
    BY <1>0 DEF Reconciling, Recorded
<1>2. /\ HasExecution(id) /\ AsRead(id) /\ Sound(id)
      /\ Settled(todo[id]) => leases[id] # "ACTIVE"
    BY <1>0, <1>1 DEF Well, Pass, Candidates, Rows
<1>3. /\ UNCHANGED vars /\ Supervising /\ refused' = refused
    BY DEF reconcile_one_execution, close_lost, reconcile_active_physical, Take, Done
<1>4. /\ executions' = executions /\ leases' = leases /\ attempts' = attempts /\ physical' = physical
      /\ UNCHANGED watchVars /\ watched' = watched /\ ticket' = ticket /\ failed' = failed
    BY <1>3 DEF vars, Supervising, watchVars
<1>5. Careful({}) /\ Careful({id}) /\ OthersSame(id)
    BY <1>3, <1>4, IdleCareful DEF OthersSame
<1>6. Rows' /\ Watch'
    BY <1>4, <1>5, SupervisingKeeps DEF Well
<1>7. ASSUME Done(id, "reconcile"), leases[id] # "ACTIVE" PROVE Pass'
    <2>1. ~LooksCurrent(id)'
        BY <1>4, <1>7 DEF LooksCurrent
    <2> QED
        BY <1>1, <1>4, <1>5, <1>7, <2>1, CandidateDone DEF Well
<1>8. ASSUME NEW place \in InHand, Take(id, place), executions[id].state # "SUCCEEDED",
             place \in {"confirm", "history"} => executions[id].state \in LiveExecution,
             place # "history", place = "ended" => physical[id] = "ended"
      PROVE  Pass'
    <2>1. boot' = place /\ hand' = id /\ todo' = todo
        BY <1>8 DEF Take
    <2>2. Held'
        BY <1>0, <1>4, <1>8, <2>1 DEF Held
    <2>3. HasExecution(id)' /\ AsRead(id)'
        BY <1>2, <1>4, <2>1 DEF HasExecution, AsRead
    <2> QED
        BY <1>0, <1>1, <1>4, <1>5, <1>8, <2>1, <2>2, <2>3, CandidateHeld DEF Well
<1>9. Pass'
    <2>1. CASE Settled(todo[id])
        BY <1>2, <1>7, <2>1 DEF reconcile_one_execution
    <2>2. CASE ~Settled(todo[id]) /\ todo[id].state = "LOST"
        <3>1. close_lost(id) /\ executions[id].state = "LOST"
            BY <1>2, <2>2 DEF reconcile_one_execution, AsRead
        <3>2. CASE todo[id].current
            <4>1. Take(id, "nack")
                BY <3>1, <3>2 DEF close_lost
            <4>2. /\ "nack" \in InHand /\ "nack" \notin {"confirm", "history"} /\ "LOST" # "SUCCEEDED"
                  /\ "nack" # "ended" /\ "nack" # "history"
                BY DEF InHand
            <4> QED
                BY <1>8, <3>1, <4>1, <4>2
        <3>3. CASE ~todo[id].current
            <4>1. leases[id] # "ACTIVE"
                BY <1>2, <3>3 DEF AsRead, RInv, LInv, IInv, Agreement, Active
            <4> QED
                BY <1>7, <3>1, <3>3, <4>1 DEF close_lost
        <3> QED
            BY <3>2, <3>3
    <2>3. CASE ~Settled(todo[id]) /\ todo[id].state # "LOST"
        <3>1. reconcile_active_physical(id)
            BY <2>3 DEF reconcile_one_execution
        <3>2. /\ executions[id].state # "SUCCEEDED"
              /\ executions[id].state = "TERMINATED" \/ executions[id].state \in LiveExecution
            <4>1. executions[id].state \in ExecutionState \cup {"NONE"}
                BY DEF RInv, LInv, IInv, TypeOK, ExecutionRow
            <4> QED
                BY <1>2, <2>3, <4>1 DEF AsRead, HasExecution, Settled, ExecutionState, LiveExecution
        <3>3. CASE physical[id] = "running" /\ Take(id, "confirm")
            <4>1. executions[id].state \in LiveExecution
                BY <1>2, <3>2, <3>3 DEF Sound
            <4>2. "confirm" \in InHand /\ "confirm" # "history" /\ "confirm" # "ended"
                BY DEF InHand
            <4> QED
                BY <1>8, <3>2, <3>3, <4>1, <4>2
        <3>4. CASE physical[id] = "ended" /\ Take(id, "ended")
            <4>1. "ended" \in InHand /\ "ended" \notin {"confirm", "history"} /\ "ended" # "history"
                BY DEF InHand
            <4> QED
                BY <1>8, <3>2, <3>4, <4>1
        <3>5. CASE Take(id, "unresolved")
            <4>1. /\ "unresolved" \in InHand /\ "unresolved" \notin {"confirm", "history"}
                  /\ "unresolved" # "history" /\ "unresolved" # "ended"
                BY DEF InHand
            <4> QED
                BY <1>8, <3>2, <3>5, <4>1
        <3> QED
            BY <3>1, <3>3, <3>4, <3>5 DEF reconcile_active_physical
    <2> QED
        BY <2>1, <2>2, <2>3
<1> QED
    BY <1>3, <1>4, <1>6, <1>9 DEF Well

\* What is known of the candidate in hand.
LEMMA HandKnown ==
    ASSUME RInv, Well, boot \in InHand
    PROVE  /\ hand \in AttemptIds /\ hand \in DOMAIN todo /\ HasExecution(hand)
           /\ hand \notin watched /\ Held /\ boot \in Reconciling
           /\ boot \notin Recorded => AsRead(hand)
           /\ executions[hand].state \in ExecutionState \cup {"NONE"}
<1> USE Zenon
<1>1. hand \in DOMAIN todo /\ hand \in AttemptIds /\ Held /\ boot \in Reconciling
    BY PlacesApart DEF Well, Pass, Held, RInv, BootReceipts
<1>2. HasExecution(hand) /\ hand \notin watched /\ (boot \notin Recorded => AsRead(hand))
    BY <1>1 DEF Well, Pass, Candidates
<1>3. executions[hand].state \in ExecutionState \cup {"NONE"}
    BY <1>1 DEF RInv, LInv, IInv, TypeOK, ExecutionRow
<1> QED
    BY <1>1, <1>2, <1>3

\* Nothing is written of the candidate in hand, and the startup goes on with it.
LEMMA HandPassedOn ==
    ASSUME RInv, Onwards, Well, boot \in InHand \ Recorded, NEW place \in InHand, Then(place),
           UNCHANGED vars, Supervising,
           place \in {"confirm", "history"} => executions[hand].state \in LiveExecution,
           place = "history" => leases[hand] # "ACTIVE",
           place # "ended"
    PROVE  Well' /\ refused' = refused
<1> USE Zenon
<1>1. PICK id : id = hand
    OBVIOUS
<1>2. /\ id \in AttemptIds /\ id \in DOMAIN todo /\ HasExecution(id) /\ AsRead(id)
      /\ Held /\ boot \in Reconciling
    BY <1>1, HandKnown
<1>3. /\ boot' = place /\ hand' = id /\ todo' = todo /\ refused' = refused
      /\ executions' = executions /\ leases' = leases /\ attempts' = attempts
      /\ UNCHANGED watchVars /\ watched' = watched /\ ticket' = ticket /\ failed' = failed
    BY <1>1 DEF Then, vars, Supervising, watchVars
<1>4. Careful({}) /\ Careful({id}) /\ OthersSame(id)
    BY <1>3, IdleCareful DEF OthersSame
<1>5. Rows' /\ Watch'
    BY <1>3, <1>4, SupervisingKeeps DEF Well
<1>6. Held'
    BY <1>1, <1>2, <1>3 DEF Held
<1>7. HasExecution(id)' /\ AsRead(id)'
    BY <1>2, <1>3 DEF HasExecution, AsRead
<1>8. Pass'
    BY <1>1, <1>2, <1>3, <1>4, <1>6, <1>7, CandidateHeld DEF Well
<1> QED
    BY <1>3, <1>5, <1>8 DEF Well

\* What is written of the candidate in hand.
LEMMA HandRecorded ==
    ASSUME RInv, Onwards, Well, boot \in InHand \ Recorded,
           NEW state \in {"UNKNOWN", "RUNNING", "TERMINATED"}, NEW place \in Recorded,
           physical_transition_allowed(executions[hand].state, state),
           state = "TERMINATED" => physical[hand] = "ended",
           Record(state, place)
    PROVE  Well' /\ refused' = refused
<1> USE Zenon
<1>1. PICK id : id = hand
    OBVIOUS
<1>2. /\ id \in AttemptIds /\ id \in DOMAIN todo /\ HasExecution(id) /\ id \notin watched
      /\ boot \in Reconciling
    BY <1>1, HandKnown
<1>3. /\ place # "reconcile" /\ place \in InHand /\ place \notin {"confirm", "history"}
      /\ place # "history" /\ place # "ended" /\ state # "SUCCEEDED" /\ state # "NONE"
      /\ state \in {"UNKNOWN", "LOST", "RUNNING", "TERMINATED"}
    BY DEF Recorded, InHand
<1>4. /\ record_physical_outcome(id, state, state # "RUNNING", FALSE, FALSE)
      /\ Then(place) /\ Supervising
    BY <1>1, <1>3 DEF Record
<1>5. /\ Careful({id}) /\ leases' = leases /\ attempts' = attempts /\ executions'[id].state = state
      /\ OthersSame(id)
    BY <1>1, <1>2, <1>3, <1>4, RecordCareful DEF OthersSame
<1>6. /\ boot' = place /\ hand' = id /\ todo' = todo /\ refused' = refused
      /\ UNCHANGED watchVars /\ watched' = watched /\ ticket' = ticket /\ failed' = failed
    BY <1>1, <1>4 DEF Then, Supervising, watchVars
<1>7. Rows' /\ Watch'
    BY <1>2, <1>5, <1>6, SupervisingKeeps DEF Well
<1>8. Held'
    BY <1>2, <1>3, <1>5, <1>6 DEF Held
<1>9. HasExecution(id)'
    BY <1>3, <1>5 DEF HasExecution
<1>10. Pass'
    BY <1>1, <1>2, <1>3, <1>5, <1>6, <1>8, <1>9, CandidateHeld DEF Well
<1> QED
    BY <1>6, <1>7, <1>10 DEF Well

\* The candidate in hand has no lease any more: it is history.
LEMMA HandDone ==
    ASSUME RInv, Onwards, Well, boot \in InHand, Done(hand, "reconcile"), Supervising,
           Careful({hand}), OthersSame(hand), leases'[hand] # "ACTIVE"
    PROVE  Well' /\ refused' = refused
<1> USE Zenon
<1>1. PICK id : id = hand
    OBVIOUS
<1>2. id \in AttemptIds /\ id \notin watched /\ boot \in Reconciling
    BY <1>1, HandKnown
<1>3. /\ UNCHANGED watchVars /\ watched' = watched /\ ticket' = ticket /\ failed' = failed
      /\ refused' = refused
    BY DEF Done, Supervising, watchVars
<1>4. Careful({id}) /\ OthersSame(id) /\ Done(id, "reconcile") /\ ~LooksCurrent(id)'
    BY <1>1 DEF LooksCurrent
<1>5. Rows' /\ Watch'
    BY <1>2, <1>3, <1>4, SupervisingKeeps DEF Well
<1>6. Pass'
    BY <1>1, <1>2, <1>3, <1>4, CandidateDone DEF Well
<1> QED
    BY <1>3, <1>5, <1>6 DEF Well

\* The fenced confirmation of a candidate that runs.
LEMMA AdmitStaysWell ==
    ASSUME RInv, Onwards, Well, admit_or_history
    PROVE  Well' /\ refused' = refused
<1> USE Zenon
<1>0. boot = "confirm"
    BY DEF admit_or_history
<1>1. boot \in InHand \ Recorded /\ "history" \in InHand /\ "history" # "ended"
    BY <1>0 DEF InHand, Recorded
<1>2. PICK id : id = hand
    OBVIOUS
<1>3. /\ id \in AttemptIds /\ id \in DOMAIN todo /\ HasExecution(id) /\ id \notin watched
      /\ executions[id].state \in LiveExecution /\ boot \in Reconciling
    BY <1>0, <1>1, <1>2, HandKnown DEF Held
<1>4. CASE ~validate_authority(id)
    <2>1. Then("history") /\ UNCHANGED vars /\ Supervising
        BY <1>2, <1>4 DEF admit_or_history
    <2>2. leases[id] # "ACTIVE"
        BY <1>3, <1>4, LeaseIsAuthority
    <2> QED
        BY <1>1, <1>2, <1>3, <2>1, <2>2, HandPassedOn
<1>5. CASE validate_authority(id)
    <2>1. /\ confirm_running_and_renew(id) /\ watched' = watched \cup {id}
          /\ Done(id, "reconcile") /\ ticket' = ticket /\ failed' = failed
        BY <1>2, <1>3, <1>5 DEF admit_or_history
    <2>2. /\ Careful({id}) /\ executions'[id].state = "RUNNING" /\ OthersSame(id)
        BY <1>3, <2>1, ConfirmCareful DEF OthersSame
    <2>3. HasExecution(id)' /\ refused' = refused
        BY <2>1, <2>2 DEF HasExecution, Done
    <2>4. ticket.step # "idle" => ticket.id \in watched'
        BY <2>1 DEF Well, Watch
    <2>5. Watch'
        BY <1>3, <2>1, <2>2, <2>3, <2>4, WatchKept DEF Well
    <2>6. id \in watched' /\ watched \subseteq watched' /\ watched' \subseteq watched \cup {id}
        BY <2>1
    <2>7. Pass'
        BY <1>2, <1>3, <2>1, <2>2, <2>6, CandidateDone DEF Well
    <2> QED
        BY <2>1, <2>2, <2>3, <2>5, <2>7, RowsKept DEF Well
<1> QED
    BY <1>4, <1>5

\* The records, and the NACK that follows them.
LEMMA HandStaysWell ==
    ASSUME RInv, Onwards, Well, RunningHistory \/ PhysicalEnd \/ apply_nack_handle \/ apply_nack
    PROVE  Well' /\ refused' = refused
<1> USE Zenon
<1>1. boot \in InHand
    BY DEF RunningHistory, PhysicalEnd, apply_nack_handle, apply_nack, InHand
<1>2. /\ hand \in AttemptIds /\ hand \in DOMAIN todo /\ HasExecution(hand) /\ Held
      /\ boot \notin Recorded => AsRead(hand)
      /\ executions[hand].state \in ExecutionState \cup {"NONE"}
    BY <1>1, HandKnown
<1>3. CASE RunningHistory
    <2>1. boot = "history" /\ Record("RUNNING", "reconcile")
        BY <1>3 DEF RunningHistory
    <2>2. boot \in {"confirm", "history"} /\ "RUNNING" \in {"UNKNOWN", "LOST", "RUNNING", "TERMINATED"}
          /\ "RUNNING" # "TERMINATED"
        BY <2>1
    <2>3. executions[hand].state \in LiveExecution /\ leases[hand] # "ACTIVE"
        BY <1>2, <2>1, <2>2 DEF Held
    <2>4. physical_transition_allowed(executions[hand].state, "RUNNING")
        BY <1>2, <2>3, RecordsAreLegal
    <2>5. /\ record_physical_outcome(hand, "RUNNING", "RUNNING" # "RUNNING", FALSE, FALSE)
          /\ Done(hand, "reconcile") /\ Supervising
        BY <2>1, <2>4 DEF Record
    <2>6. Careful({hand}) /\ leases' = leases /\ OthersSame(hand)
        BY <1>2, <2>2, <2>5, RecordCareful DEF OthersSame
    <2> QED
        BY <1>1, <2>3, <2>5, <2>6, HandDone
<1>4. CASE PhysicalEnd
    <2>1. boot = "ended" /\ Record("TERMINATED", "nack ended")
        BY <1>4 DEF PhysicalEnd
    <2>2. boot \in InHand \ Recorded /\ "nack ended" \in Recorded
        BY <2>1 DEF InHand, Recorded
    <2>3. physical_transition_allowed(executions[hand].state, "TERMINATED")
        BY <1>2, RecordsAreLegal DEF HasExecution
    <2>4. physical[hand] = "ended" /\ "TERMINATED" \in {"UNKNOWN", "RUNNING", "TERMINATED"}
        BY <1>2, <2>1 DEF Held
    <2> QED
        BY <2>1, <2>2, <2>3, <2>4, HandRecorded
<1>5. CASE apply_nack_handle
    <2>1. boot = "unresolved"
        BY <1>5 DEF apply_nack_handle
    <2>2. /\ boot \in InHand \ Recorded /\ "nack" \in Recorded /\ "nack" \in InHand
          /\ "nack" \notin {"confirm", "history"} /\ "nack" # "history" /\ "nack" # "ended"
          /\ "UNKNOWN" \in {"UNKNOWN", "RUNNING", "TERMINATED"} /\ "UNKNOWN" # "TERMINATED"
          /\ "RUNNING" \in {"UNKNOWN", "RUNNING", "TERMINATED"} /\ "RUNNING" # "TERMINATED"
        BY <2>1 DEF InHand, Recorded
    <2>3. todo[hand].state = executions[hand].state
        BY <1>2, <2>2 DEF AsRead
    <2>4. CASE todo[hand].state \in {"STARTING", "UNKNOWN"}
        <3>1. Record("UNKNOWN", "nack")
            BY <1>5, <2>4 DEF apply_nack_handle
        <3>2. physical_transition_allowed(executions[hand].state, "UNKNOWN")
            BY <1>2, <2>3, <2>4, RecordsAreLegal
        <3> QED
            BY <2>2, <3>1, <3>2, HandRecorded
    <2>5. CASE todo[hand].state = "RUNNING"
        <3>1. Record("RUNNING", "nack")
            BY <1>5, <2>5 DEF apply_nack_handle
        <3>2. executions[hand].state \in LiveExecution
            BY <2>3, <2>5 DEF LiveExecution
        <3>3. physical_transition_allowed(executions[hand].state, "RUNNING")
            BY <1>2, <3>2, RecordsAreLegal
        <3> QED
            BY <2>2, <3>1, <3>3, HandRecorded
    <2>6. CASE todo[hand].state \notin {"STARTING", "UNKNOWN"} /\ todo[hand].state # "RUNNING"
        <3>1. Then("nack") /\ UNCHANGED vars /\ Supervising
            BY <1>5, <2>6 DEF apply_nack_handle
        <3> QED
            BY <2>2, <3>1, HandPassedOn
    <2> QED
        BY <2>4, <2>5, <2>6
<1>6. CASE apply_nack
    <2>1. CASE ~validate_authority(hand)
        <3>1. UNCHANGED vars /\ Done(hand, "reconcile") /\ Supervising
            BY <1>6, <2>1 DEF apply_nack
        <3>2. executions' = executions /\ leases' = leases /\ attempts' = attempts
            BY <3>1 DEF vars
        <3>3. leases'[hand] # "ACTIVE"
            BY <1>2, <2>1, <3>2, LeaseIsAuthority
        <3>4. Careful({hand}) /\ OthersSame(hand)
            BY <3>1, <3>2, IdleCareful DEF OthersSame
        <3> QED
            BY <1>1, <3>1, <3>3, <3>4, HandDone
    <2>2. CASE validate_authority(hand)
        <3>1. executions[hand].state # "SUCCEEDED"
            BY <1>2 DEF Held
        <3>2. PICK c : PlainNack(hand, c)
            BY <1>6, <2>2, <3>1 DEF apply_nack
        <3>3. Done(hand, "reconcile") /\ Supervising
            BY <1>6, <2>2, <3>1 DEF apply_nack
        <3>4. FALSE \in BOOLEAN /\ nack(hand, c, FALSE, FALSE, FALSE)
            BY <3>2 DEF PlainNack
        <3>5. Careful({}) /\ leases'[hand] # "ACTIVE" /\ OthersSame(hand)
            BY <1>2, <3>4, NackCareful, NackClosesOne
        <3>6. Careful({hand})
            BY <3>5, CarefulMore
        <3> QED
            BY <1>1, <3>3, <3>5, <3>6, HandDone
    <2> QED
        BY <2>1, <2>2
<1> QED
    BY <1>3, <1>4, <1>5, <1>6

\* After the passes, what is supervised stays supervised under steps that keep the rows.
LEMMA SupervisedKept ==
    ASSUME RInv, Supervised, Careful({}),
           \A id \in watched : id \in watched' \/ leases'[id] # "ACTIVE"
    PROVE  Supervised'
<1> USE Zenon
<1>1. ASSUME NEW id \in AttemptIds, LooksCurrent(id)' PROVE LooksCurrent(id)
    BY <1>1 DEF LooksCurrent, Careful, Undisturbed
<1> QED
    BY <1>1 DEF Supervised, LooksCurrent

\* A REVIVING agent owes nothing and is bound to nothing.
LEMMA RevivingIsRevivable ==
    ASSUME RInv, Reviving, NEW g \in Agents, agents[g].state = "REVIVING"
    PROVE  Revivable(g)
<1> USE Zenon
<1>1. /\ agents[g].state \notin {"NONE", "RETIRED"} /\ agents[g].state # "SUSPENDED"
      /\ agents[g].state \notin {"ASSIGNED", "DRAINING"}
    OBVIOUS
<1>2. agents[g].task = NoTask
    BY DEF Reviving
<1>3. \A t \in Tasks : ~(/\ escalations[t].state = "OPEN"
                         /\ escalations[t].cause = WriterUnknown
                         /\ escalations[t].agent = g)
    BY <1>1 DEF RInv, LInv, IInv, Quarantine, Obligation
<1>4. \A id \in AttemptIds : ~(attempts[id].state = "ACTIVE" /\ attempts[id].agent = g)
    BY <1>1 DEF RInv, LInv, IInv, Binding, Active
<1> QED
    BY <1>1, <1>2, <1>3, <1>4 DEF Revivable

\* Maintenance before READY.
LEMMA MaintenanceStaysWell ==
    ASSUME RInv, Onwards, Reviving, Well, Sweep \/ ListForRevival \/ ReviveListed \/ ActivationEnds
    PROVE  Well' /\ refused' = refused
<1> USE Zenon
<1>1. /\ boot \in Later
      /\ boot = "activate" => ticket = NoTicket
    BY DEF Later, Sweep, ListForRevival, ReviveListed, ActivationEnds
<1>2. Supervised /\ ticket = NoTicket
    BY <1>1, PlacesApart DEF Well, Pass
<1>3. ASSUME UNCHANGED watchVars, failed' = failed, refused' = refused, Careful({})
      PROVE  Rows' /\ Watch' /\ Supervised' /\ ticket' = NoTicket
    <2>1. watched' = watched /\ ticket' = ticket
        BY <1>3 DEF watchVars
    <2>2. Rows' /\ Watch'
        BY <1>3, SupervisingKeeps DEF Well
    <2>3. Supervised'
        BY <1>2, <1>3, <2>1, SupervisedKept
    <2> QED
        BY <1>2, <2>1, <2>2, <2>3
<1>4. ASSUME executions' = executions, leases' = leases PROVE Careful({})
    BY <1>4, RowsAlone DEF LeasesClose
<1>5. CASE Sweep
    <2>1. UNCHANGED watchVars /\ failed' = failed /\ refused' = refused
        BY <1>5 DEF Sweep, Then
    <2>2. Careful({})
        BY <1>4, <1>5, ExpireCareful DEF Sweep, promote_retry_wait, reconcile_pool
    <2>3. boot' \in Later /\ boot' \notin {"revive", "activate"}
        BY <1>5 DEF Sweep, Then, Later
    <2> QED
        BY <1>3, <2>1, <2>2, <2>3, PassLater DEF Well
<1>6. CASE ListForRevival
    <2>1. UNCHANGED watchVars /\ failed' = failed /\ refused' = refused /\ UNCHANGED vars
          /\ boot' = "revive" /\ listed' = {g \in Agents : agents[g].state = "REVIVING"}
        BY <1>6 DEF ListForRevival, Then
    <2>2. Careful({}) /\ agents' = agents
        BY <2>1, IdleCareful DEF vars
    <2>3. boot' \in Later /\ boot' # "activate"
        BY <2>1 DEF Later
    <2>4. \A g \in listed' : agents'[g].state = "REVIVING"
        BY <2>1, <2>2
    <2>5. Rows' /\ Watch' /\ Supervised' /\ ticket' = NoTicket
        BY <1>3, <2>1, <2>2
    <2>6. Pass'
        BY <2>3, <2>4, <2>5, PlacesApart DEF Pass
    <2> QED
        BY <2>1, <2>5, <2>6 DEF Well
<1>7. CASE ReviveListed
    <2>0. boot = "revive" /\ \A g \in listed : agents[g].state = "REVIVING"
        BY <1>7 DEF ReviveListed, Well, Pass
    <2>1. CASE listed = {}
        <3>1. UNCHANGED watchVars /\ failed' = failed /\ refused' = refused /\ UNCHANGED vars
              /\ boot' = IF swept THEN "validate" ELSE "assert"
            BY <1>7, <2>1 DEF ReviveListed, Then, Supervising
        <3>2. Careful({})
            BY <3>1, IdleCareful
        <3>3. boot' \in Later /\ boot' \notin {"revive", "activate"}
            BY <3>1 DEF Later
        <3> QED
            BY <1>3, <3>1, <3>2, <3>3, PassLater DEF Well
    <2>2. CASE listed # {}
        <3>1. \A g \in listed : g \in Agents /\ Revivable(g)
            BY <2>0, RevivingIsRevivable DEF RInv, LInv, Receipts
        <3>2. PICK g \in listed : /\ revive_agent(g) /\ listed' = listed \ {g}
                                  /\ UNCHANGED <<bootVars, watchVars, failed>>
            BY <1>7, <2>2, <3>1 DEF ReviveListed
        <3>3. /\ UNCHANGED watchVars /\ failed' = failed /\ refused' = refused /\ boot' = boot
              /\ executions' = executions /\ leases' = leases
              /\ agents' = [agents EXCEPT ![g].state = "READY"]
            BY <3>2 DEF bootVars, revive_agent
        <3>4. \A h \in listed' : agents'[h].state = "REVIVING"
            <4>1. \A h \in Agents \ {g} : agents'[h] = agents[h]
                BY <3>3 DEF RInv, LInv, IInv, TypeOK
            <4> QED
                BY <2>0, <3>1, <3>2, <4>1
        <3>5. Rows' /\ Watch' /\ Supervised' /\ ticket' = NoTicket
            BY <1>3, <1>4, <3>3
        <3>6. boot' \in Later /\ boot' # "activate"
            BY <2>0, <3>3 DEF Later
        <3>7. Pass'
            BY <3>4, <3>5, <3>6, PlacesApart DEF Pass
        <3> QED
            BY <3>3, <3>5, <3>7 DEF Well
    <2> QED
        BY <2>1, <2>2
<1>8. CASE ActivationEnds
    <2>1. UNCHANGED watchVars /\ failed' = failed /\ refused' = refused /\ UNCHANGED vars
          /\ boot' = "sweep"
        BY <1>8 DEF ActivationEnds, Supervising
    <2>2. Careful({})
        BY <2>1, IdleCareful
    <2>3. boot' \in Later /\ boot' \notin {"revive", "activate"}
        BY <2>1 DEF Later
    <2> QED
        BY <1>3, <2>1, <2>2, <2>3, PassLater DEF Well
<1> QED
    BY <1>5, <1>6, <1>7, <1>8

\* The READY invariant holds when it is asserted.
LEMMA ReadyStaysWell ==
    ASSUME RInv, Onwards, Well, assert_ready_invariant
    PROVE  Well' /\ refused' = refused
<1> USE Zenon
<1>1. boot \in {"assert", "validate"} /\ boot \in Later /\ boot # "activate"
    BY DEF assert_ready_invariant, Later
<1>2. Supervised /\ ticket = NoTicket
    BY <1>1, PlacesApart DEF Well, Pass
<1>3. ticket.step = "idle"
    BY <1>2 DEF NoTicket
<1>4. ReadyInvariant
    <2>1. ASSUME NEW id \in AttemptIds, LooksCurrent(id)
          PROVE  executions[id].state = "RUNNING" /\ id \in watched
        BY <1>2, <1>3, <2>1 DEF Supervised, LooksCurrent, Well, Watch, Seen, Nacking
    <2> QED
        BY <2>1 DEF ReadyInvariant
<1>5. /\ UNCHANGED vars /\ UNCHANGED watchVars /\ failed' = failed /\ refused' = refused
      /\ boot' = IF boot = "assert" THEN "activate" ELSE "up"
      /\ todo' = IF boot = "assert" THEN [id \in watched |-> Snapshot(id)] ELSE Nobody
    BY <1>4 DEF assert_ready_invariant, Supervising
<1>6. Careful({}) /\ watched' = watched /\ ticket' = ticket
    BY <1>5, IdleCareful DEF watchVars
<1>7. Rows' /\ Watch' /\ Supervised'
    BY <1>2, <1>5, <1>6, SupervisingKeeps, SupervisedKept DEF Well
<1>8. CASE boot = "assert"
    <2>1. boot' = "activate" /\ DOMAIN todo' = watched
        BY <1>5, <1>8
    <2>2. boot' \in Later /\ boot' # "revive" /\ boot' \in {"activate", "up"}
        BY <2>1 DEF Later
    <2>3. Pass'
        BY <1>3, <1>6, <1>7, <2>1, <2>2, PlacesApart DEF Pass
    <2> QED
        BY <1>5, <1>7, <2>3 DEF Well
<1>9. CASE boot # "assert"
    BY <1>5, <1>7, <1>9, PassUp DEF Well
<1> QED
    BY <1>8, <1>9

\* The invariant of the activation.
LEMMA PassActivating ==
    ASSUME boot' = "activate", Supervised', DOMAIN todo' \subseteq watched',
           ticket'.step # "idle" => ticket'.id \notin DOMAIN todo'
    PROVE  Pass'
<1> USE Zenon
<1>1. boot' \in Later /\ boot' # "revive" /\ boot' \in {"activate", "up"}
    BY DEF Later
<1> QED
    BY <1>1, PlacesApart DEF Pass

\* activation_sweep.
LEMMA ActivationStaysWell ==
    ASSUME RInv, Onwards, Well, NEW id \in AttemptIds, activation_sweep(id)
    PROVE  Well' /\ refused' = refused
<1> USE Zenon
<1>1. /\ boot = "activate" /\ ticket = NoTicket /\ id \in DOMAIN todo /\ Done(id, "activate")
      /\ failed' = failed
    BY DEF activation_sweep
<1>2. boot \in Later /\ ticket.step = "idle"
    BY <1>1 DEF Later, NoTicket
<1>3. Supervised /\ DOMAIN todo \subseteq watched /\ id \in watched
    BY <1>1, <1>2 DEF Well, Pass
<1>4. /\ boot' = "activate" /\ refused' = refused
      /\ \A i : i \in DOMAIN todo' <=> i \in DOMAIN todo /\ i # id
    BY <1>1, DoneRest
<1>5. CASE UNCHANGED <<vars, watchVars>>
    <2>1. Careful({}) /\ watched' = watched /\ ticket' = ticket
        BY <1>5, IdleCareful DEF watchVars
    <2>2. Rows' /\ Watch' /\ Supervised'
        BY <1>3, <1>5, <2>1, SupervisingKeeps, SupervisedKept DEF Well
    <2>3. Pass'
        BY <1>2, <1>3, <1>4, <2>1, <2>2, PassActivating
    <2> QED
        BY <1>1, <1>4, <2>2, <2>3 DEF Well
<1>6. CASE /\ \/ ticket' = [id |-> id, step |-> "lost"]
              \/ physical[id] = "ended" /\ ticket' = [id |-> id, step |-> "ended"]
           /\ UNCHANGED <<vars, watched>>
    <2>1. /\ executions' = executions /\ leases' = leases /\ physical' = physical
          /\ watched' = watched /\ Careful({})
        BY <1>6, IdleCareful DEF vars
    <2>2. Watch'
        BY <1>2, <1>3, <1>6, <2>1, WatchTaken DEF Well
    <2>3. Rows' /\ Supervised'
        BY <1>3, <2>1, RowsKept, SupervisedKept DEF Well
    <2>4. ticket'.id = id
        BY SMT, <1>6
    <2>5. Pass'
        BY <1>3, <1>4, <2>1, <2>3, <2>4, PassActivating
    <2> QED
        BY <1>1, <1>4, <2>2, <2>3, <2>5 DEF Well
<1>7. CASE /\ IF validate_authority(id)
              THEN \E c \in FailureClass : nack_preserving_physical_history(id, c)
              ELSE UNCHANGED vars
           /\ watched' = watched \ {id} /\ UNCHANGED ticket
    <2>1. Careful({}) /\ leases'[id] # "ACTIVE"
        <3>1. CASE validate_authority(id)
            BY <1>7, <3>1, NackPreservingCareful
        <3>2. CASE ~validate_authority(id)
            <4>1. leases[id] # "ACTIVE" /\ UNCHANGED vars
                BY <1>7, <3>2, LeaseIsAuthority
            <4>2. leases' = leases
                BY <4>1 DEF vars
            <4> QED
                BY <4>1, <4>2, IdleCareful
        <3> QED
            BY <3>1, <3>2
    <2>2. /\ ticket' = ticket /\ \A i : i \in watched' <=> i \in watched /\ i # id
        BY <1>7
    <2>3. Watch'
        BY <1>2, <2>1, <2>2, WatchKept DEF Well
    <2>4. Rows' /\ Supervised'
        BY <1>3, <2>1, <2>2, RowsKept, SupervisedKept DEF Well
    <2>5. DOMAIN todo' \subseteq watched'
        BY <1>3, <1>4, <2>2
    <2>6. Pass'
        BY <1>2, <1>4, <2>2, <2>4, <2>5, PassActivating
    <2> QED
        BY <1>1, <1>4, <2>3, <2>4, <2>6 DEF Well
<1> QED
    BY <1>5, <1>6, <1>7 DEF activation_sweep

\* The observer at work during the activation.
LEMMA ObserverStaysWell ==
    ASSUME RInv, Onwards, Well, boot = "activate", Apply, UNCHANGED bootVars
    PROVE  Well' /\ refused' = refused
<1> USE Zenon
<1>1. PICK tid : tid = ticket.id
    OBVIOUS
<1>2. /\ Careful({tid}) /\ Watch' /\ failed' = failed
      /\ watched' \subseteq watched /\ tid \in watched
      /\ \A id \in watched : id \in watched' \/ (id = tid /\ leases'[id] # "ACTIVE")
      /\ ticket' = NoTicket \/ ticket'.id = tid
    BY <1>1, ApplyKeepsWatch DEF Well
<1>3. boot' = "activate" /\ todo' = todo /\ refused' = refused /\ boot \in Later
    BY DEF bootVars, Later
<1>4. ticket.step # "idle" /\ NoTicket.step = "idle"
    BY DEF Apply, ApplyLost, ApplyEnded, nack_current, NoTicket
<1>5. Supervised /\ DOMAIN todo \subseteq watched /\ tid \notin DOMAIN todo
    BY <1>1, <1>3, <1>4 DEF Well, Pass
<1>6. Supervised'
    <2>1. ASSUME NEW id \in AttemptIds, LooksCurrent(id)' PROVE id \in watched'
        <3>1. CASE id = tid
            BY <1>2, <2>1, <3>1 DEF LooksCurrent
        <3>2. CASE id # tid
            BY <1>2, <1>5, <2>1, <3>2 DEF LooksCurrent, Supervised, Careful, Undisturbed
        <3> QED
            BY <3>1, <3>2
    <2> QED
        BY <2>1 DEF Supervised
<1>7. DOMAIN todo' \subseteq watched'
    BY <1>2, <1>3, <1>5
<1>8. ticket'.step # "idle" => ticket'.id \notin DOMAIN todo'
    BY <1>2, <1>3, <1>4, <1>5
<1>9. Pass'
    BY <1>3, <1>6, <1>7, <1>8, PassActivating
<1> QED
    BY <1>2, <1>3, <1>9, RowsKept DEF Well

\* A crash, with or without evidence of an end that became durable.
LEMMA CrashIsWell ==
    ASSUME RInv, Onwards, Well, Crash \/ CrashAfterEvidence
    PROVE  Well' /\ Dispatched' /\ refused' = "no"
<1> USE Zenon
<1>1. Dead("no") /\ refused' = "no"
    BY DEF Crash, CrashAfterEvidence, Dead
<1>2. \E X : Careful(X)
    <2>1. CASE Crash
        BY <2>1, IdleCareful DEF Crash
    <2>2. CASE CrashAfterEvidence
        <3>1. pc = "ended" /\ pc \in Dispatching
            BY <2>2 DEF CrashAfterEvidence, Dispatching
        <3>2. claim \in AttemptIds /\ physical[claim] = "ended"
            BY <3>1 DEF RInv, LInv, Receipts, BootReceipts
        <3> QED
            BY <2>2, <3>2, PendingCareful DEF CrashAfterEvidence
    <2> QED
        BY <2>1, <2>2
<1> QED
    BY <1>1, <1>2, DeathIsWell

----------------------------------------------------------------------------
(* What recovery refuses *)

NInv == Reviving /\ Dispatched /\ Well /\ Refusal

\* While the daemon starts, no claim is in dispatch.
LEMMA StartupDispatchesNothing ==
    ASSUME RInv, boot # "up", RecNext
    PROVE  Dispatched'
<1> USE Zenon
<1>1. pc = "expire" /\ "expire" \notin Dispatching
    BY DEF RInv, BootReceipts, Dispatching
<1>2. CASE World \/ Apply
    BY <1>1, <1>2 DEF Dispatched, World, BackoffElapses, loopVars, Apply, ApplyLost, ApplyEnded,
                         nack_current, ObserverStep, ObserverFails
<1>3. CASE Crash \/ CrashAfterEvidence
    BY <1>1, <1>3 DEF Dispatched, Crash, CrashAfterEvidence, Dead
<1>4. ASSUME Supervising PROVE Dispatched'
    BY <1>1, <1>4 DEF Dispatched, Supervising, loopVars
<1>5. ASSUME NEW check, Refuse(check) PROVE Dispatched'
    BY <1>1, <1>5 DEF Dispatched, Refuse, Dead
<1>6. CASE Barrier \/ ReadCandidates \/ PassEnds \/ ActivationEnds \/ assert_ready_invariant
    BY <1>4, <1>5, <1>6
    DEF Barrier, ReadCandidates, PassEnds, ActivationEnds, assert_ready_invariant
<1>7. ASSUME NEW id \in AttemptIds, replay_persisted_terminal_consequence(id) PROVE Dispatched'
    BY <1>4, <1>5, <1>7 DEF replay_persisted_terminal_consequence
<1>8. ASSUME NEW id \in AttemptIds, reconcile_one_execution(id) PROVE Dispatched'
    BY <1>4, <1>8 DEF reconcile_one_execution, close_lost, reconcile_active_physical, Take
<1>9. ASSUME NEW id \in AttemptIds, activation_sweep(id) PROVE Dispatched'
    BY <1>1, <1>9 DEF Dispatched, activation_sweep, loopVars
<1>10. CASE admit_or_history
    BY <1>1, <1>4, <1>5, <1>10 DEF Dispatched, admit_or_history, loopVars
<1>11. CASE RunningHistory \/ PhysicalEnd \/ apply_nack_handle \/ apply_nack
    BY <1>4, <1>5, <1>11
    DEF RunningHistory, PhysicalEnd, apply_nack_handle, apply_nack, Record
<1>12. CASE Sweep \/ ListForRevival \/ ReviveListed
    BY <1>1, <1>4, <1>5, <1>12
    DEF Dispatched, Sweep, ListForRevival, ReviveListed, loopVars
<1> QED
    BY <1>2, <1>3, <1>6, <1>7, <1>8, <1>9, <1>10, <1>11, <1>12 DEF RecNext, Startup

LEMMA NStep ==
    ASSUME RInv, Hosted, Reported, NInv, [RecNext]_recVars
    PROVE  NInv'
<1> USE Zenon
<1>1. [Next]_vars /\ Onwards
    BY RecStepIsKernel, ProcessesMoveOn DEF RInv, LInv, IInv
<1>2. Reviving'
    BY <1>1, RevivingKept DEF NInv, RInv, LInv
<1>3. CASE UNCHANGED recVars
    <2>1. /\ executions' = executions /\ leases' = leases /\ attempts' = attempts /\ physical' = physical
          /\ agents' = agents /\ boot' = boot /\ todo' = todo /\ hand' = hand /\ listed' = listed
          /\ watched' = watched /\ ticket' = ticket /\ pc' = pc /\ claim' = claim
          /\ failed' = failed /\ refused' = refused /\ results' = results
        BY <1>3 DEF recVars, allVars, vars, loopVars, watchVars, bootVars
    <2>2. Rows' /\ Watch' /\ Dispatched'
        BY ZenonT(60), <2>1 DEF NInv, Well, Rows, Sound, Contradictory, SharedWriterClosed, Watch, Seen,
                                Nacking, HasExecution, Dispatched, Committed
    <2>3. Pass'
        BY ZenonT(60), <2>1 DEF NInv, Well, Pass, Replaying, NothingSettled, Candidates, Accountable,
                                Held, Supervised, AsRead, LooksCurrent, HasExecution
    <2>4. Refusal'
        BY <2>1 DEF NInv, Refusal, Contradictory
    <2> QED
        BY <1>2, <2>1, <2>2, <2>3, <2>4 DEF NInv, Well
<1>a. ASSUME boot # "down", refused' = refused PROVE Refusal'
    BY <1>a DEF NInv, Refusal
<1>4. CASE boot = "up" /\ LoopNext /\ UNCHANGED bootVars
    <2>1. boot' = "up" /\ refused' = refused
        BY <1>4 DEF bootVars
    <2>2. Rows' /\ Watch' /\ Dispatched' /\ failed' \notin Trouble
        BY <1>1, <1>4, RunningKeeps DEF NInv, Well
    <2>3. Refusal'
        BY <1>4, <1>a, <2>1
    <2> QED
        BY <1>2, <2>1, <2>2, <2>3, PassUp DEF NInv, Well
<1>5. CASE boot # "up" /\ World
    <2>1. /\ UNCHANGED watchVars /\ failed' = failed /\ refused' = refused
        BY <1>5 DEF World, BackoffElapses, bootVars
    <2>2. Careful({})
        BY <1>1, <1>5, OthersCareful, IdleCareful DEF World, BackoffElapses
    <2>3. Rows' /\ Watch' /\ Pass'
        BY <1>1, <1>5, <2>1, <2>2, SupervisingKeeps, WorldKeepsPass DEF NInv, Well
    <2>4. Dispatched'
        BY <1>5, StartupDispatchesNothing DEF RecNext
    <2>5. executions' = executions /\ results' = results /\ boot' = boot
        BY <1>5 DEF World, Processes, PhysicalStep, LeaseElapses, BackoffElapses, bootVars, vars
    <2>6. Refusal'
        BY <2>1, <2>5 DEF NInv, Refusal, Contradictory
    <2> QED
        BY <1>2, <2>1, <2>3, <2>4, <2>6 DEF NInv, Well
<1>6. CASE boot = "activate" /\ Apply /\ UNCHANGED bootVars
    <2>1. Dispatched'
        BY <1>6, StartupDispatchesNothing DEF RecNext
    <2>2. Well' /\ refused' = refused
        BY <1>1, <1>6, ObserverStaysWell DEF NInv
    <2> QED
        BY <1>2, <1>6, <1>a, <2>1, <2>2 DEF NInv
<1>7. CASE Startup
    <2>1. boot # "up"
        BY ZenonT(60), <1>7
        DEF Startup, Barrier, ReadCandidates, PassEnds, replay_persisted_terminal_consequence,
            reconcile_one_execution, admit_or_history, RunningHistory, PhysicalEnd,
            apply_nack_handle, apply_nack, Sweep, ListForRevival, ReviveListed,
            assert_ready_invariant, activation_sweep, ActivationEnds
    <2>2. Dispatched'
        BY <1>7, <2>1, StartupDispatchesNothing DEF RecNext
    <2>3. CASE Barrier \/ ReadCandidates \/ PassEnds
        <3>1. Well'
            BY <1>1, <2>3, PassesStayWell DEF NInv
        <3>2. refused' = "no"
            BY <2>3 DEF Barrier, ReadCandidates, PassEnds, Then, NInv, Refusal
        <3> QED
            BY <1>2, <2>2, <3>1, <3>2 DEF NInv, Refusal
    <2>4. CASE ~(Barrier \/ ReadCandidates \/ PassEnds)
        <3>1. boot # "down"
            BY ZenonT(60), <1>7, <2>4
            DEF Startup, replay_persisted_terminal_consequence, reconcile_one_execution,
                admit_or_history, RunningHistory, PhysicalEnd, apply_nack_handle, apply_nack, Sweep,
                ListForRevival, ReviveListed, assert_ready_invariant, activation_sweep, ActivationEnds
        <3>2. Well' /\ (refused' = refused \/ Refusal')
            BY <1>1, <1>7, <2>4, ReplayStaysWell, ReconcileStaysWell, AdmitStaysWell, HandStaysWell,
               MaintenanceStaysWell, ReadyStaysWell, ActivationStaysWell
            DEF Startup, NInv
        <3> QED
            BY <1>2, <1>a, <2>2, <3>1, <3>2 DEF NInv
    <2> QED
        BY <2>3, <2>4
<1>8. CASE Crash \/ CrashAfterEvidence
    BY <1>1, <1>2, <1>8, CrashIsWell DEF NInv, Refusal
<1> QED
    BY <1>3, <1>4, <1>5, <1>6, <1>7, <1>8 DEF RecNext

\* The strengthened invariant of the daemon that crashes and recovers: what it watches
\* runs, what it dispatches is as it left it, and every pass of recovery finds the rows
\* as they were read.
THEOREM RecoveryNInv == RecSpec => []NInv
<1>1. RecInit => NInv
    <2> SUFFICES ASSUME RecInit PROVE NInv
        BY Zenon
    <2>1. /\ \A id \in AttemptIds : executions[id].state = "NONE"
          /\ \A g \in Agents : agents[g].state # "REVIVING"
        BY Zenon DEF RecInit, LoopInit, Init, NoExecution
    <2>2. Rows /\ Reviving
        BY Zenon, <2>1 DEF Rows, Sound, Contradictory, Reviving
    <2>3. /\ watched = {} /\ ticket = NoTicket /\ boot = "down" /\ pc = "expire" /\ failed = "no"
          /\ refused = "no"
        BY Zenon DEF RecInit, LoopInit
    <2>4. Watch
        BY Zenon, <2>3 DEF Watch, NoTicket
    <2>5. Dispatched /\ failed \notin Trouble
        BY Zenon, <2>3 DEF Dispatched, Dispatching, Trouble
    <2>6. Pass
        BY Zenon, <2>3 DEF Pass, Reconciling, InHand, Later
    <2> QED
        BY Zenon, <2>2, <2>3, <2>4, <2>5, <2>6 DEF NInv, Well, Refusal
<1>2. RInv /\ Hosted /\ Reported /\ NInv /\ [RecNext]_recVars => NInv'
    BY Zenon, NStep
<1>3. ImplementsKernel => Spec
    BY Zenon DEF ImplementsKernel, Spec
<1>4. WorkInv => Reported
    BY Zenon DEF WorkInv
<1> QED
    BY <1>1, <1>2, <1>3, <1>4, RecoveryInvariant, RecoveryImplementsKernel, HostInvariant,
       WorkInvariant, PTL DEF RecSpec

\* The one thing that stops a startup, after any crashes, is a row SUCCEEDED with a
\* failure class whose task has no Result; such a row is the closed attempt of a writer
\* in a shared workspace.  The running daemon is refused nothing that it holds the
\* authority for.
THEOREM RecoveryRefusesOnlyContradictions == RecSpec => []RefusesOnlyContradictions
<1>1. NInv => RefusesOnlyContradictions
    BY Zenon DEF NInv, Well, Refusal, Rows, Sound, Trouble, RefusesOnlyContradictions
<1> QED
    BY <1>1, RecoveryNInv, PTL

----------------------------------------------------------------------------
(* Evidence of success *)

Proven(id) == executions[id].state = "SUCCEEDED" /\ leases[id] = "ACTIVE"
LeftOpen(id) == attempts'[id] = attempts[id]
DecidedBy(id, q) ==
    \/ tasks'[id[1]].state = "COMPLETED"
    \/ tasks'[id[1]].state = "SUSPENDED" /\ id[1] \in Writers /\ ~q

\* ack_success completes the task or suspends that of a writer not known to be quiet.
LEMMA AckDecides ==
    ASSUME IInv, NEW id \in AttemptIds, NEW q, NEW reusable, ack_success(id, q, reusable)
    PROVE  DecidedBy(id, q)
<1> USE Zenon
<1> DEFINE t == id[1]
           safe == writer_is_safe_to_replace(t \in Writers, HasExecution(id), q,
                                             executions[id].isolated)
           presence == incarnation_presence("SUCCEEDED", TRUE, q /\ safe, reusable /\ safe)
           bad == CloseOne(id, "FAILED", "REVOKED", "SUSPENDED", presence, WriterUnknown)
           good == CloseOne(id, "SUCCEEDED", "RELEASED", "COMPLETED", presence, "NONE")
<1>1. /\ validate_authority(id)
      /\ \/ ~safe /\ tasks' = ClosedTasks(bad)
         \/ tasks' = release_dependencies(BatchOf[t], ClosedTasks(good))
    BY ZenonT(60) DEF ack_success
<1>2. ~safe => t \in Writers /\ ~q
    BY DEF writer_is_safe_to_replace
<1>3. /\ DOMAIN bad = {id} /\ bad[id].task = "SUSPENDED"
      /\ DOMAIN good = {id} /\ good[id].task = "COMPLETED"
    BY ZenonT(60) DEF CloseOne
<1> HIDE DEF safe, presence, bad, good
<1>4. Active(id)
    BY <1>1, AuthorityIsActive
<1>5. Ending(bad) /\ Ending(good)
    BY <1>3, <1>4 DEF Ending
<1>6. t \in Tasks /\ Current(t) = id
    BY <1>4, ActiveIsCurrent, AttemptIdFacts DEF Current
<1>7. ClosedTasks(bad)[t].state = "SUSPENDED" /\ ClosedTasks(good)[t].state = "COMPLETED"
    BY SMT, <1>3, <1>5, <1>6, ClosedTasksMove
<1>8. release_dependencies(BatchOf[t], ClosedTasks(good))[t] = ClosedTasks(good)[t]
    <2> DEFINE ts == ClosedTasks(good)
    <2>1. ts[t].state # "BLOCKED"
        BY <1>7
    <2> HIDE DEF ts
    <2> QED
        BY <1>6, <2>1 DEF release_dependencies, ts
<1> QED
    BY <1>1, <1>2, <1>7, <1>8 DEF DecidedBy

\* What expire_leases closes is not an execution whose lease holds.
LEMMA ExpireLeavesOpen ==
    ASSUME NEW recovering, expire_leases(recovering), NEW id \in AttemptIds, Proven(id)
    PROVE  LeftOpen(id)
<1> USE Zenon
<1> DEFINE out == [i \in Expirable(recovering) |-> Expired(i)]
<1>1. CloseAttempts(out, escalations)
    BY DEF expire_leases
<1>2. DOMAIN out = Expirable(recovering)
    OBVIOUS
<1>3. leases[id] # "ELAPSED" /\ HasExecution(id)
    BY DEF Proven, HasExecution
<1>4. id \notin Expirable(recovering)
    BY <1>3 DEF Expirable
<1> HIDE DEF out
<1>5. attempts' = [i \in AttemptIds |-> IF i \in DOMAIN out
                                        THEN [attempts[i] EXCEPT !.state = out[i].attempt]
                                        ELSE attempts[i]]
    BY <1>1 DEF CloseAttempts
<1> QED
    BY <1>2, <1>4, <1>5 DEF LeftOpen

\* nack_preserving_physical_history closes the one attempt.
LEMMA NackPreservingClosesOne ==
    ASSUME NEW id \in AttemptIds, NEW c, nack_preserving_physical_history(id, c)
    PROVE  \A i \in AttemptIds \ {id} : LeftOpen(i)
<1> USE Zenon
<1>1. PICK presence : FailureConsequence(id, Failed(id, c, FALSE, presence))
    BY DEF nack_preserving_physical_history
<1>2. PICK l, t, cause : Failed(id, c, FALSE, presence) = CloseOne(id, "FAILED", l, t, presence, cause)
    BY DEF Failed
<1>3. CloseAttempts(CloseOne(id, "FAILED", l, t, presence, cause), escalations)
    BY <1>1, <1>2 DEF FailureConsequence
<1> QED
    BY <1>3, ClosesOne DEF LeftOpen

\* A NACK is refused for an execution that succeeded.
LEMMA NackLeavesProven ==
    ASSUME RInv, NEW h \in AttemptIds, NEW c, PlainNack(h, c), NEW id \in AttemptIds, Proven(id)
    PROVE  LeftOpen(id)
<1> USE Zenon
<1>1. FALSE \in BOOLEAN /\ nack(h, c, FALSE, FALSE, FALSE)
    BY DEF PlainNack
<1>2. OthersSame(h)
    BY <1>1, NackClosesOne
<1>3. executions[h].state # "SUCCEEDED"
    BY <1>1 DEF nack
<1> QED
    BY <1>2, <1>3 DEF OthersSame, Proven, LeftOpen

\* The replay decides what is proven, and leaves the others open.
LEMMA ReplayDecides ==
    ASSUME RInv, Well, NEW i \in AttemptIds, replay_persisted_terminal_consequence(i),
           NEW id \in AttemptIds, Proven(id)
    PROVE  LeftOpen(id) \/ DecidedBy(id, executions[id].quiescent)
<1> USE Zenon
<1>1. boot = "replay" /\ i \in DOMAIN todo
    BY DEF replay_persisted_terminal_consequence
<1>2. AsRead(i)
    BY <1>1 DEF Well, Pass, Replaying
<1>3. CASE UNCHANGED vars
    BY <1>3 DEF vars, LeftOpen
<1>4. CASE todo[i].state = "SUCCEEDED" /\ replay_success_consequence(i)
    <2>1. PICK reusable : ack_success(i, todo[i].quiescent, reusable)
        BY <1>4 DEF replay_success_consequence
    <2>2. OthersSame(i) /\ DecidedBy(i, todo[i].quiescent)
        BY <2>1, AckClosesOne, AckDecides DEF RInv, LInv
    <2> QED
        BY <1>2, <2>2 DEF OthersSame, LeftOpen, AsRead
<1>5. CASE todo[i].state # "SUCCEEDED" /\ replay_failure_consequence(i)
    <2>1. PICK c, q, reusable : TRUE \in BOOLEAN /\ nack(i, c, TRUE, q, reusable)
        BY <1>5 DEF replay_failure_consequence
    <2>2. OthersSame(i)
        BY <2>1, NackClosesOne
    <2>3. i # id
        BY <1>2, <1>5 DEF AsRead, Proven
    <2> QED
        BY <2>2, <2>3 DEF OthersSame, LeftOpen
<1> QED
    BY <1>3, <1>4, <1>5 DEF replay_persisted_terminal_consequence, Refuse

\* The steps of a startup that may close an attempt, and those that do not.
LEMMA StartupDecides ==
    ASSUME RInv, Well, Startup, NEW id \in AttemptIds, Proven(id)
    PROVE  LeftOpen(id) \/ DecidedBy(id, executions[id].quiescent)
<1> USE Zenon
<1>1. ASSUME attempts' = attempts PROVE LeftOpen(id)
    BY <1>1 DEF LeftOpen
<1>2. ASSUME UNCHANGED vars PROVE LeftOpen(id)
    BY <1>2 DEF vars, LeftOpen
<1>3. ASSUME NEW h, NEW state, NEW classed, record_physical_outcome(h, state, classed, FALSE, FALSE)
      PROVE  LeftOpen(id)
    <2>1. attempts' = attempts
        BY ZenonT(60), <1>3 DEF record_physical_outcome
    <2> QED
        BY <1>1, <2>1
<1>4. CASE Barrier \/ Sweep
    <2>1. ASSUME NEW due0, promote_retry_wait(due0) PROVE LeftOpen(id)
        BY <1>1, <2>1 DEF promote_retry_wait
    <2>2. ASSUME reconcile_pool PROVE LeftOpen(id)
        BY ZenonT(60), <1>1, <2>2 DEF reconcile_pool
    <2> QED
        BY <1>4, <2>1, <2>2, ExpireLeavesOpen DEF Barrier, Sweep
<1>5. CASE \E i \in AttemptIds : replay_persisted_terminal_consequence(i)
    BY <1>5, ReplayDecides
<1>6. CASE \E i \in AttemptIds : reconcile_one_execution(i)
    BY <1>2, <1>6 DEF reconcile_one_execution, close_lost, reconcile_active_physical, Take
<1>7. CASE \/ ReadCandidates \/ PassEnds \/ ActivationEnds \/ ListForRevival
           \/ assert_ready_invariant
    BY <1>2, <1>7 DEF ReadCandidates, PassEnds, ActivationEnds, ListForRevival,
                             assert_ready_invariant, Refuse
<1>8. CASE admit_or_history
    BY <1>1, <1>2, <1>8 DEF admit_or_history, confirm_running_and_renew, Refuse
<1>9. CASE RunningHistory \/ PhysicalEnd \/ apply_nack_handle
    BY <1>2, <1>3, <1>9 DEF RunningHistory, PhysicalEnd, apply_nack_handle, Record, Refuse
<1>10. CASE apply_nack
    <2>1. hand \in AttemptIds
        <3>1. boot \in InHand
            BY <1>10 DEF apply_nack, InHand
        <3> QED
            BY <3>1 DEF RInv, BootReceipts
    <2>2. PICK c : UNCHANGED vars \/ PlainNack(hand, c)
        BY <1>10 DEF apply_nack, Refuse
    <2> QED
        BY <1>2, <2>1, <2>2, NackLeavesProven
<1>11. CASE ReviveListed
    BY <1>1, <1>2, <1>11 DEF ReviveListed, revive_agent, Refuse
<1>12. CASE \E i \in AttemptIds : activation_sweep(i)
    <2>1. PICK i \in AttemptIds : activation_sweep(i)
        BY <1>12
    <2>2. /\ boot = "activate" /\ ticket.step = "idle" /\ i \in DOMAIN todo
          /\ UNCHANGED vars \/ \E c : nack_preserving_physical_history(i, c)
        BY <2>1 DEF activation_sweep, NoTicket
    <2>3. i # id
        <3>1. Seen(i) /\ ~Nacking(i)
            BY <2>2 DEF Well, Pass, Watch, Nacking
        <3> QED
            BY <3>1 DEF Seen, Proven
    <2> QED
        BY <1>2, <2>2, <2>3, NackPreservingClosesOne
<1> QED
    BY <1>4, <1>5, <1>6, <1>7, <1>8, <1>9, <1>10, <1>11, <1>12 DEF Startup

\* The observer at work during the activation.
LEMMA ApplyLeavesOpen ==
    ASSUME RInv, Well, Apply, NEW id \in AttemptIds, Proven(id)
    PROVE  LeftOpen(id)
<1> USE Zenon
<1>1. ASSUME attempts' = attempts PROVE LeftOpen(id)
    BY <1>1 DEF LeftOpen
<1>2. ASSUME UNCHANGED vars PROVE LeftOpen(id)
    BY <1>2 DEF vars, LeftOpen
<1>3. ASSUME NEW h, NEW state, NEW classed, record_physical_outcome(h, state, classed, FALSE, FALSE)
      PROVE  LeftOpen(id)
    <2>1. attempts' = attempts
        BY ZenonT(60), <1>3 DEF record_physical_outcome
    <2> QED
        BY <1>1, <2>1
<1>4. CASE ApplyLost \/ ApplyEnded
    BY <1>2, <1>3, <1>4 DEF ApplyLost, ApplyEnded, RecordEnd, ObserverFails
<1>5. CASE nack_current
    <2>1. ticket.step # "idle"
        BY <1>5 DEF nack_current
    <2>2. ticket.id \in AttemptIds
        BY <2>1 DEF RInv, LInv, Receipts, Well, Watch
    <2>3. PICK c : UNCHANGED vars \/ PlainNack(ticket.id, c)
        BY <1>5 DEF nack_current, ObserverFails
    <2> QED
        BY <1>2, <2>2, <2>3, NackLeavesProven
<1> QED
    BY <1>4, <1>5 DEF Apply

\* Durable evidence of success decides its attempt: while its lease holds, the steps of a
\* startup complete the task, or suspend it when its writer is not known to have stopped.
THEOREM SuccessDecides == RecSpec => EvidenceDecides
<1>1. ASSUME RInv, NInv, [RecNext]_recVars, NEW id \in AttemptIds,
             boot # "up", Proven(id), attempts'[id].state # "ACTIVE"
      PROVE  DecidedBy(id, executions[id].quiescent)
    <2>1. attempts[id].state = "ACTIVE"
        BY Zenon, <1>1, LeaseIsAuthority DEF Proven, validate_authority
    <2>2. ~LeftOpen(id)
        BY Zenon, <1>1, <2>1 DEF LeftOpen
    <2>3. CASE UNCHANGED vars
        BY Zenon, <2>2, <2>3 DEF vars, LeftOpen
    <2>4. CASE World
        <3>1. attempts' = attempts
            BY Zenon, <2>4 DEF World, Processes, PhysicalStep, LeaseElapses, BackoffElapses, vars
        <3> QED
            BY Zenon, <2>2, <3>1 DEF LeftOpen
    <2>5. CASE Apply
        BY Zenon, <1>1, <2>2, <2>5, ApplyLeavesOpen DEF NInv
    <2>6. CASE Startup
        BY Zenon, <1>1, <2>2, <2>6, StartupDecides DEF NInv
    <2> QED
        BY Zenon, <1>1, <2>3, <2>4, <2>5, <2>6
        DEF RecNext, Crash, CrashAfterEvidence, recVars, allVars
<1>2. ASSUME RInv, NInv, [RecNext]_recVars
      PROVE  [\A id \in AttemptIds :
                 /\ boot # "up" /\ executions[id].state = "SUCCEEDED" /\ leases[id] = "ACTIVE"
                 /\ attempts'[id].state # "ACTIVE"
                 => \/ tasks'[id[1]].state = "COMPLETED"
                    \/ tasks'[id[1]].state = "SUSPENDED" /\ id[1] \in Writers /\ ~executions[id].quiescent]_recVars
    BY Zenon, <1>1, <1>2 DEF Proven, DecidedBy
<1> QED
    BY <1>2, RecoveryInvariant, RecoveryNInv, PTL DEF RecSpec, EvidenceDecides
=============================================================================
