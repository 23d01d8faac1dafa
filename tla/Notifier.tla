------------------------------ MODULE Notifier ------------------------------
(***************************************************************************)
(* The notification outbox and the notifier thread that delivers it to     *)
(* Root (agentype-storage-sqlite kernel.rs, agentype-runtime notifier.rs). *)
(*                                                                         *)
(* The bridge is called between two transactions: candidates are read,     *)
(* each is delivered, and the result is committed.  Root acknowledges at   *)
(* any moment, and the daemon may crash at any moment.                     *)
(*                                                                         *)
(* queue is the PENDING events in the order of due_outbox, wait the time   *)
(* that is left until the next_delivery_at of each.  An event enters at    *)
(* the present time, after all that are due; a failed one re-enters after  *)
(* its backoff.                                                            *)
(***************************************************************************)
EXTENDS Naturals, Sequences, SequencesExt, FiniteSets

CONSTANTS
    Events,       \* the events that transactions enqueue
    batch_limit,  \* of NotifierConfig
    max_delay     \* of NotifierRetryPolicy, in units of base_delay

ASSUME NotifierAssumption ==
    /\ IsFiniteSet(Events)
    /\ batch_limit \in Nat \ {0}
    /\ max_delay \in Nat \ {0}

VARIABLES
    outbox,      \* the state of every event
    queue,       \* the PENDING events in the order of next_delivery_at
    wait,        \* the time until next_delivery_at; 0 when it has come
    attempts,    \* delivery_attempts, as far as the backoff tells them apart
    thread,      \* what the notifier does next, or how it ended
    candidates,  \* the events read and not yet delivered; the first is in hand
    received     \* the events that reached Root

store == <<outbox, queue, wait, attempts>>
memory == <<thread, candidates>>
vars == <<outbox, queue, wait, attempts, thread, candidates, received>>

OutboxState == {"NONE", "PENDING", "DELIVERED", "ACKED"}
Calling == {"call", "commit success", "commit failure"}
Down == {"stopped", "failed", "crashed"}
Pending == {e \in Events : outbox[e] = "PENDING"}

TypeOK ==
    /\ outbox \in [Events -> OutboxState]
    /\ queue \in Seq(Events) /\ ToSet(queue) = Pending /\ Len(queue) = Cardinality(Pending)
    /\ wait \in [Events -> 0..max_delay]
    /\ \A i, j \in DOMAIN queue : i < j => wait[queue[i]] <= wait[queue[j]]
    /\ attempts \in [Events -> 0..max_delay]
    /\ thread \in {"poll", "next"} \cup Calling \cup Down
    /\ candidates \in Seq(Events) /\ Len(candidates) <= batch_limit
    /\ thread \in Calling => candidates # <<>>
    /\ received \in SUBSET Events

Init ==
    /\ outbox = [e \in Events |-> "NONE"]
    /\ queue = <<>>
    /\ wait = [e \in Events |-> 0] /\ attempts = [e \in Events |-> 0]
    /\ thread = "poll" /\ candidates = <<>>
    /\ received = {}

----------------------------------------------------------------------------
(* The outbox *)

\* The places in a queue for an event that has to wait for d.
Places(q, d) ==
    {i \in 1..(Len(q) + 1) : /\ \A j \in 1..(i - 1) : wait[q[j]] <= d
                             /\ \A j \in i..Len(q) : wait[q[j]] >= d}

\* base_delay doubles with every attempt up to max_delay.
delay_for(n) == IF 2^(n - 1) < max_delay THEN 2^(n - 1) ELSE max_delay

\* Attempts beyond the longest backoff are not told apart.
Attempted(e) ==
    attempts' = [attempts EXCEPT ![e] = IF @ < max_delay THEN @ + 1 ELSE @]

enqueue_event(e) ==
    /\ outbox[e] = "NONE"
    /\ outbox' = [outbox EXCEPT ![e] = "PENDING"]
    /\ queue' = InsertAt(queue, Cardinality({f \in Pending : wait[f] = 0}) + 1, e)
    /\ UNCHANGED <<wait, attempts, memory, received>>

\* Root acknowledges a DELIVERED event, or a PENDING one that it found by itself.
ack_outbox(e) ==
    /\ outbox[e] \in {"PENDING", "DELIVERED"}
    /\ outbox' = [outbox EXCEPT ![e] = "ACKED"]
    /\ queue' = Remove(queue, e)
    /\ UNCHANGED <<wait, attempts>>
    /\ UNCHANGED <<memory, received>>

TimePasses ==
    /\ \E e \in Pending : wait[e] > 0
    /\ wait' = [e \in Events |-> IF wait[e] > 0 THEN wait[e] - 1 ELSE 0]
    /\ UNCHANGED <<outbox, queue, attempts, memory, received>>

----------------------------------------------------------------------------
(* The thread *)

due_outbox ==
    LET due == SelectSeq(queue, LAMBDA e : wait[e] = 0)
    IN  /\ thread = "poll"
        /\ thread' = "next"
        /\ candidates' = SubSeq(due, 1, IF Len(due) < batch_limit THEN Len(due) ELSE batch_limit)
        /\ UNCHANGED <<store, received>>

\* The thread takes the next candidate, or goes back to the outbox.
NextCandidate ==
    /\ thread = "next"
    /\ thread' = IF candidates = <<>> THEN "poll" ELSE "call"
    /\ UNCHANGED <<candidates, store, received>>

\* The bridge answers: Ok proves that Root was reached; an error (a deadline, say)
\* proves nothing.
Delivers ==
    /\ thread = "call"
    /\ thread' = "commit success" /\ received' = received \cup {Head(candidates)}
    /\ UNCHANGED <<candidates, store>>

Errs ==
    /\ thread = "call"
    /\ thread' = "commit failure" /\ received' \in {received, received \cup {Head(candidates)}}
    /\ UNCHANGED <<candidates, store>>

Delivered(e) ==
    /\ outbox' = [outbox EXCEPT ![e] = "DELIVERED"]
    /\ queue' = Remove(queue, e)
    /\ Attempted(e) /\ UNCHANGED wait

\* Mutant: the commit does not look at the state it finds.
SuccessBlindly(e) == Delivered(e)

\* Mutant: the success is not committed.
SuccessUncommitted(e) == UNCHANGED store

commit_outbox_delivery_success(e) == IF e \in Pending THEN Delivered(e) ELSE UNCHANGED store

\* The backoff is counted from the end of the call.
commit_outbox_delivery_failure(e) ==
    LET delay == delay_for(attempts[e] + 1)
        others == Remove(queue, e)
    IN  IF e \in Pending
        THEN /\ wait' = [wait EXCEPT ![e] = delay]
             /\ \E i \in Places(others, delay) : queue' = InsertAt(others, i, e)
             /\ Attempted(e) /\ UNCHANGED outbox
        ELSE UNCHANGED store

CommitDelivery ==
    /\ \/ thread = "commit success" /\ commit_outbox_delivery_success(Head(candidates))
       \/ thread = "commit failure" /\ commit_outbox_delivery_failure(Head(candidates))
    /\ thread' = "next" /\ candidates' = Tail(candidates)
    /\ UNCHANGED received

\* A panicking bridge or a transaction that the store refuses ends the thread and
\* fails the gate; a refused transaction changes nothing.
Fails ==
    /\ thread \in {"poll"} \cup Calling
    /\ thread' = "failed" /\ candidates' = <<>>
    /\ UNCHANGED <<store, received>>

\* request_stop takes effect between two candidates.
Stops ==
    /\ thread \in {"poll", "next"}
    /\ thread' = "stopped" /\ candidates' = <<>>
    /\ UNCHANGED <<store, received>>

Crash ==
    /\ thread \notin Down
    /\ thread' = "crashed" /\ candidates' = <<>>
    /\ UNCHANGED <<store, received>>

\* A new daemon on the same store.
start ==
    /\ thread \in Down
    /\ thread' = "poll" /\ candidates' = <<>>
    /\ UNCHANGED <<store, received>>

Works == due_outbox \/ NextCandidate \/ Delivers \/ Errs \/ CommitDelivery

Next ==
    \/ \E e \in Events : enqueue_event(e) \/ ack_outbox(e)
    \/ TimePasses
    \/ Works
    \/ Fails \/ Stops \/ Crash \/ start

Spec == Init /\ [][Next]_vars

\* The thread keeps polling, the bridge returns within its budget, and time passes.
Polling == WF_vars(Works) /\ WF_vars(TimePasses)

FairSpec == Spec /\ Polling

\* Root can be reached again and again: a delivery that is tried for ever succeeds.
Reachable(e) == SF_vars(Delivers /\ Head(candidates) = e)

----------------------------------------------------------------------------
(* What is checked *)

\* The outbox tells the truth, whatever crashed and whatever was retried or acknowledged
\* while a call was under way: an event becomes DELIVERED only if it reached Root, a late
\* commit never takes an acknowledgement back, and only an acknowledgement ends a
\* DELIVERED event.
OutboxIsTrue ==
    [][\A e \in Events :
          /\ outbox'[e] = "DELIVERED" => e \in received'
          /\ outbox[e] = "ACKED" => outbox'[e] = "ACKED"
          /\ outbox[e] = "DELIVERED" => outbox'[e] \in {"DELIVERED", "ACKED"}]_vars

\* At least once, and nobody is starved by others that keep failing: an event for which
\* Root can be reached is delivered or acknowledged in the end, however small the batch,
\* unless the notifier goes down for ever or again and again.
AtLeastOnce ==
    \A e \in Events :
        Reachable(e) => (e \in Pending ~> e \notin Pending \/ []<>(thread \in Down))

=============================================================================
