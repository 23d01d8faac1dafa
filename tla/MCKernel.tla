------------------------------ MODULE MCKernel ------------------------------
(* Instances of Kernel for TLC. *)
EXTENDS Kernel, TLC

CONSTANTS a1, a2, t1, t2, t3, b1

OneTask == {t1}
OneBatch == {b1}
OneAgent == {a1}
TwoAgents == {a1, a2}

\* One write task that is retried when it is lost.
OneTaskBatch == (t1 :> b1)
NoDependencies == (t1 :> {})
Classes == {"EXECUTION_LOST", "RESOURCE_UNAVAILABLE"}
RetryLost == (t1 :> {"EXECUTION_LOST"})
TwoAttempts == (t1 :> 2)

WriterObservations == {"UNKNOWN", "LOST", "FAILED"}

\* t3 waits for t1 and t2.
ThreeTasks == {t1, t2, t3}
JoinBatch == [t \in ThreeTasks |-> b1]
Join == (t1 :> {} @@ t2 :> {} @@ t3 :> {t1, t2})
JoinRetry == [t \in ThreeTasks |-> {"EXECUTION_LOST"}]
JoinAttempts == [t \in ThreeTasks |-> 1]

Nothing == {}
RunningOnly == {"RUNNING"}

AgentSymmetry == Permutations(TwoAgents)
=============================================================================
