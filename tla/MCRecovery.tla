----------------------------- MODULE MCRecovery -----------------------------
(* Instances of Recovery for TLC. *)
EXTENDS Recovery, TLC

CONSTANTS a1, t1, b1

OneTask == {t1}
OneBatch == {b1}
OneAgent == {a1}
OneTaskBatch == (t1 :> b1)
NoDependencies == (t1 :> {})
Classes == {"EXECUTION_LOST", "RESOURCE_UNAVAILABLE", "UNKNOWN"}
RetryLost == (t1 :> {"EXECUTION_LOST"})
TwoAttempts == (t1 :> 2)
Shared == {FALSE}
Observations == {"UNKNOWN", "LOST", "RUNNING", "SUCCEEDED", "FAILED", "TERMINATED"}
=============================================================================
