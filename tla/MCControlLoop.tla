--------------------------- MODULE MCControlLoop ---------------------------
(* Instances of ControlLoop for TLC. *)
EXTENDS ControlLoop, TLC

CONSTANTS a1, t1, b1

OneTask == {t1}
OneBatch == {b1}
OneAgent == {a1}
OneTaskBatch == (t1 :> b1)
NoDependencies == (t1 :> {})
Classes == {"EXECUTION_LOST", "RESOURCE_UNAVAILABLE", "UNKNOWN"}
RetryLost == (t1 :> {"EXECUTION_LOST"})
TwoAttempts == (t1 :> 2)
AnyIsolation == {TRUE, FALSE}
Observations == {"UNKNOWN", "LOST", "TERMINATED"}
=============================================================================
