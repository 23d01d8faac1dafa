--------------------------- MODULE MCSupervision ---------------------------
(* Instances of Supervision for TLC. *)
EXTENDS Supervision, TLC

CONSTANTS e1, e2

TwoExecutions == {e1, e2}
AnyOrder == Permutations(TwoExecutions)
=============================================================================
