----------------------------- MODULE MCNotifier -----------------------------
(* Instances of Notifier for TLC. *)
EXTENDS Notifier

CONSTANTS e1, e2, e3

ThreeEvents == {e1, e2, e3}
=============================================================================
