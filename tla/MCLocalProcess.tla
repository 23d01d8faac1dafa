--------------------------- MODULE MCLocalProcess ---------------------------
(* A request of either adapter and a stranger over one process number, so    *)
(* that the number is recycled; two threads that are alike, one death of the *)
(* daemon, births that collide and births that differ.                       *)
EXTENDS LocalProcess, TLC
CONSTANTS r1, stranger, p1, c1, c2

OneRequest == {r1}
OneStranger == {stranger}
OnePid == {p1}
TwoThreads == {c1, c2}
Threads == Permutations(TwoThreads)
=============================================================================
