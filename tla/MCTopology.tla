----------------------------- MODULE MCTopology -----------------------------
(* Three partitions on two targets, two of them ephemeral.                   *)
EXTENDS Topology, TLC

CONSTANTS p1, p2, p3, a1, a2, k1, k2

ThreePartitions == {p1, p2, p3}
TwoAgents == {a1, a2}
TwoTasks == {k1, k2}
SecondTyped == {k2}
FirstTwo == {p1, p2}
HereEphemeral == {p1, p3}
TwoTargets == p1 :> "here" @@ p2 :> "there" @@ p3 :> "here"
AgentSymmetry == Permutations({a1, a2})
=============================================================================
