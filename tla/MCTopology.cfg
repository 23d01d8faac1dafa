CONSTANTS
  p1 = p1
  p2 = p2
  p3 = p3
  a1 = a1
  a2 = a2
  k1 = k1
  k2 = k2
  None = None
  Partitions <- ThreePartitions
  Agents <- TwoAgents
  Tasks <- TwoTasks
  Configured <- FirstTwo
  Typed <- SecondTyped
  Target <- TwoTargets
  Ephemeral <- HereEphemeral
  MaxCapacity = 1
SPECIFICATION Spec
SYMMETRY AgentSymmetry
INVARIANT ReleaseNeverRefused
INVARIANT WorkIsPlaced
PROPERTY NobodyIsStuck
PROPERTY HostNeverAbandoned
