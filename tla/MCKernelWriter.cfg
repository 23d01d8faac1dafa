CONSTANTS
    a1 = a1
    a2 = a2
    t1 = t1
    t2 = t2
    t3 = t3
    b1 = b1
    NoTask = NoTask
    NoAgent = NoAgent
    Tasks <- OneTask
    Batches <- OneBatch
    Agents <- TwoAgents
    BatchOf <- OneTaskBatch
    DependsOn <- NoDependencies
    Writers <- OneTask
    FailureClass <- Classes
    RetryClasses <- RetryLost
    MaxAttempts <- TwoAttempts
    Ephemeral = FALSE
    MaxClaims = 2
    MaxGenerations = 1
    Observable <- WriterObservations
    MaxCapacity = 1
SPECIFICATION Spec
SYMMETRY AgentSymmetry
INVARIANTS
    WriterExclusion
    SingleAuthority
    WriterQuarantine
PROPERTIES
    ObligationsAndEndsLast
