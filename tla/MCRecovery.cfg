CONSTANTS
    a1 = a1
    t1 = t1
    b1 = b1
    NoTask = NoTask
    NoAgent = NoAgent
    Tasks <- OneTask
    Batches <- OneBatch
    Agents <- OneAgent
    BatchOf <- OneTaskBatch
    DependsOn <- NoDependencies
    Isolation <- Shared
    Writers <- OneTask
    FailureClass <- Classes
    RetryClasses <- RetryLost
    MaxAttempts <- TwoAttempts
    Ephemeral = FALSE
    MaxClaims = 2
    MaxGenerations = 2
    Observable <- Observations
    MaxCapacity = 1
SPECIFICATION RecSpec
INVARIANTS
    RefusesOnlyContradictions
PROPERTIES
    EvidenceDecides
    StaleClaimsAreHistory
    ImplementsKernel
