CONSTANTS
    a1 = a1
    a2 = a2
    t1 = t1
    t2 = t2
    t3 = t3
    b1 = b1
    NoTask = NoTask
    NoAgent = NoAgent
    Tasks <- ThreeTasks
    Batches <- OneBatch
    Agents <- OneAgent
    BatchOf <- JoinBatch
    DependsOn <- Join
    Writers <- Nothing
    FailureClass <- Classes
    RetryClasses <- JoinRetry
    MaxAttempts <- JoinAttempts
    Ephemeral = FALSE
    MaxClaims = 1
    MaxGenerations = 2
    Observable <- RunningOnly
    MaxCapacity = 0
SPECIFICATION Spec
INVARIANTS
    DependenciesFirst
    BatchUpToDate
    HostExclusive
PROPERTIES
    FencedForever
