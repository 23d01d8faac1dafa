CONSTANTS
    e1 = e1
    e2 = e2
    Executions <- TwoExecutions
    Lease = 3
    Heartbeat = 2
    Freshness = 2
SPECIFICATION SupSpec
SYMMETRY AnyOrder
INVARIANTS
    ScheduledBeforeExpiry
PROPERTIES
    RenewedOnFreshEvidence
    FreshIsNotRevoked
CHECK_DEADLOCK FALSE
