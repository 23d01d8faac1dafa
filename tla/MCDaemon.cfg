CONSTANTS
    e1 = e1
    Executions <- OneExecution
SPECIFICATION DaemonSpec
PROPERTIES
    KeepsItsPromise
    ReadyIsSupervised
    FailuresAreReal
CHECK_DEADLOCK FALSE
