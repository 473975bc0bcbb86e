SPECIFICATION Spec
CONSTANTS
    b1 = b1
    Transitions = {t1}
    Abortable = {t1}
    Nodes = {1, 2}
    BMCs = {b1}
    NoBMC = NoBMC
    Workers = {w1, w2}
    NoTask = NoTask
    PerBMC = 1
    RetryAttempts = 1
    QueueSize = 1
    TargetSets = {{1, 2}}
    DryRuns = {FALSE}
    MaxStoreFaults = 0
    MayDisconnect = FALSE
    MayShutdown = FALSE
    Mappings <- SharedOrMissing
INVARIANTS
    AbortedCountsSettle
