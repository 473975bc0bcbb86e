SPECIFICATION Spec
CONSTANTS
    b1 = b1
    Transitions = {t1}
    Abortable = {t1}
    Nodes = {1, 2}
    BMCs = {b1}
    NoBMC = NoBMC
    Workers = {w1, w2}
    NoTask = NoTask
    PerBMC = 1
    RetryAttempts = 2
    QueueSize = 1
    TargetSets <- AnyTargets
    DryRuns = {TRUE, FALSE}
    MaxStoreFaults = 1
    MayDisconnect = TRUE
    MayShutdown = TRUE
    Mappings <- SharedOrMissing
SYMMETRY WorkerSymmetry
INVARIANTS
    TypeOK
    OutstandingTaskIsLive
    ProgressCountsOutcomes
    SettledRowIsVerdict
    OutboxFollowsRows
    ActionsBounded
    SuccessMeansPatched
    BMCLimit
    TaskInOnePlace
PROPERTIES
    OnlyAbortRewritesFinalRow
    NoActionAfterAbort
    ImplementsLifecycle
