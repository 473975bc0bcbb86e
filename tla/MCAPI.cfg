SPECIFICATION APISpec
CONSTANTS
    b1 = b1
    g1 = g1
    t1 = t1
    Transitions = {t1, t2}
    Abortable = {t1}
    Readable = {t1}
    Nodes = {1, 2}
    BMCs = {b1}
    NoBMC = NoBMC
    Workers = {w1, w2}
    NoTask = NoTask
    PerBMC = 1
    RetryAttempts = 1
    QueueSize = 1
    TargetSets = {{}, {1}, {1, 2}}
    DryRuns = {FALSE}
    MaxStoreFaults = 0
    MaxCrashes = 1
    MaxEvents = 2
    MayDisconnect = TRUE
    MayShutdown = FALSE
    Mappings <- SharedBMC
    NodeSets <- FirstNode
    GroupSets <- OneGroup
    Memberships <- WholeGroup
    Unresolved = Unresolved
    BulkMaxNodes = 2
    PowerStates = {On, Off}
    NoState = NoState
    NoReader = NoReader
SYMMETRY APISymmetry
INVARIANTS
    BMCLimit
    TaskInOnePlace
    AnswerIsConsistent
    StatusMatchesSMD
PROPERTIES
    AcceptedAbortStops
CHECK_DEADLOCK FALSE
