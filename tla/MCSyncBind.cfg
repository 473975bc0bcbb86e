SPECIFICATION SyncSpec
CONSTANTS
    Nodes = {11, 12}
    BMCs = {1, 2}
    NoParent = NoParent
    PageSize = 3
    NoAddress = NoAddress
    Credentials = {c1, c2}
    NoCredential = NoCredential
    DefaultCredential = c1
    SyncOnStartup = TRUE
    Callers = {k1}
    NoCaller = NoCaller
    None = None
    MaxChanges = 2
    MaxFaults = 0
    MaxRestarts = 0
    MayBindDuringSync = TRUE
    MayShutdown = FALSE
    ComponentLists <- TwoNodes
    InterfaceLists <- OneInterface
INVARIANTS
    BoundCredentialKept
CHECK_DEADLOCK FALSE
