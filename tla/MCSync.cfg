SPECIFICATION FairSyncSpec
CONSTANTS
    Nodes = {11, 12}
    BMCs = {1, 2}
    NoParent = NoParent
    PageSize = 2
    NoAddress = NoAddress
    Credentials = {c1, c2}
    NoCredential = NoCredential
    DefaultCredential = c1
    SyncOnStartup = TRUE
    Callers = {k1}
    NoCaller = NoCaller
    None = None
    MaxChanges = 2
    MaxFaults = 1
    MaxRestarts = 1
    MayBindDuringSync = FALSE
    MayShutdown = TRUE
    ComponentLists <- SmallComponents
    InterfaceLists <- SmallInterfaces
INVARIANTS
    SyncTypeOK
    TagsDescribeTables
    LinksHaveEndpoints
    BoundCredentialKept
PROPERTIES
    ForcedSyncIsFresh
    MappedNodesStayMapped
    TablesConverge
    LoopStops
CHECK_DEADLOCK FALSE
