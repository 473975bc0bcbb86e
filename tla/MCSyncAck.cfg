SPECIFICATION FairSyncSpec
CONSTANTS
    Nodes = {11, 12}
    BMCs = {1, 2}
    NoParent = NoParent
    PageSize = 3
    NoAddress = NoAddress
    Credentials = {c1}
    NoCredential = NoCredential
    DefaultCredential = c1
    SyncOnStartup = TRUE
    Callers = {k1}
    NoCaller = NoCaller
    None = None
    MaxChanges = 2
    MaxFaults = 1
    MaxRestarts = 0
    MayBindDuringSync = FALSE
    MayShutdown = FALSE
    ComponentLists <- SmallComponents
    InterfaceLists <- SmallInterfaces
PROPERTIES
    CacheFollowsSMD
CHECK_DEADLOCK FALSE
