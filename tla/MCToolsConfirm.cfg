\* One call, all configurations: is every destructive operation confirmed?
SPECIFICATION FairSpec
CONSTANTS
    Calls = {1}
    Environments <- AllEnvironments
    Requests <- OneRequest
    JWTs = {"roleJWT", "scpJWT"}
    Claims <- MCClaims
    RowIds = {"row1", "row2"}
    Members = {"m1", "m2"}
INVARIANT
    DestructiveIsConfirmed
CHECK_DEADLOCK FALSE
