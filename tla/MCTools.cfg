\* All configurations and calls, two where they meet. The service may stop
\* for good.
SPECIFICATION FairSpec
CONSTANTS
    Calls = {1, 2}
    Environments <- AllEnvironments
    Requests <- MCRequests
    JWTs = {"roleJWT", "scpJWT"}
    Claims <- MCClaims
    RowIds = {"row1", "row2"}
    Members = {"m1", "m2"}
CONSTRAINT
    CallsMeet
INVARIANTS
    TypeOK
    OnlyAllowedEffects
    AuditedOnce
    SuccessRecordIsTrue
    TransportsAgree
PROPERTIES
    CallEnds
CHECK_DEADLOCK FALSE
