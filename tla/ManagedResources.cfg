SPECIFICATION FairSpec
CONSTANTS
    IDs = {i1, i2}
    UID = UID
    None = None
    Endpoints <- MCEndpoints
    Contents <- MCContents
    Claims <- MCClaims
    Optional = FALSE
    MaxOps = 2
INVARIANTS
    CreatedOnce
    NothingLeftBehind
PROPERTY Settles
CHECK_DEADLOCK FALSE
