SPECIFICATION FairSpec
CONSTANTS
    Plans = {"small", "big", "gone"}
    Catalog = {"small", "big"}
    Names = {"a", "b"}
    Values = {"unset", "x"}
    Reordered = {}
    Wanted <- MCWanted
    IDs = {i1, i2}
    Keys = {k1, k2, k3}
    None = None
    FailingOps = {"deploying", "updating", "deleting"}
    Crashes = TRUE
    MaxOps = 2
INVARIANT NoOrphan
PROPERTIES
    IDIsStable
    Settles
CHECK_DEADLOCK FALSE
