SPECIFICATION SBFairSpec
CONSTANTS
    v1 = v1
    v2 = v2
    Names = {v1, v2}
    NoName = NoName
    Exports <- MCExports
    Contents = {"noNamespace", "valid"}
    ControlPlaneMode = FALSE
    Nothing = Nothing
    NoCondition = NoCondition
    MaxSBOps = 2
PROPERTIES
    ForeignCRDsAreKept
    ConditionsAreKept
    
