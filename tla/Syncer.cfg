SPECIFICATION MCSpec
CONSTANTS
    Specs = {s1, s2}
    Statuses = {t1}
    NoStatus = NoStatus
    NoObj = NoObj
    OperatorActs = {"create", "update", "delete"}
    MaxOps = 3
INVARIANTS
    TypeOK
    FinalizerHeld
    SpecDeleteIsWanted
PROPERTIES
    DeleteDecisionIsWanted
    NoLostUpdate
    
    

