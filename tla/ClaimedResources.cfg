SPECIFICATION CRFairSpec
CONSTANTS
    Data = {d1, d2}
    None = None
    MaxCROps = 3
PROPERTIES
    ProviderKeepsItsOwn
    CopiesConverge
CHECK_DEADLOCK FALSE
