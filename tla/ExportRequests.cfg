SPECIFICATION FairSpec
CONSTANTS
    v1 = v1
    v2 = v2
    Names = {v1, v2}
    NoName = NoName
    Requests = {r1}
    CRDs <- MCCRDs
    None = None
    MaxOps = 2
PROPERTIES
    ImplementsService
    EveryRequestIsAnswered
    ExportFollowsCRD
