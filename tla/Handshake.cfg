SPECIFICATION FairSpec
CONSTANTS
    Sessions = {s1, s2}
    None = None
    MaxOps = 1
INVARIANTS
    HandedOutIsComplete
    BindingIsGranted
PROPERTIES
    CommandEnds
CHECK_DEADLOCK FALSE
