SPECIFICATION FairSpec
CONSTANTS
    Bindings = {b1}
    APIs = {a1, a2}
    Offered = {a1}
    Versions = {v1, v2}
    None = None
    MaxOps = 2
    x = x
    Wanted <- WantAll
    Ident <- Distinct
INVARIANT NoLeftovers
PROPERTY Settles
CHECK_DEADLOCK FALSE
