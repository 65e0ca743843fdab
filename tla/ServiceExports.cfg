SPECIFICATION FairSpec
CONSTANTS
    Namespaces = {n1}
    None = None
    MaxOps = 2
INVARIANT OneSyncer
PROPERTIES
    SyncerFollowsExport
    StoppedSyncersEnd
    StatusFollowsConsumer
CHECK_DEADLOCK FALSE
