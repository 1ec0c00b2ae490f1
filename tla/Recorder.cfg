SPECIFICATION FairSpec
CONSTANTS
    Price <- MCPrice
    Kinds <- MCKinds
    Copies = {1}
    MaxId = 3
    MarketAt <- MCMarket
    SnapshotDepth = 0
    MaxReconnects = 1
    MaxFaults = 2
    MaxDrops = 1
INVARIANTS
    RecorderConsistent
PROPERTIES
    MirrorSpec
    EndsSynchronized
CHECK_DEADLOCK FALSE
