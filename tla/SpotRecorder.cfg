SPECIFICATION StreamFairSpec
CONSTANTS
    Price <- MCPrice
    Kinds <- MCKinds
    Copies = {1}
    MaxId = 3
    MarketAt <- MCMarket
    SnapshotDepth = 0
    StreamReconnects = 2
    StreamFaults = 3
INVARIANTS
    StreamConsistent
PROPERTIES
    StreamEndsSynchronized
CHECK_DEADLOCK FALSE
