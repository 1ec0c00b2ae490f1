SPECIFICATION Spec
CONSTANTS
    Price <- MCPrice
    Kinds <- MCKinds
    MaxId = 3
    MarketAt <- MCMarket
    SnapshotDepth = 0
    Copies = {1, 2}
INVARIANTS
    BookConsistent
    CompleteBufferAligns
PROPERTIES
    OnlySnapshotsRestore
