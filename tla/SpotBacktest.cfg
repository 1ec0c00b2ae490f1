SPECIFICATION Spec
CONSTANTS
    Price = {6, 8, 10}
    Spikes = {0, 5}
    Candles = 8
    CandlesPerDay = 4
    Latency = 2
    TimeExit = 3
    Configs <- MCConfigs
    PartialPercent = 50
    PartialR = 1
    BreakEvenR = 1
    Trail = 4
    MaxEntries = 2
    DailyLossPercent = 20
    PositionPercent = 60
    MinReward = 2
    Capital = 50
    Cost = 1
    Fee = 1
    Stops = {2}
    TargetR = 3
INVARIANTS
    BooksReconcile
    TraceIsHonest
PROPERTIES
    ProtectionHolds
CHECK_DEADLOCK FALSE
