SPECIFICATION Spec
CONSTANTS
    Configs <- MCConfigs
    NormalPercent = 20
    DefensivePercent = 10
    PositionPercent = 100
    Cost = 0
    Fee = 1
    Buffer = 0
    Price = {30, 60}
    Spikes = {0, 25}
    Rates = {1}
    Stops = {10}
    Days = 8
    Hours = 1
    Capital = 200
    LiquidationFee = 1
    Maintenance = 5
INVARIANTS
    BooksReconcile
    RiskFollowsTheLog
    DayIsHonest
CHECK_DEADLOCK FALSE
