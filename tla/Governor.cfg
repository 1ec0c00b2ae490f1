SPECIFICATION GovernorSpec
CONSTANTS
    MaxDailyLoss = 2
    MaxLosses = 2
    Cooldown = 2
    DayLength = 3
    MaxTrade = 2
    MaxPnl = 3
    MaxCount = 4
    FinalInstant = 7
INVARIANTS
    GateConsistent
PROPERTIES
    OnlyNewDayReactivates
