SPECIFICATION Spec
CONSTANTS
    Price = {6, 8}
    Spikes = {0, 5}
    Candles = 8
    CandlesPerDay = 3
    Latency = 2
    TimeExit = 2
    Cooldown = 3
    MaxEntries = 2
    Wallet = 40
    MinWallet = 2
    Leverage = 2
    RiskPercent = 50
    NotionalPercent = 80
    BufferPercent = 0
    DailyLossPercent = 30
    Cost = 0
    Fee = 1
    LiquidationFee = 2
    Maintenance = 1
    Rates = {0, 1}
    Stops = {2}
INVARIANTS
    BooksReconcile
    CandleIsHonest
PROPERTIES
    EntriesRespectRisk
CHECK_DEADLOCK FALSE
