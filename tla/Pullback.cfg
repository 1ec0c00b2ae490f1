SPECIFICATION Spec
CONSTANTS
    None = None
    Candle <- MCCandle
    Persistence = 2
    MinCandles = 2
    MaxCandles = 3
    MinDepth = 1
    MaxDepth = 1
    MaxExtension = 4
    Directional = TRUE
    SpotRegimeExit = FALSE
    MaxFed = 8
INVARIANTS
    SetupsConsistent
    SetupNeedsTrend
PROPERTIES
    EntryAnswersDip
CHECK_DEADLOCK FALSE
