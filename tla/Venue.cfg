SPECIFICATION Spec
CONSTANTS
    Configs <- MCConfigs
    InitialCash = 2
    CancelLatency = 1
    MakerWait = 1
    Effects = {"OPEN_LONG", "CLOSE_LONG", "OPEN_SHORT"}
    Quantities = {1, 3}
    Expiries = {1}
    Books <- MCBooks
    Trades = {1, 3}
    MaxOrders = 2
    MaxTime = 2
INVARIANTS
    QuantitiesReconcile
    PositionMatchesFills
    EveryOrderEnds
PROPERTIES
    EndsAreFinal
CHECK_DEADLOCK FALSE
