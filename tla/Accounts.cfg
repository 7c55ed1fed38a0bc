CONSTANTS
    BTC = BTC
    ETH = ETH
    Signals <- MCSignals
    Prices <- MCPrices
    Ratios = {50}
    InitialBalance = 10000000
    RiskPct = 1
    DailyPct = 2
    WeeklyPct = 3
    PortfolioPct = 10
    MaxPositions = 2
    FeePerMille = 1
    MinNotional = 100
    Hours = {0}
    Cooldown = 1
    Day = 1
    Week = 2
    MaxTrades = 4
    MaxTime = 1
    r1 = r1
    r2 = r2
    Requests <- TwoRequests
    MaxAccounts = 1
    MaxOrders = 2
    MaxMishaps = 2
SPECIFICATION BothSpec
SYMMETRY Alike
INVARIANTS
    BooksBalance
    StopsCover
PROPERTIES
    GrowsWithinLimits
CHECK_DEADLOCK FALSE
