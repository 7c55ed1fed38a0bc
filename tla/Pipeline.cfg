CONSTANTS
    w1 = w1
    w2 = w2
    BTC = BTC
    ETH = ETH
    Coins <- MCCoins
    Workers <- MCWorkers
    MaxOpen = 1
    MaxFaults = 1
    MaxCycles = 2
    MaxManual = 1
    MaxEvents = 1
SPECIFICATION Spec
SYMMETRY Symmetry
INVARIANTS
    RowTellsTheTrade
    HaltStopsTheQueue
    PositionsBounded
CHECK_DEADLOCK FALSE
