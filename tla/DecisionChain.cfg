CONSTANTS
    Technicals <- MCTechnicals
    Markets <- MCMarkets
    Accounts <- MCAccounts
    MinScore = 7500
    Ids = {1, 2}
    Signals <- MCSignals
    Ticks = {195, 199, 213}
    Levels = {193, 206}
    Additions = {12, 24}
    Quantities = {4, 8}
    Atr = 1
    Contexts <- MCContexts
    Stats <- MCStats
    MaxOps = 3
    Requests <- MCRequests
    Balances = {0, 1000, 10000}
    Records <- MCRecords
    Traders <- MCTraders
    Orders <- MCOrders
SPECIFICATION DecisionSpec
INVARIANTS
    TradesFollowTheRegime
    LossIsBounded
    CostBasisHolds
    SizedLossIsBounded
    ApprovedSignalFits
PROPERTIES
    AddingKeepsRisk
    NewPositionFits
CHECK_DEADLOCK FALSE
