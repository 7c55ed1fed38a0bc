CONSTANTS
    Signals = {s1}
    Workers = 1
    Monitors = {m1, m2}
    Legacy = legacy
    Risks = {1, 2}
    Budget = 2
    Limit = 3
    FastExit = TRUE
    RiskSizing = TRUE
    MaxFaults = 1
SPECIFICATION FairSpec
PROPERTIES
    ClosedOnce
    ExpiredTradeCloses
