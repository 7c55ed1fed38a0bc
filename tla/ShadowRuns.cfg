CONSTANTS
    Signals = {s1, s2}
    Workers = 2
    Monitors = {m1}
    Legacy = legacy
    Risks = {1, 2}
    Budget = 2
    Limit = 3
    FastExit = TRUE
    RiskSizing = TRUE
    MaxFaults = 1
SPECIFICATION Spec
SYMMETRY Interchangeable
INVARIANTS
    OpenRiskBounded
    ExecutedHasTrade
    RefusalLeavesNothing
PROPERTIES
    RunsAreEntries
