CONSTANTS
    Attempts = 2
    Cycles = 2
    Faults = {"lost"}
SPECIFICATION Spec
INVARIANT
    StopLossOnEveryPosition
CHECK_DEADLOCK FALSE
