CONSTANTS
    Attempts = 2
    Cycles = 2
    Faults = {"lost", "cancelled", "killed", "hook"}
SPECIFICATION FairSpec
INVARIANTS
    ExposureHasCause
    ReportMatchesExchange
    OrdersPerAttempt
    ClosesAreBooked
PROPERTIES
    EveryCycleEnds
CHECK_DEADLOCK FALSE
