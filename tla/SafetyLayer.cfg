CONSTANTS
    Second = 2
    Day = 4
    Week = 8
    Losses = {0, 1, 2}
    Limits <- MCLimits
    LossCap = 4
    Raisable = {"global", "user", "cooldown", "emergency", "disconnect", "drawdown"}
    AdminResets = TRUE
    MaxRaised = 2
SPECIFICATION MCSpec
INVARIANTS
    LossLimitEnforced
    ExpiryTracksBoundary
    HaltKeepsTradingOff
PROPERTIES
    HaltHoldsUntilBoundary
    SwitchesAreLatches
