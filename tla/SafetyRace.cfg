CONSTANTS
    w1 = w1
    w2 = w2
    Second = 2
    Day = 3
    Week = 6
    Workers = {w1, w2}
    Recorders = {w1, w2}
    Jobs = {"record", "check", "resume", "risk"}
    Losses = {1, 2}
    Limits <- MCLimits
    Budget = 3
    Crashes = 1
SPECIFICATION MCFairSpec
INVARIANTS
    NoInventedLoss
PROPERTIES
    HaltSurvivesWhenAlone
    NoHaltForEver
