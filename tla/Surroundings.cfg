CONSTANTS
    Length = 2
    Page = 2
    MaxTime = 8
    MaxDrops = 2
    MaxFailures = 1
    BatchSize = 2
    MaxMessages = 4
    MaxStops = 2
    MaxErrors = 1
    Bars <- MCBars
    Middle = 1000
    Scale = 32768
    RsiPeriod = 2
    AtrPeriod = 2
    BandPeriod = 5
    VolumePeriod = 3
    Fast = 2
    Slow = 4
    Smooth = 2
    Averages <- MCAverages
    Session = 3
    PivotWindow = 3
    NLevels = 2
    MinRows = 5
    LevelRows = 4
    MaxRows = 6
    ReplayBars <- MCReplayBars
    ReplaySignals <- MCReplaySignals
    Capital = 1000000
    Risk = 10
    FeePct = 1
    SlipPct = 25
    MaxOpen = 2
    MaxBars = 4
    Path <- MCPath
    MaxHoles = 2
    Plans <- MCPlans
    MaxSignals = 2
    Params = 2
    IsDays = 2
    OosDays = 3
    StepDays = 3
    MinTrades = 1
    WfCapital = 10000
    RiskPct = 2
    CommissionPct = 1
    SlippagePct = 1
    MaxLev = 5
    Lines <- MCLines
    MaxLines = 4
    Quotes = {98, 100, 103}
    Times <- MCTimes
    TakerFee = 4
    SlippageBps = 5
    FundingRate = 1
    FundingHours = 8
SPECIFICATION SurroundingsSpec
INVARIANTS
    HolesHaveCause
    AnalysedOnce
    BothWaysAlike
    ReportAddsUp
    WindowsDoNotLeak
    FiguresAreRight
    NetIsCashMoved
PROPERTIES
    EveryMessageEnds
CHECK_DEADLOCK FALSE
