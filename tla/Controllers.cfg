SPECIFICATION PartsSpec
CONSTANTS
    None = None
    Target = {SparkCut, TimingFix, FuelCut}
    Outputs = {SparkCut, TimingFix}
    Wrap = 16
    Step = 2
    MaxTimeout = 3
    Timeouts = {0, 2, 5}
    Lapses = {1}
    MaxCode = 3
    MaxInput = 6
    Delay = 3
    Pause = 4
    Duration = 2
    Gaps = {1, 4}
    Steps = {1, 3}
    Gain = 1
    MaxIntegral = 2
    MaxCorrection = 2
    MaxTrim = 1
    MinSamples = 2
    Cells = {cruise}
    Prime = 2
    ShutdownDelay = 3
    Lengths = {0, 1}
    CrankDuty = 2
    MaxDuty = 3
    Abnormal = 1
    CrankTimeout = 4
    Grace = 1
    RetryDelay = 2
    PumpRun = 3
    StartTimeout = 3
    Top = 3
    Shift = 3
    Count = 3
    Timeout = 3
    Dry = 3
    Climb = 2
    MaxStep = 2
    MaxDwell = 3
    MaxRetard = 3
    Rate = 1
    LongestStep = 1
    Hundred = 4
    Turns = 18
    MaxSparks = 3
    Threshold = 5
    BootTimeout = 3
    MaxFirmware = 4
    RollbackEnabled = TRUE
    MaxAttempts = 1
    Chunks = {1, 2}
    Updates = {1, 2}
    Ports = 2
    Pressures = {0, 1}
    TaperCycles = 4
    CrankingFuel = 6
    RestTime = 3
    RestEnabled = TRUE
    MinPulse = 2
    MaxPulse = 8
    Present = 3
    SyncEdge = "Rise"
    Intervals = {1, 2, 6, 9}
    MaxTooth = 8
    MinWidth = 3
    Stability = 2
    Required = 4
    Speeds = {1, 2}
    MaxError = 1
    Bases = {0, 2}
    Passes = {0, 1}
    OnTemp = 18
    OffTemp = 17
    SecondaryOn = 19
    AcOn = 16
    Temps = {15, 16, 17, 18, 19, 20}
    Wired = {"Clt", "Iat", "Tps", "Map", "Vbatt"}
    Raw = {0, 1000, 2500, 4095}
    MaxPasses = 3
    Volts = {0, 449, 500, 1000, 2500, 3299, 4500, 5000, 5500}
    QueueRoom = 2
    Fifo = 1
    Pids = {0, 12, 33}
    MaxFrames = 2
    MaxRounds = 2
    Values = {0, 700, 39999, 85000, 99900, 215000, 255000, 300000, 655350, 9000000}
INVARIANTS
    RoundTrip
    CutIsEarned
    ReadingIsTheMean
    ConditionsAreCurrent
    TimesAreKept
    GuardsHold
PROPERTIES
    OverridesFailSafe
    CutTeachesNothing
    PumpOutlastsPauses
    ShiftIsWhole
CHECK_DEADLOCK FALSE
