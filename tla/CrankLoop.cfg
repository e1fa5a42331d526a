SPECIFICATION FairSpec
CONSTANTS
    TotalTeeth = 16
    MissingTeeth = 1
    NormalEdges = 15
    MaxTooth = 300
    CounterMax = 2
    Period = 5
    CamTooth = 13
    FiringOrder <- Four
    Lead = 90
    QueueCap = 8
    Speeds = {1, 2}
    Decelerations = {TRUE, FALSE}
    SparkCuts = {TRUE, FALSE}
    None = None
INVARIANTS
    FuelIsBounded
    CutLasts
    QueueSuffices
    PhaseIsTrue
PROPERTIES
    LoopYields
