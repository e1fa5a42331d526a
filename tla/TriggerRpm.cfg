SPECIFICATION Spec
CONSTANTS
    TotalTeeth = 8
    MissingTeeth = 1
    NormalEdges = 7
    MaxTooth = 300
    CounterMax = 2
    Periods = {5, 6}
    Glitches = {3}
    Pauses = {4, 40, 400}
    CamTooth = 2
    MaxNoise = 0
    None = None
INVARIANTS RpmFromNormalTooth
