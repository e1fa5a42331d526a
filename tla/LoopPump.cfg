SPECIFICATION FairSpec
CONSTANTS
    Prime = 2
    ShutdownDelay = 3
    Lengths = {0, 1}
    CrankDuty = 2
    MaxDuty = 3
    Abnormal = 0
PROPERTIES
    PumpStops
