\* EngineStopNoticed is refuted with SPECIFICATION FairSpec, MaxEpoch = 3 and PROPERTY EngineStopNoticed.
SPECIFICATION Spec
CONSTANTS
    Params <- MCParams
    StoppedOnly <- MCStoppedOnly
    ReadOnly = {}
    Counts <- MCStoppedOnly
    Geometry <- MCStoppedOnly
    UnknownParam = "unknown"
    Cells <- MCCells
    BadCell = "outside"
    AxisLen = 2
    Lo = 2
    Hi = 6
    Defaults <- MCDefaults
    Crc <- MCCrc
    HostRequests <- FewRequests
    MaxEpoch = 4
    None = None
PROPERTY StoppedOnlyWhileStopped
