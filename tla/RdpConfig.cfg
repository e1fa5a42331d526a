SPECIFICATION FairSpec
CONSTANTS
    Params <- MCParams
    StoppedOnly <- MCStoppedOnly
    ReadOnly = {}
    Counts <- MCStoppedOnly
    Geometry <- MCStoppedOnly
    UnknownParam = "unknown"
    Cells <- MCCells
    BadCell = "outside"
    AxisLen = 2
    Lo = 2
    Hi = 6
    Defaults <- MCDefaults
    Crc <- MCCrc
    HostRequests <- AllRequests
    MaxEpoch = 4
    None = None
INVARIANT CleanMeansSaved
INVARIANT FlashCrcMatches
INVARIANT ControlInSync
INVARIANT DecoderMatchesConfig
INVARIANT ControlInRange
PROPERTY OnlyDiscardMovesStoppedOnly
PROPERTY EditsReachControl
PROPERTY RequestsAnswered
