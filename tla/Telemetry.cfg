SPECIFICATION FairSpec
CONSTANTS
    MaxStreams = 2
    Layouts = {rpm, temps}
    Intervals = {1, 2}
    SeqMod = 2
    Drain = TRUE
    Delays = {1}
    MaxInFlight = 1
    HostRestarts = TRUE
    None = None
INVARIANTS
    DecodedAsPacked
    KnownStreamsAreActive
PROPERTIES
    RateRespected
    EveryStreamServed
    RequestsAnswered
