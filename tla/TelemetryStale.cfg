\* EveryStreamServed is refuted with SPECIFICATION FairSpec, Drain = FALSE and PROPERTY EveryStreamServed.
SPECIFICATION Spec
CONSTANTS
    MaxStreams = 2
    Layouts = {rpm, temps}
    Intervals = {1, 2}
    SeqMod = 2
    Drain = TRUE
    Delays = {1}
    MaxInFlight = 1
    HostRestarts = FALSE
    None = None
INVARIANTS FramesFitSubscription
