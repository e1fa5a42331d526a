SPECIFICATION Spec
CONSTANTS
    Out = 2048
    FrameOut = 2304
    Reassembly = 4096
    RequestRoom = 1024
    KeyLength = 24
    LabelLength = 24
    UnitLength = 6
    Counts = {8}
    None = None
INVARIANTS
    RefusalIsSurfaced
CHECK_DEADLOCK FALSE
