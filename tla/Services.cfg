SPECIFICATION PartsSpec
CONSTANTS
    None = None
    Code = {a, b, c}
    MaxFaults = 2
    MaxEvents = 1
    MaxPending = 1
    Receivers = {"simulator", "firmware"}
    SeqNumbers = 3
    Fragments = {1, 3}
    MaxRequests = 3
    MaxDamage = 1
    MaxPushes = 1
    Out = 2048
    FrameOut = 2304
    Reassembly = 4096
    RequestRoom = 1024
    KeyLength = 24
    LabelLength = 24
    UnitLength = 6
    Counts = {0, 8, 9}
    Keys = {ltft, other, third}
    Writer = {w1, w2}
    Slots = 2
    Room = 2
    Lengths = {1, 2, 3}
    LtftKey = ltft
    LtftLength = 2
    Bins = 3
    CellRange = {3, 4, 5}
    CellValues = {2, 4, 5}
    AxisValues = {1, 4, 6}
    Inputs = {0, 1, 2, 3, 5, 6, 7}
    MaxEdits = 3
    PageSize = 3
    FirstRdp = 8
    Factors = {1, 2, 3}
    Offsets = {0, 2}
    Sizes = {2, 3}
    MaxWrites = 2
    Names = {A, B}
    Custom = {ct}
    MaxLines = 5
    Arrays = {3}
    Numbers = {2, 3}
INVARIANTS
    HostFollowsFaults
    AnswersMatch
    DamageIsContained
    EditsActAsMeant
PROPERTIES
    ClearHitsWhatWasMeant
    CallsAreServed
    StorageIsAMap
SYMMETRY Symmetry
CHECK_DEADLOCK FALSE
