SPECIFICATION Spec
CONSTANTS
    Receivers = {"firmware"}
    SeqNumbers = 4
    Fragments = {1, 3}
    MaxRequests = 3
    MaxDamage = 1
    MaxPushes = 1
    None = None
INVARIANTS
    RecoversAtNextZero
CHECK_DEADLOCK FALSE
