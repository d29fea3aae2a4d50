CONSTANTS
    Undefined = Undefined  Null = Null
    PinnedKey = "pinned"
    Lifetime = 1
    MaxTime = 2
SPECIFICATION Spec
CHECK_DEADLOCK FALSE
INVARIANTS RelayedIsAccepted
