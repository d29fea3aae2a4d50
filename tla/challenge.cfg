CONSTANTS
    Undefined = Undefined  Null = Null
    n1 = n1  n2 = n2
    Nonce = {n1, n2}
    PinnedKey = "pinned"
    Skews <- Offsets
    window_ms = 2
    max_clock_skew_ms = 1
    MaxTime = 3
SPECIFICATION Spec
CHECK_DEADLOCK FALSE
INVARIANTS GenuineIsVerified
