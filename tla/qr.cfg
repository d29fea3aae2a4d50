CONSTANTS
    None = None
    p1 = p1  p2 = p2  a1 = a1  a2 = a2  key1 = key1  key2 = key2
    Poll = {p1, p2}
    Attempt = {a1, a2}
    Key = {key1, key2}
SPECIFICATION QrSpec
CHECK_DEADLOCK FALSE
INVARIANTS QrTypeOK NoPollingAfterEnd UnlockedWasAttested ReturnedWasStored FingerprintStable
PROPERTIES SilentAfterDestroy GateEnds
