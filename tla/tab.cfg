CONSTANTS
    None = None
    t1 = t1  o1 = o1  v1 = v1  v2 = v2  k1 = k1
    Tab = {t1}
    Origin = {o1}
    Verification = {v1, v2}
    Task = {k1}
    Life = 1
    Soon = 2
    MaxLoads = 2
    MaxTime = 2
SPECIFICATION FairSpec
CHECK_DEADLOCK FALSE
INVARIANTS TypeOK ActiveEarned
PROPERTIES VerifyingEnds ErrorLeaves ExpiringShown
