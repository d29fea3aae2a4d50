CONSTANTS
    None = None
    PROD_SERVER = prod
    dev = dev  k1 = k1  k2 = k2  i1 = i1  i2 = i2
    Override = {dev}
    Task = {k1, k2}
    Ticker = {i1, i2}
    MaxTime = 2
SPECIFICATION FairSpec
CHECK_DEADLOCK FALSE
INVARIANTS TypeOK OverrideAsChosen CountdownOwned
PROPERTIES ConfigFollows CountdownEnds
