CONSTANTS
    None = None
    a1 = a1  a2 = a2  g1 = g1  g2 = g2
    Call = {a1, a2}
    Query = {g1, g2}
SPECIFICATION FairSpec
CHECK_DEADLOCK FALSE
INVARIANTS TypeOK PendingExact
PROPERTIES CallsSettle QueriesSettle
