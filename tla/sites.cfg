CONSTANTS
    None = None
    t1 = t1  t2 = t2  o1 = o1  o2 = o2  r1 = r1  r2 = r2  k1 = k1  k2 = k2
    Tab = {t1, t2}
    Origin = {o1, o2}
    RpOf <- RpApart
    Req = {r1}
    Task = {k1, k2}
    Window = 1
    Life = 1
    Stale = 1
    MaxTime = 0
    Replies = {"issued", "revoked", "network"}
    Events = {"verify", "detect", "enroll", "revoke"}
    Sites0 <- MixedSites
    Roaming = {}
    Page0 <- Pages
SPECIFICATION Spec
SYMMETRY Symmetry
CHECK_DEADLOCK FALSE
INVARIANTS EnrolledOnlyConfirmed CallbackOfOwnOrigin RelayStaysInSite
