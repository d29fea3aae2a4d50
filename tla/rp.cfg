CONSTANTS
    None = None
    Undefined = Undefined  Null = Null
    c1 = c1  c2 = c2  c3 = c3  c4 = c4  c5 = c5  c6 = c6  q1 = q1  q2 = q2  q3 = q3
    Cert = {c1, c2, c3, c4, c5, c6}
    Request = {q1, q2, q3}
    Body <- Bodies
    Issued <- Signed
    Issuer <- Keys
    ServerKey = "server key"
    RpId = "example.com"
    Tolerance = 2
    MaxTime = 3
    Routes = {"callback", "reauth", "middleware"}
SPECIFICATION FairSpec
CHECK_DEADLOCK FALSE
INVARIANTS TypeOK LetInGenuine SuiteHolds
PROPERTIES OnceWhileValid PassedOnlyUnused EntriesLeave
