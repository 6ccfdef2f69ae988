SPECIFICATION Spec
CONSTANTS
    Requests = {r1, r2}
    Tasks = {t1, t2}
    Keys = {k1}
    Ttl = 2
    MaxVerify = 1
    MaxRow = 2
    MaxTime = 5
    Revoked = Revoked
    Nothing = Nothing
SYMMETRY Symmetric
INVARIANTS
    AnswersRight
    CacheInv
PROPERTIES
    StaleBound
