SPECIFICATION FairSpec
CONSTANTS
    r1 = r1
    r2 = r2
    r3 = r3
    t1 = t1
    t2 = t2
    k1 = k1
    m1 = m1
    w1 = w1
    Requests = {r1, r2, r3}
    Tenants = {t1, t2}
    IdemKeys = {k1}
    Meters = {m1}
    Windows = {w1}
    MaxQuantity = 2
    MaxLimit = 1
    Ops = {"post", "put", "delete"}
    InitialLimits = {1}
    Nobody = Nobody
    NoRow = NoRow
INVARIANTS
    IndInv
PROPERTIES
    EveryRequestAnswered
CHECK_DEADLOCK FALSE
