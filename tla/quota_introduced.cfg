SPECIFICATION Spec
CONSTANTS
    r1 = r1
    r2 = r2
    r3 = r3
    t1 = t1
    k1 = k1
    k2 = k2
    m1 = m1
    w1 = w1
    Requests = {r1, r2, r3}
    Tenants = {t1}
    IdemKeys = {k1, k2}
    Meters = {m1}
    Windows = {w1}
    MaxQuantity = 2
    MaxLimit = 3
    Ops = {"post", "put"}
    InitialLimits = {0}
    Nobody = Nobody
    NoRow = NoRow
SYMMETRY Symmetric
PROPERTIES
    StrictEnforcement
CHECK_DEADLOCK FALSE
