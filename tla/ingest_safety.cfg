SPECIFICATION Spec
CONSTANTS
    r1 = r1
    r2 = r2
    r3 = r3
    r4 = r4
    t1 = t1
    k1 = k1
    k2 = k2
    m1 = m1
    w1 = w1
    Requests = {r1, r2, r3, r4}
    Tenants = {t1}
    IdemKeys = {k1, k2}
    Meters = {m1}
    Windows = {w1}
    MaxQuantity = 2
    MaxLimit = 3
    Ops = {"post", "put", "delete"}
    InitialLimits = {0, 3}
    Nobody = Nobody
    NoRow = NoRow
SYMMETRY Symmetric
INVARIANTS
    RollupMatchesEvents
    Idempotent
    NoIdempotencyRace
    NoCircularWait
    LedgerFaithful
    CheckedWithinLimit
    RejectionJustified
    IndInv
PROPERTIES
    AppendOnly
    EnforcedUntilIntroduced
    ImplementsLedger
    ImplementsTable
CHECK_DEADLOCK FALSE
