SPECIFICATION Spec
CONSTANTS
    h1 = h1
    h2 = h2
    Handlers = {h1, h2}
    Capacity = 1
    Rate = 1
    Second = 2
    Ttl = 4
    MaxLag = 1
    MaxSkew = 1
    MaxFailovers = 1
    MaxTime = 5
    MaxRewound = 0
    MaxUnpaid = 1
    NoBucket = NoBucket
SYMMETRY Symmetric
INVARIANTS
    LimitWithRefunds
    LimitInv
PROPERTIES
    RetryAfterSuffices
