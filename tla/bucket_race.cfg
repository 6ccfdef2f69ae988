SPECIFICATION Spec
CONSTANTS
    h1 = h1
    h2 = h2
    h3 = h3
    Handlers = {h1, h2, h3}
    Capacity = 2
    Rate = 1
    Second = 2
    Ttl = 6
    MaxLag = 1
    MaxSkew = 0
    MaxFailovers = 0
    MaxTime = 4
    MaxRewound = 2
    MaxUnpaid = 0
    NoBucket = NoBucket
SYMMETRY Symmetric
INVARIANTS
    LimitRespected
