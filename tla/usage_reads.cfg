\* Two POSTs on a clock of half seconds, with hours of two seconds and days of
\* two hours: a day, and most of the next.
SPECIFICATION Spec
CONSTANTS
    p1 = p1
    p2 = p2
    c1 = c1
    c2 = c2
    m1 = m1
    Posts = {p1, p2}
    Customers = {c1, c2}
    Metrics = {m1}
    Limit <- OneQuota
    Second = 2
    Hour = 4
    Day = 8
    LookbackDays = 1
    Offsets = {0, 2}
    MaxSkew = 1
    MaxTime = 12
SYMMETRY Symmetric
INVARIANTS
    ReadsExact
    RecordedReadable
    UsageInv
PROPERTIES
    SettledIsFinal
    RetryLandsLater
CHECK_DEADLOCK FALSE
