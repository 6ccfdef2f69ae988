\* Three requests of any kind and a pool of two connections: two exports that
\* are not read, or two POSTs of which one waits for the other's row, fill it.
SPECIFICATION FairSpec
CONSTANTS
    Requests = {r1, r2, r3}
    Kinds = {"service", "export", "ready", "live"}
    Connections = {c1, c2}
    Nobody = Nobody
INVARIANTS
    PoolAccounted
    NoHoldAndWait
    PoolInv
PROPERTIES
    AnsweredOnce
    EveryRequestAnswered
CHECK_DEADLOCK FALSE
