SPECIFICATION PoolsSpec
CONSTANTS
    Buffers = {b1, b2, b3}
    NULL = NULL
    Conns = {c1, c2}
    Threads = {t1, t2}
    Fixed = Fixed
    MaxSends = 4
    Keys = {1, 2, 3, 4, 5, 6, 7, 8}
    Capacity = 8
SYMMETRY Symmetry
CHECK_DEADLOCK FALSE
INVARIANTS TypeOK PoolSound OneOwner FindsStored PoolAccounts Balanced
