SPECIFICATION Spec
CONSTANTS
    Buffers = {b1, b2}
    NULL = NULL
    Conns = {c1}
    Threads = {t1}
    Fixed = Fixed
    MaxSends = 2
CHECK_DEADLOCK FALSE
INVARIANT RefCountNotNegative
