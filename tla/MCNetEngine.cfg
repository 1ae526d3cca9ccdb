SPECIFICATION Spec
CONSTANTS
    Conns = {c1, c2}
    EventThreads = {e1, e2}
    NULL = NULL
    MaxSessions = 2
    MaxPackets = 2
    MaxOwnCloses = 1
    DataCapacity = 1
    NoticeCapacity = 2
SYMMETRY Symmetry
INVARIANTS TypeOK FreeListSound Custody CloseNoticeFits PacketsInOrder
PROPERTY IsPool
CHECK_DEADLOCK FALSE
