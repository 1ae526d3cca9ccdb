SPECIFICATION Spec
CONSTANTS
    Conns = {c1, c2}
    EventThreads = {e1, e2}
    NULL = NULL
    MaxSessions = 2
    MaxPackets = 1
    MaxOwnCloses = 0
    DataCapacity = 2
    NoticeCapacity = 2
PROPERTIES ZeroMeansPeerClosed
