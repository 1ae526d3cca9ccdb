SPECIFICATION FairSpec
CONSTANTS
    Conns = {c1}
    EventThreads = {e1, e2}
    NULL = NULL
    MaxSessions = 2
    MaxPackets = 1
    MaxOwnCloses = 1
    DataCapacity = 1
    NoticeCapacity = 2
PROPERTIES PacketsDispatched ClosedIsRecycled
CHECK_DEADLOCK FALSE
