SPECIFICATION MCSpec
CONSTANTS
    MaxMessages = 3
    ListenerMayFail = TRUE
    t1 = t1
    t2 = t2
    t3 = t3
    SpThread = {t1, t2, t3}
    SpDoes <- MCSpDoes
    Mbox = {1}
    Nobody = Nobody
    AwaitCalls = TRUE
    MaxSessions = 2
    MaxIncoming = 2
    MaxOutgoing = 1
    FlThread = {t1, t2, t3}
    Does <- MCDoes
    NoThread = NoThread
    MaxConns = 2
    MaxQueue = 1
INVARIANTS NoReadAfterClose OneMessage WholeMessages ReclaimedUnused QueueNotPassedBy
PROPERTIES DirectRemoveEnds DisconnectEnds
CHECK_DEADLOCK FALSE
