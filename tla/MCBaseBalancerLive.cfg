CONSTANTS
    Addr = {a1, a2}
    Attr = {v1}
    SubConn = {s1, s2}
    NoSubConn = NoSubConn
    MaxNotes = 1
SPECIFICATION FairSpec
PROPERTIES
    ReadyIsPicked
    FailedIsRetried
    RemovedIsForgotten
CHECK_DEADLOCK FALSE
