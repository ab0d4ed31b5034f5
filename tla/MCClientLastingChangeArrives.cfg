CONSTANTS
    h1 = h1
    h2 = h2
    m1 = m1
    m2 = m2
    Content <- MCContent
    First <- MCFirst
    UserList <- MCUserList
    Kind = {"etcd"}
    NoState = NoState
    MaxRev = 2
    MaxFaults = 0
    MaxConsecutiveErrors = 2
SPECIFICATION FairSpec
PROPERTY LastingChangeArrives
CHECK_DEADLOCK FALSE
