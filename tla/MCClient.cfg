CONSTANTS
    h1 = h1
    h2 = h2
    m1 = m1
    m2 = m2
    Content <- MCContent
    First <- MCFirst
    UserList <- MCUserList
    Kind = {"none", "func", "static", "custom", "etcd", "consul"}
    NoState = NoState
    MaxRev = 2
    MaxFaults = 2
    MaxConsecutiveErrors = 2
SPECIFICATION FairSpec
INVARIANTS
    TypeOK
    ChannelShowsList
    NothingLeftBehind
    NothingWithheld
PROPERTIES
    NoGoingBack
    VisibleChangeArrives
    CancelEnds
CHECK_DEADLOCK FALSE
