CONSTANTS
    Addr = {a1, a2}
    Health = {h1, h2}
    User = {u1}
    Loop = {l1, l2}
    None = None
    UnhealthyThreshold = 2
    HealthyThreshold = 2
SPECIFICATION FairSpec
INVARIANTS
    StatusEarned
    LoopOwned
    ToldLatest
PROPERTIES
    StopEnds
    DownIsFound
