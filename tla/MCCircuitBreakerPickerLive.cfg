CONSTANTS
    Addr = {a1}
    Request = {r1, r2}
    UsesHealth = TRUE
    FailureThreshold = 2
    SuccessThreshold = 2
    HalfOpenMaxRequests = 1
SPECIFICATION FairSpec
PROPERTY Recovers
