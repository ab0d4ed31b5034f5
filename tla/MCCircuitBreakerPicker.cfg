CONSTANTS
    Addr = {a1, a2}
    Request = {r1, r2}
    UsesHealth = TRUE
    FailureThreshold = 2
    SuccessThreshold = 2
    HalfOpenMaxRequests = 1
SPECIFICATION Spec
SYMMETRY Symmetry
INVARIANTS
    Limits
    NoOutage
PROPERTY MovesAreEarned
