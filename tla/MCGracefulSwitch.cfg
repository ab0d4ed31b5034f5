CONSTANTS
    Picker = {p1, p2, p3, p4}
    Request = {r1, r2}
    Drainer = {d1, d2, d3}
    None = None
SPECIFICATION FairSpec
INVARIANTS
    Counts
    PendingIsDrained
PROPERTY ImplementsHandover
