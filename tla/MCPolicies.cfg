CONSTANTS
    Policy = {"rr", "wrr", "rwrr", "mc", "mrt", "p2c"}
    Node = {n1, n2, n3}
    Weight <- MCWeight
    Request = {r1, r2, r3}
    MaxInt = 3
    MaxTime = 2
    Grain = 2
SYMMETRY Symmetry
SPECIFICATION Spec
INVARIANTS
    Shares
    CountsKept
PROPERTY LeastPicked
CHECK_DEADLOCK FALSE
