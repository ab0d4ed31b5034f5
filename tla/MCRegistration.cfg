CONSTANTS
    Client = {c1, c2, c3}
    Policy = {"rr", "p2c"}
    NoBuilder = NoBuilder
SYMMETRY Symmetry
SPECIFICATION RSpec
INVARIANT OwnBalancer
CHECK_DEADLOCK FALSE
