CONSTANTS
    n1 = n1
    n2 = n2
    Absent = Absent
    OtherType = OtherType
    Node <- MCNode
    AttrsOf <- MCAttrsOf
    FilterLists <- MCFilterLists
    Request = {r1, r2}
    NoFilter = NoFilter
    Sizes = {1, 2, 3, 4, 6, 8, 10, 12, 14, 16}
    MaxContexts = 5
SYMMETRY Symmetry
SPECIFICATION Spec
INVARIANTS
    PickedWasKept
    OnePickerPerSet
    ContextsKept
