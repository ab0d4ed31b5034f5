CONSTANTS
    Addr = {a1, a2}
    Attr = {v1, v2}
    SubConn = {s1, s2}
    NoSubConn = NoSubConn
    MaxNotes = 2
SYMMETRY Symmetry
SPECIFICATION Spec
INVARIANTS
    Books
    PickerCorrect
    NoLostReconnect
    SettledView
PROPERTY NoFlapping
CHECK_DEADLOCK FALSE
