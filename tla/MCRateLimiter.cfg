CONSTANTS
    Calls = {c1, c2, c3, c4}
    Keys = {k1, k2}
    Window = 2
    Limits = {0, 1, 2}
    MaxLag = 1
    MaxTime = 5
SPECIFICATION Spec
SYMMETRY Symmetry
INVARIANTS
    WindowLimit
    RefusalHasCause
CHECK_DEADLOCK FALSE
