CONSTANTS
    Request = {r1, r2, r3, r4, r5}
    Capacity = 2
    Window = 3
    MaxDelay = 1
    Horizon = 5
SPECIFICATION Spec
CHECK_DEADLOCK FALSE
INVARIANTS
    WindowBound
    RejectionExplained
SYMMETRY RequestSymmetry
