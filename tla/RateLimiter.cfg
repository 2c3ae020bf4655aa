SPECIFICATION Spec
CONSTANTS
    here = here
    there = there
    r1 = r1
    r2 = r2
    r3 = r3
    Sources = {here, there}
    Requests = {r1, r2, r3}
    Max = 2
    Window = 3
    Skew = 1
    MaxTime = 7
SYMMETRY Symmetry
INVARIANTS
    TypeOK
    WindowBound
PROPERTIES
    RefusalIsEarned
CHECK_DEADLOCK FALSE
