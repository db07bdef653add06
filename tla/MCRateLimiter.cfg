CONSTANTS
    Requests = {r1, r2, r3, r4}
    IPs = {i1, i2}
    Limit = 2
    Window = 2
    MaxTime = 4
SPECIFICATION Spec
SYMMETRY Symmetry
INVARIANTS
    TypeOK
    WindowWithinLimit
    InOrderWithinLimit
