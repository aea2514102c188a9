\* Two groups, three members, two containers, deadlines and a forced cleanup.
CONSTANTS
    Members = {m1, m2, m3}
    Groups = {{m1, m2}, {m3}}
    Boxes = {b1, b2, b3}
    None = None
    MaxLive = 2
    MaxLeases = 2
    Reuse = TRUE
    Deadlines = TRUE
    Updates = 2
    Failures = 1
    Interrupts = TRUE
SPECIFICATION Spec
CHECK_DEADLOCK FALSE
SYMMETRY BoxSymmetry
INVARIANTS
    TypeOK
    LeasesFit
    FreeSlotWakesWaiter
    ClosingEmpties
    IdleIsClean
