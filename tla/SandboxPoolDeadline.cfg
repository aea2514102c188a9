\* A deadline that falls while a reset is creating its container.
CONSTANTS
    Members = {m1, m2}
    Groups = {{m1, m2}}
    Boxes = {b1, b2, b3}
    None = None
    MaxLive = 2
    MaxLeases = 2
    Reuse = TRUE
    Deadlines = TRUE
    Updates = 2
    Failures = 1
    Interrupts = FALSE
SPECIFICATION Spec
CHECK_DEADLOCK FALSE
SYMMETRY BoxSymmetry
INVARIANTS
    SlotsAreHeld
