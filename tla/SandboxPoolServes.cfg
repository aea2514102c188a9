\* A pool as large as the update's demand, no deadline, fair tasks.
CONSTANTS
    Members = {m1, m2}
    Groups = {{m1}, {m2}}
    Boxes = {b1, b2, b3}
    None = None
    MaxLive = 2
    MaxLeases = 2
    Reuse = TRUE
    Deadlines = FALSE
    Updates = 2
    Failures = 1
    Interrupts = FALSE
SPECIFICATION FairSpec
CHECK_DEADLOCK FALSE
INVARIANTS
    SlotsAreHeld
PROPERTIES
    EveryGroupActs
