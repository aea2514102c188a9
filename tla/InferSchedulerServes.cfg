\* Six requests, two slots, nine cells, both admission modes.
CONSTANTS
    a = a
    b = b
    c = c
    d = d
    e = e
    f = f
    Missing = Missing
    Tuned = Tuned
    None = None
    Requests = {a, b, c, d, e, f}
    Prompt <- MCPrompt
    Copies <- MCCopies
    Budget <- MCBudget
    Adapter <- MCAdapter
    Broken = {Missing}
    Leavers = {b}
    Word = 9
    Slots = 2
    Cells = 9
    Batch = 2
    QueueCap = 2
    MinPrefix = 2
    Updates = 1
    Faults = TRUE
    Torn = FALSE
    Modes = {"Lockstep", "Continuous"}
SPECIFICATION FairSpec
CHECK_DEADLOCK FALSE
INVARIANTS
    TypeOK
    SlotsHoldTheirOwn
    StepsGoThrough
    StreamsEndOnce
PROPERTIES
    QueuedAreServed
