\* Continuous admission, three requests, nine cells.
CONSTANTS
    a = a
    b = b
    c = c
    d = d
    e = e
    f = f
    Missing = Missing
    Tuned = Tuned
    None = None
    Requests = {a, b, c, d, f}
    Prompt <- MCPrompt
    Copies <- MCCopies
    Budget <- MCBudget
    Adapter <- MCAdapter
    Broken = {Missing}
    Leavers = {b}
    Word = 9
    Slots = 3
    Cells = 9
    Batch = 3
    QueueCap = 2
    MinPrefix = 2
    Updates = 1
    Faults = FALSE
    Torn = FALSE
    Modes = {"Continuous"}
SPECIFICATION Spec
CHECK_DEADLOCK FALSE
INVARIANT
    StepFindsCells
