\* One run, two concurrent requests at a time, every route, and a shutdown.
CONSTANTS
    Runs = {r1}
    Clients = {c1, c2}
    Offers = {"pause", "resume", "cancel_now", "cancel_boundary", "cancel_keep", "checkpoint", "ask"}
    QueueDepth = 2
    Permits = 1
    MaxRequests = 4
    Drains = TRUE
SPECIFICATION Spec
CHECK_DEADLOCK FALSE
INVARIANTS
    TypeOK
    EndsAreTerminal
    StatusTellsTheRun
    AwaitedAskIsQueued
    KeptCheckpoint
PROPERTIES
    ImplementsContract
    CancelNeverWeakened
