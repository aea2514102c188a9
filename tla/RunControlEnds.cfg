\* Two runs, one device, two concurrent requests, and a scheduler that is fair.
CONSTANTS
    Runs = {r1, r2}
    Clients = {c1, c2}
    Offers = {"pause", "resume", "cancel_boundary", "ask"}
    QueueDepth = 2
    Permits = 1
    MaxRequests = 2
    Drains = FALSE
SPECIFICATION FairSpec
CHECK_DEADLOCK FALSE
INVARIANTS
    PermitsAndLine
PROPERTIES
    EveryRunEnds
    CancellingEnds
