\* A cancellation that read `queued` while the worker was moving on.
CONSTANTS
    Runs = {r1}
    Clients = {c1}
    Offers = {"cancel_boundary"}
    QueueDepth = 1
    Permits = 1
    MaxRequests = 1
    Drains = FALSE
SPECIFICATION Spec
CHECK_DEADLOCK FALSE
INVARIANTS
    CancelledRunHasNoThread
