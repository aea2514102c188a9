\* One client that may connect twice, a puller, a worker and one late handler; a ring
\* and a channel smaller than the run, so that a client outlives the ring and lags.
CONSTANTS
    Handlers = {h1}
    MaxMetrics = 3
    MaxConnects = 2
    EventRing = 2
    Capacity = 2
    PageLimit = 1
    Nobody = Nobody
SPECIFICATION FairSpec
\* A finished run with nobody watching has no step left.
CHECK_DEADLOCK FALSE
INVARIANTS
    TypeOK
    StreamIsComplete
    SeenIsRecorded
    PagesMissNothing
PROPERTIES
    StreamEnds
