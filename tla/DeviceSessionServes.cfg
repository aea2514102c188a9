\* Two chats, an embedding that needs the scheduler drained, a request of a
\* second base model with a reasoning budget of its own, and a run that asks
\* for the one permit.
CONSTANTS
    Requests = {q1, q2, q3, q4}
    Others = {q4}
    Embeds = {q3}
    Budgets = {q4}
    Leavers = {q1}
    Runs = {u1}
    Permits = 1
    Slots = 1
    QueueCap = 1
    None = None
SPECIFICATION FairSpec
\* Once every request is settled and the run done there is nothing to do.
CHECK_DEADLOCK FALSE
INVARIANTS
    TypeOK
    DeviceFits
    NoYieldSleptThrough
PROPERTIES
    InFlightSurvivesYield
    EveryoneIsServed
