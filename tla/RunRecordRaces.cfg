\* Two creations with one key, every writer of their records, deletions and two crashes.
CONSTANTS
    Creates = {q1, q2}
    Keyed = {q1, q2}
    None = None
    MaxMoves = 2
    MaxCrashes = 2
SPECIFICATION Spec
CHECK_DEADLOCK FALSE
INVARIANTS
    TypeOK
    KeysOwnOneRecord
    AnsweredRunIsOnDisk
    RecordsAreTrue
