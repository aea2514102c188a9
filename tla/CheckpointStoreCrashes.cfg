\* Three generations of a hybrid run's checkpoint, every fault, one load at a time.
CONSTANTS
    Payloads = {"adapter", "bundle", "optimizer"}
    Readers = {l1}
    Saves = 3
SPECIFICATION Spec
\* After the last generation the writer may stop; loads go on.
CHECK_DEADLOCK FALSE
INVARIANTS
    TypeOK
    LatestSurvives
    SavedIsPublished
    LoadsAreSound
