SPECIFICATION Spec
CONSTANTS
    Keys = {k1}
    Writers = {w1, w2}
    Tasks = {t1, t2}
    MaxVersions = 3
    MaxChunks = 2
    MaxSweeps = 1
    MaxFaults = 1
SYMMETRY Interchangeable
CHECK_DEADLOCK FALSE
INVARIANTS
    EventTypeOK
    PendingHasTask
    IndexHoldsCommitted
    EmbeddedChunksAreFound
