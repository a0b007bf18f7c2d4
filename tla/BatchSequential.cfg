SPECIFICATION Spec
CONSTANTS
    a1 = a1
    a2 = a2
    Approvals <- TwoApprovals
    LowRisk <- OneLowRisk
    Listings <- Lists
    Procs = {p1}
    MaxIndex = 2
    MaxQueries = 3
    MaxBatches = 1
    MaxConfirms = 2
    MaxCrashes = 1
INVARIANTS
    BatchTypeOK
    BatchRunOnce
PROPERTIES
    OfferedWasTicked
    CancelledStays
    ConfirmedBatchSettles
