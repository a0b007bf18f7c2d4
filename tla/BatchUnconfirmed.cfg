SPECIFICATION Spec
CONSTANTS
    a1 = a1
    a2 = a2
    Approvals <- OneApproval
    LowRisk <- OneApproval
    Listings <- OneList
    Procs = {p1}
    MaxIndex = 1
    MaxQueries = 3
    MaxBatches = 2
    MaxConfirms = 2
    MaxCrashes = 0
INVARIANT BatchesWereConfirmed
