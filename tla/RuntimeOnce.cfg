SPECIFICATION Spec
CONSTANTS
    Workers = {w1}
    Texts <- WriteTexts
    PortalRequests <- UnconfirmedRequests
    InputsLeft <- CardInputs
    RedisFails = FALSE
    MaxCrashes = 2
    MaxId = 2
INVARIANT ExecutionIsRecorded
PROPERTIES
    SubmittedOnce
    CancelClears
    ActionsFollowLifecycle
    ExecutingSettles
