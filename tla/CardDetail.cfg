SPECIFICATION CardSpec
CONSTANTS
    Workers = {w1}
    Clickers = {c1}
    Texts <- ParameterTexts
    PortalRequests <- NoRequests
    DetailActions <- ApproveAndTransfer
    SingleActions <- ApproveOnly
    InputsLeft <- NoInputs
    RedisFails = FALSE
    MaxCrashes = 0
    MaxId = 1
    MaxClicks = 2
INVARIANTS
    CardTypeOK
    InputsWereConfirmed
PROPERTY InputTaken
