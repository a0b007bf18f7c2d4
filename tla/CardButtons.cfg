SPECIFICATION CardSpec
CONSTANTS
    Workers = {w1}
    Clickers = {c1}
    Texts <- ConfirmTexts
    PortalRequests <- NoRequests
    DetailActions <- NoButtons
    SingleActions <- NoButtons
    InputsLeft <- NoInputs
    RedisFails = FALSE
    MaxCrashes = 1
    MaxId = 2
    MaxClicks = 1
INVARIANTS
    WritesWerePending
    InputsWereConfirmed
