SPECIFICATION Spec
CONSTANTS
    Workers = {w1}
    Texts <- SomeTexts
    PortalRequests <- ConfirmedRequests
    InputsLeft <- AnyInput
    RedisFails = TRUE
    MaxCrashes = 1
    MaxId = 2
INVARIANTS
    TypeOK
    GuardedNeverSubmitted
    TaskAgreesWithAction
PROPERTY GateImplemented
