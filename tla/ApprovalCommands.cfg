SPECIFICATION Spec
CONSTANTS
    Handlers = {h1, h2}
    Messages <- SomeMessages
    Tasks = {t1, t2}
    MaxActions = 2
SYMMETRY Interchangeable
INVARIANTS
    CommandTypeOK
    DoneIsForgotten
    SuccessRowsAreTrue
    SubmissionsAreAudited
PROPERTY GateImplemented
