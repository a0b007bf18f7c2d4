SPECIFICATION Spec
CONSTANTS
    Users = {u1, u2}
    Procs = {p1, p2}
    MaxTokens = 2
SYMMETRY Interchangeable
INVARIANTS
    IdentityTypeOK
    AuthorizedByOwner
    
    StoredTokenIsLive
