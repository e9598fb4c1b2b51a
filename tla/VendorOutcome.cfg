SPECIFICATION Spec
CONSTANTS
    Vendor = {v1}
    User = {u1, u2}
    Nobody = Nobody
    Uncached = Uncached
    Call = {c1, c2}
    Caching = TRUE
    LateRequests = TRUE
    MaxRetries = 1
    MaxRequests = 2
    MaxEdits = 1
INVARIANTS
    TypeOK
    OutcomeWasTrue
    RevokeOnlyOwned
