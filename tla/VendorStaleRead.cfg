SPECIFICATION Spec
CONSTANTS
    Vendor = {v1}
    User = {u1, u2}
    Nobody = Nobody
    Uncached = Uncached
    Call = {c1}
    Caching = TRUE
    LateRequests = FALSE
    MaxRetries = 0
    MaxRequests = 2
    MaxEdits = 0
INVARIANT OutcomeHolds
