SPECIFICATION Spec
CONSTANTS
    Vendor = {v1, v2}
    User = {u1, u2}
    Nobody = Nobody
    Uncached = Uncached
    Call = {c1}
    Caching = FALSE
    LateRequests = FALSE
    MaxRetries = 1
    MaxRequests = 4
    MaxEdits = 0
INVARIANT OutcomeHolds
