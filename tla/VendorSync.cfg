SPECIFICATION SyncSpec
CONSTANTS
    v1 = v1
    v2 = v2
    Vendor <- TwoVendors
    PageOf <- OnePerPage
    Pages = 2
    User = {u1}
    Nobody = Nobody
    Uncached = Uncached
    Absent = Absent
    Call = {c1}
    Caching = TRUE
    LateRequests = FALSE
    MaxRetries = 1
    MaxRequests = 1
    MaxEdits = 0
    MaxSyncs = 2
INVARIANT
    SyncTypeOK
    SyncReportsRecentOwner
    ReadsRecentOwner
PROPERTY ImplementsSyncReport
