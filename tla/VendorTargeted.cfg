SPECIFICATION SyncSpec
CONSTANTS
    v1 = v1
    v2 = v2
    Vendor <- OneVendor
    PageOf <- OnePage
    Pages = 1
    User = {u1}
    Nobody = Nobody
    Uncached = Uncached
    Absent = Absent
    Call = {c1}
    Caching = FALSE
    LateRequests = FALSE
    MaxRetries = 0
    MaxRequests = 0
    MaxEdits = 1
    MaxSyncs = 1
INVARIANT TargetReportsCurrentOwner
