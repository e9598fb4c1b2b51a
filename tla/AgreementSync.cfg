SPECIFICATION Spec
CONSTANTS
    u1 = u1
    u2 = u2
    NoOwner = NoOwner
    Refused = Refused
    Omitted = Omitted
    Absent = Absent
    Uncached = Uncached
    Content <- MCContent
    NAgreements = 2
    MaxEdits = 1
    MaxSyncs = 2
INVARIANTS
    TypeOK
    ReportsOwnersOfThisSync
    ReportComplete
    ResourceFaithful
    TargetReportsRecent
    VendorNamesKept
PROPERTY ImplementsSyncReport
