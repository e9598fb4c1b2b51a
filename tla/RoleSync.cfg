SPECIFICATION Spec
CONSTANTS
    auditor = auditor
    Auditor = Auditor
    unbundled = unbundled
    other = other
    Role <- MCRole
    Spelling <- MCSpelling
    Normalized <- MCNormalized
    KnownRole = {auditor, unbundled}
    FilterRole = {auditor}
    Gone = Gone
    AnyRole = AnyRole
    Uncached = Uncached
    Users = 2
    PageSize = 1
    MaxSyncs = 2
    MaxEdits = 2
INVARIANTS
    TypeOK
    KeptRoleReported
    GrantedRoleWasHeld
