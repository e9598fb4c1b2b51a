SPECIFICATION Spec
CONSTANTS
    Name <- MCName
    EmptyName = ""
    ContractsWord = "contracts"
    Unescaped <- MCUnescaped
    VendorAgreementsEnabled = TRUE
    Record <- MixedRecords
    Listing = "newest_first"
    InOrder = TRUE
    SlowPolls = TRUE
    PageSize = 2
    MaxEvents = 3
    MaxTime = 2
    MaxFailed = 1
    Uncached = Uncached
INVARIANTS
    TypeOK
    NoLostEvent
    NoRedelivery
    EarlyStopSound
PROPERTY ImplementsChangeFeed
