SPECIFICATION FairSpec
CONSTANTS
    Name <- MCName
    EmptyName = ""
    ContractsWord = "contracts"
    Unescaped <- MCUnescaped
    VendorAgreementsEnabled = TRUE
    Uncached = Uncached
    Record <- ChangeRecords
    Listing = "newest_first"
    InOrder = TRUE
    SlowPolls = TRUE
    PageSize = 2
    MaxEvents = 3
    MaxTime = 2
    MaxFailed = 2
PROPERTY EventuallyKnown
