SPECIFICATION Spec
CONSTANTS
    jane = jane
    Jane = Jane
    joe = joe
    Address <- MCAddress
    NoAddress = NoAddress
    Folded <- MCFolded
    Call = {c1, c2}
    MaxCalls = 2
    MaxAccounts = 2
    MaxEdits = 1
SYMMETRY Symmetry
INVARIANTS
    TypeOK
    SecondAccountOverlaps
    ReportsTrue
