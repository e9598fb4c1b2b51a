SPECIFICATION FairSpec
CONSTANTS
    Nothing = Nothing
    Setting <- MCSetting
    App <- MCApp
    Operation <- MCOperation
    Caller = {c1}
    MaxChanges = 2
    MaxFailed = 1
INVARIANTS
    TypeOK
    RunsAsConfigured
    ScopesIndependent
    LeastPrivilege
PROPERTY WorksAgain
