CONSTANTS
    a = a
    b = b
    Doms = {a, b}
    Users = {a, b}
    Values = {0, 1, 2}
    Default = 0
    Unknown = Unknown
    SetsPerUser = 2
    BindsPerDom = 2
    Paces = {TRUE, FALSE}
SPECIFICATION FairSpec
INVARIANTS
    EveryoneIsTold
    RefusedIsUntold
PROPERTIES
    PacedSettles
    EchoesDieDown
CHECK_DEADLOCK FALSE
