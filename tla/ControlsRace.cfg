CONSTANTS
    a = a
    b = b
    Doms = {a, b}
    Users = {a}
    Values = {0, 1, 2}
    Default = 0
    Unknown = Unknown
    SetsPerUser = 2
    BindsPerDom = 1
    Paces = {FALSE}
SPECIFICATION FairSpec
PROPERTIES
    Settles
CHECK_DEADLOCK FALSE
