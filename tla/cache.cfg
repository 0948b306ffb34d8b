SPECIFICATION FairSpec
CONSTANTS
    Instances = {i1, i2}
    Contents = {draft, revised}
    NoCopy = none
    MaxUpdates = 3
    MaxFaults = 2
CHECK_DEADLOCK FALSE
INVARIANTS
    StaleIsTransient
    IInv
PROPERTIES
    FreshInTheEnd
