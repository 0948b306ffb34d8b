SPECIFICATION FairSpec
CONSTANTS
    Instances = {i1}
    Readers = {r1, r2, r3}
    Lifetime = 2
    MaxChanges = 2
    MaxTime = 3
    MaxFaults = 1
INVARIANTS
    CopyIsFresh
    NoPageFromBefore
    IInv
PROPERTIES
    EveryReaderIsAnswered
