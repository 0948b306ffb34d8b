SPECIFICATION Spec
CONSTANTS
    Users = {u1, u2}
    Posts = {p1}
    Relays = {r1, r2}
    Steady = {}
    Consumers = {c1, c2}
    NoRelay = none
    Batch = 2
    MaxRetries = 1
    MaxVotes = 2
    MaxFaults = 2
SYMMETRY Symmetry
INVARIANTS
    RowsAreGenuine
    NothingLost
    ConsumedMeansApplied
    DrainedMeansEqual
    ScoreIsSumOfVotes
    NoGenuineConflict
    NoFaultNoDuplicate
    DeadOnlyAfterAllRetries
    IInv
PROPERTIES
    RowsOnlyAdvance
    ImplementsReplica
    ImplementsPath
