SPECIFICATION Spec
CONSTANTS
    Users = {u1}
    Posts = {p1, p2}
    Apis = {a1, a2}
    NoPost = none
    MaxAttempts = 2
    LostReplies = FALSE
    MaxVersion = 2
    MaxFaults = 1
    MaxLosses = 1
SYMMETRY Symmetry
INVARIANTS
    ScoreIsSumOfVotes
    VersionsNeverReused
    DrainedMeansEqual
    NobodyServesARebuild
    IndexedPostsAreStored
    RebuildIsExact
    IInv
PROPERTIES
    StartIsExact
