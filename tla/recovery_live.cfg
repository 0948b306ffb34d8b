SPECIFICATION FairSpec
CONSTANTS
    Users = {u1}
    Posts = {p1, p2}
    Apis = {a1}
    NoPost = none
    MaxAttempts = 2
    LostReplies = TRUE
    MaxVersion = 2
    MaxFaults = 2
    MaxLosses = 1
PROPERTIES
    DrainedRecovers
