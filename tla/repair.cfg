SPECIFICATION FairSpec
CONSTANTS
    Users = {u1}
    Posts = {p1, p2}
    Apis = {a1}
    NoPost = none
    MaxAttempts = 2
    LostReplies = FALSE
    MaxVersion = 1
    MaxFaults = 0
    MaxLosses = 0
PROPERTIES
    ServiceReturns
