SPECIFICATION Spec
CONSTANTS
    Users = {u1}
    Posts = {p1}
    Apis = {a1, a2}
    NoPost = none
    MaxAttempts = 2
    LostReplies = TRUE
    MaxVersion = 1
    MaxFaults = 1
    MaxLosses = 0
INVARIANTS
    ScoreIsSumOfVotes
