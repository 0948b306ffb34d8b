SPECIFICATION FairSpec
CONSTANTS
    Users = {u1}
    Posts = {p1}
    Relays = {r1}
    Steady = {r1}
    Consumers = {c1}
    NoRelay = none
    Batch = 1
    MaxRetries = 1
    MaxVotes = 1
    MaxFaults = 2
PROPERTIES
    Converges
