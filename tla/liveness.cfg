SPECIFICATION FairSpec
CONSTANTS
    Users = {u1}
    Posts = {p1}
    Relays = {r1, r2}
    Steady = {r1}
    Consumers = {c1}
    NoRelay = none
    Batch = 2
    MaxRetries = 1
    MaxVotes = 1
    MaxFaults = 3
PROPERTIES
    ConvergesOrDeadLetters
    OutboxDrains
