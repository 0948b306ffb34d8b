SPECIFICATION UserSpec
CONSTANTS
    Tokens = {s1, s2}
    NoToken = none
    Requests = {q1}
    Window = 3
    Second = 2
    Limit = 2
    MaxDelay = 1
    Skew = 0
    MaxRequests = 4
    MaxTime = 4
SYMMETRY Symmetry
CHECK_DEADLOCK FALSE
INVARIANTS
    NewestLoginHolds
    LogoutIsFinal
    SpanHoldsLimit
    AdviceSuffices
    UserInv
PROPERTIES
    ImplementsSingleDevice
