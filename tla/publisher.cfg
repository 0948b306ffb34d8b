SPECIFICATION Spec
CONSTANTS
    Callers = {relay, consumer}
    NoCaller = none
    MaxCalls = 4
SYMMETRY Symmetry
CHECK_DEADLOCK FALSE
INVARIANTS
    ConfirmedIsStored
    QuietBetweenCalls
    IInv
PROPERTIES
    ImplementsOutcome
