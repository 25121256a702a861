CONSTANTS
    Workers = {w1, w2}
    Ops = {o1, o2}
    Amount = 2
    Actuals = {1}
    Unknown = Unknown
    Limit = 3
    MaxChats = 2
    MaxDay = 2
    MaxClaims = 2
    MaxEdits = 1
    Faults = 1
SYMMETRY Symmetry
SPECIFICATION Spec
CHECK_DEADLOCK FALSE

PROPERTY StopHolds
