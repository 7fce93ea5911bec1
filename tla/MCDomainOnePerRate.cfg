SPECIFICATION Spec
CONSTANTS
    Rate = 2
    Capacity = 2
    MaxTime = 8
    MaxCalls = 6
INVARIANTS
    OnePerRate
CHECK_DEADLOCK FALSE
