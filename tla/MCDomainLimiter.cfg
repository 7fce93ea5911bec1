SPECIFICATION Spec
CONSTANTS
    Rate = 2
    Capacity = 2
    MaxTime = 8
    MaxCalls = 6
INVARIANTS
    SpacedWhileKept
    RefusedWhenFull
CHECK_DEADLOCK FALSE
