SPECIFICATION Spec
CONSTANTS
    r1 = r1
    r2 = r2
    r3 = r3
    r4 = r4
    s1 = s1
    k1 = k1
    NoTask = NoTask
    Req = {r1, r2, r3, r4}
    Server = {s1}
    Key = {k1}
    Worker = {w1}
    SrvOf <- OneServer
    KeyOf <- OneKey
    Faults = {}
    Prefetch = 1
    MaxRedeliver = 1
SYMMETRY Symmetry
INVARIANTS
    NoResubmit
CHECK_DEADLOCK FALSE
