SPECIFICATION FairSpec
CONSTANTS
    c1 = c1
    c2 = c2
    c3 = c3
    c4 = c4
    a = a
    b = b
    Call = {c1, c2, c3, c4}
    Ip = {a, b}
    IpOf <- TwoAddresses
    NoCall = NoCall
    Every = 2
    Burst = 1
    MaxTime = 3
INVARIANTS
    TypeOK
    RateIsBounded
    MapIsNotRaced
PROPERTIES
    RefinesTokenBucket
    EveryCallDecides
CHECK_DEADLOCK FALSE
