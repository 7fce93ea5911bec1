SPECIFICATION Spec
CONSTANTS
    f1 = f1
    f2 = f2
    s1 = s1
    k1 = k1
    k2 = k2
    a = a
    Req = {f1, s1}
    Key = {k1, k2}
    KeyOf <- FeedAndScreenshot
    Ip = {a}
    IpOf <- OneAddress
    Screenshot = {s1}
    Lifetime <- Ages
    MaxLifetime = 1
    Every = 2
    Burst = 1
    MaxTime = 3
    MaxVersion = 2
INVARIANTS
    TypeOK
    FeedIsFresh
    ScreenshotIsNew
    TokensAreForWork
CHECK_DEADLOCK FALSE
