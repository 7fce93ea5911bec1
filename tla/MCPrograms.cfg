SPECIFICATION FairSpec
CONSTANTS
    r1 = r1
    r2 = r2
    None = None
    Null = Null
    Req = {r1, r2}
    Char = {"s", "t", "u", "xff", "fffd", " ", "=", ";", "+", "%", "%20"}
    Broken = "xff"
    Replacement = "fffd"
    Urls <- SmallUrls
    Selectors <- SmallSelectors
    Asks <- SmallAsks
    SiteCookies <- SmallCookies
    Deployments <- Service
INVARIANTS
    TypeOK
    AnswerFits
    OwnAnswerArrives
    StopIsSafe
PROPERTIES
    CookiesReturn
    SignalStops
CHECK_DEADLOCK FALSE
