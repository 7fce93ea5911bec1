SPECIFICATION FairSpec
CONSTANTS
    url = url
    attr = attr
    good = good
    bad = bad
    Empty = Empty
    None = None
    g1 = g1
    g2 = g2
    p1 = p1
    p2 = p2
    Field = {url, attr}
    Required = {url}
    Value = {Empty, good, bad}
    Valid <- AllGood
    Default <- AtFirst
    Foreign <- FromElsewhere
    Gen = {g1, g2}
    Paste = {p1, p2}
    MaxActs = 4
INVARIANTS
    TypeOK
    ShownWhenQuiet
    LinkIsValid
    SavedWhenQuiet
PROPERTIES
    PasteRoundTrips
    LinkIsShownAtLast
CHECK_DEADLOCK FALSE
