SPECIFICATION Spec
CONSTANTS
    f1 = f1
    f2 = f2
    f3 = f3
    w1 = w1
    w2 = w2
    site = site
    ip = ip
    page = page
    anna = anna
    ann = ann
    bert = bert
    NoClient = NoClient
    NoCookies = NoCookies
    Fetch = {f1, f2, f3}
    Worker = {w1, w2}
    WorkerOf <- TwoWorkers
    Host = {site, ip}
    Literal = {ip}
    HostOf <- OneSite
    Url = {page}
    UrlOf <- OnePage
    Client = {anna, ann, bert}
    Printed = {anna, bert}
    PrintOf <- Prints
    ClientOf <- Clients
    ProxyAuth = TRUE
INVARIANTS
    TypeOK
    SessionsAreClosed
    OnlyAllowedHosts
    
PROPERTIES
    OlderOnlyByOverlap
CHECK_DEADLOCK FALSE
