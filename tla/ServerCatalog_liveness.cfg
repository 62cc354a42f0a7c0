SPECIFICATION MCSpec
CONSTANTS
    a = a   b = b   h1 = h1
    Names = {a, b}
    Hosts = {h1}
    Host <- MCOne
    VlabHosts = {}
    Roots = {1, 2}
    MaxRequests = 3
    p1 = p1   t1 = t1
    NoInst = NoInst   NoPlan = NoPlan   NoId = NoId   NoToken = NoToken
    Plans = {p1}
    Tokens = {t1}
    TokenPlan <- OneTokenPlan
    Expiry <- OneTokenExpiry
    Instances = {i1}
    JobIds = {j1}
    Dir <- OneDir
    Budget = 1
    MaxTime = 3
    MaxRetries = 1
    MaxReady = 1
PROPERTIES Converges Settles
CHECK_DEADLOCK FALSE
