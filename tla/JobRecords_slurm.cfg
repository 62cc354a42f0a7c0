SPECIFICATION MCSpec
CONSTANTS
    h1 = h1   h2 = h2   v1 = v1   v2 = v2   NoSha = NoSha
    MaxCards = 2
    MaxEntries = 1
    MaxSessions = 2   MaxSkills = 2
    Handlers = {h1, h2}
    Versions = {v1, v2}
    t1 = t1   t2 = t2   l1 = l1   l2 = l2   p1 = p1   d1 = d1   d2 = d2
    NoProject = NoProject   NoDir = NoDir
    Scheduler = "slurm"
    Threads = {t1, t2}
    Listers = {l1, l2}
    Projects = {p1}
    DirOf <- Apart
    MaxRuns = 2
    n1 = n1   n2 = n2   n3 = n3   near = near   far = far
    Names = {n1, n2, n3}
    Hosts = {near, far}
    Host <- TwoAndOne
    VlabHosts = {near}
    Roots = {1}
    MaxRequests = 3
SYMMETRY Interchangeable
INVARIANTS EndedTruly
CHECK_DEADLOCK FALSE
