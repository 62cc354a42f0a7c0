SPECIFICATION MCSpec
CONSTANTS
    p1 = p1   p2 = p2   a = a   b = b   n1 = n1   n2 = n2   e1 = e1   e2 = e2
    Procs = {p1, p2}
    Nobody = Nobody
    N = 2
    MaxVersion = 1
    MaxRetries = 1
    MaxMeddling = 1
    NoVersion = NoVersion
    Names = {a, b}
    Gone = Gone
    ProjectNames = {n1, n2}
    Editors = {e1, e2}
    MaxMade = 2
    MaxSaved = 3
    MaxCrashes = 1
    Nelm = 3   MaxIonic = 4   MaxMarks = 4
SYMMETRY Interchangeable
CONSTRAINT FewVersions
INVARIANTS WorksInProject StopsSoon KeepsIdentity TailsTellTheRun
PROPERTIES Delivers ReplacesWhatWasRead
CHECK_DEADLOCK FALSE
