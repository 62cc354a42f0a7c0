SPECIFICATION MCSpec
CONSTANTS
    k1 = k1
    k2 = k2
    x = x
    entry1 = entry1
    t1 = t1   t2 = t2   t3 = t3
    Threads = {t1, t2, t3}
    Process <- TwoProcesses
    Bundled <- NewerSecond
    Minimum = 2
    Old = 1
    HelperFaults = 2
    Nobody = Nobody
    Calls = {k1, k2}
    Ops <- Mixed
    Contents = {x}
    Absent = Absent
    Part = Part
    TrashIds = {entry1}
    Saved = TRUE
INVARIANTS
    SubmitsOnce
