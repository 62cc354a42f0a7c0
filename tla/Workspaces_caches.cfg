CONSTANTS
    w1 = w1   w2 = w2
    Ids = {w1, w2}
    Root <- MCRoot
    Dirs <- MCDirs
    ReadOnly <- MCReadOnly
    MaxCrashes = 2
    t1 = t1   t2 = t2
    Threads = {t1, t2}
    Values = {1, 2}
    MaxTime = 6
    Keep = 2
    TailRows = 2
    MaxUses = 3
    MaxEvents = 2
    Grace = 3
SPECIFICATION MCSpec
INVARIANTS UnsyncedKnown Timeline NoLongGap
PROPERTY NothingLost
SYMMETRY Alike
CHECK_DEADLOCK FALSE
