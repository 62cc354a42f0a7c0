SPECIFICATION FairSpec
CONSTANTS
    here = here
    there = there
    t1 = t1
    t2 = t2
    d1 = d1
    Consoles = {here, there}
    Threads = {t1, t2}
    Readers = {d1}
    Home <- HomeOf
    Slots = 1
    Sessions = {s}
    Requests = {q, r}
    MaxCalls = 2
    None = None
INVARIANTS
    RecordTrue
    StopsTheRight
    AtMostOneMore
PROPERTIES
    NoReplay
    StopEnds

