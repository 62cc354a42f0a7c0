SPECIFICATION FairSpec
CONSTANTS
    relax = relax   static = static   NoStage = NoStage
    console = console   tool = tool
    j1 = j1   j2 = j2   NoJob = NoJob
    Order <- Chain
    Requires <- ChainRequires
    Processes = {console, tool}
    Consoles = {console}
    JobIds = {j1, j2}
    MaxFaults = 1
INVARIANTS OneJobPerStage VerdictsTrue
PROPERTIES PromiseKept Settles
CHECK_DEADLOCK FALSE
