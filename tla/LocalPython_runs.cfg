SPECIFICATION FairSpec
CONSTANTS
    table = table   figure = figure
    MaxRuns = 2
    Worker = Worker   Nobody = Nobody
    Outputs = {table, figure}
    MaxMeddling = 1
INVARIANTS RunsOnce ConclusionTrue HonestDoubt
PROPERTIES Settles
CHECK_DEADLOCK FALSE
