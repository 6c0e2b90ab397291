SPECIFICATION FairSpec
CONSTANTS
    p = p
    q = q
    n = n
    g = g
    None = None
    Outcomes = {"done"}
    Callers = {p, q}
    Requests <- Takeover
    MaxJobs = 1
    MaxConcurrent = 1
    MaxSubmits = 2
    MaxStops = 1
    MaxMisses = 0
INVARIANTS
    StopHitsItsJob
    StoppedIsGone
PROPERTY EverythingEnds
CHECK_DEADLOCK FALSE
