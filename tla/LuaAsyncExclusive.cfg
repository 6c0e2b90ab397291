SPECIFICATION Spec
CONSTANTS
    p = p
    q = q
    n = n
    g = g
    None = None
    Outcomes = {"done", "failed", "timeout"}
    Callers = {p, q}
    Requests <- Takeover
    MaxJobs = 2
    MaxConcurrent = 2
    MaxSubmits = 2
    MaxStops = 1
    MaxMisses = 1
INVARIANTS ExclusiveAlone CountIsExact
SYMMETRY Sym
CHECK_DEADLOCK FALSE
