SPECIFICATION Spec
CONSTANTS
    p = p
    q = q
    n = n
    g = g
    None = None
    Outcomes = {"done"}
    Callers = {p, q}
    Requests <- Takeover
    MaxJobs = 2
    MaxConcurrent = 2
    MaxSubmits = 2
    MaxStops = 0
    MaxMisses = 0
PROPERTIES
    TerminalIsFinal
CHECK_DEADLOCK FALSE
