SPECIFICATION Spec
CONSTANTS
    a = a
    b = b
    None = None
    Launcher = launcher
    Scripts <- TwoScripts
    Callers <- MCCallers
    MaxInits = 2
    MaxInbounds = 2
    MaxPresses = 1
    MaxFails = 1
INVARIANTS
    SessionDrawsAlone
    LatestStatusShown
    NoHoldOutlivesScripts
SYMMETRY AnyScript
CHECK_DEADLOCK FALSE
