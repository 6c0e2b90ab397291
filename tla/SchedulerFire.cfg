SPECIFICATION Spec
CONSTANTS
    a = a
    b = b
    None = None
    Torn = Torn
    Ids = {a}
    Definitions <- MCDefinitions
    MaxItems = 1
    TickMs = 1
    Epoch = 4
    WriteResults = {"ok", "torn"}
    SaveResults = {"ok", "kept", "erased"}
    Asked = {"add", "update", "enable", "disable", "remove", "pause", "resume",
             "trigger", "reload"}
    CanTear = TRUE
    MaxReal = 7
    MaxCalls = 2
    MaxCuts = 1
INVARIANTS
    HeldStaysPaused
    NeverArmedUnsynced
PROPERTIES
    MissedMovesOn
    RunsBounded
CHECK_DEADLOCK FALSE
