SPECIFICATION TasksSpec
CONSTANTS
    None = None
    Requests = {1, 2, 3, 4}
    QueueLen = 1
    Nets = {"n1", "n2"}
    Scans <- MCScans
    JobDepth = 2
    ResultDepth = 3
    MaxTaps = 5
    MaxSessions = 2
    Groups <- MCGroups
    Members <- MCMembers
    Hidden = {"mail"}
    CapCallers = {"agent", "router"}
    MaxOrders = 3
    MaxCapCalls = 3
    SendCallers = {1, 2}
    Texts <- MCTexts
    ChunkLen = 2
    CardLen = 4
    MaxSendFaults = 2
    CameraScripts = {s1, s2}
    Buffers = {b1, b2}
    Settle = 2
    MaxShots = 4
    MaxSpoilt = 2
    ButtonScript = s1
    Handles = {b1, b2}
    Events = {"click", "long"}
    MaxHandles = 2
    EventQueueLen = 2
    MaxUses = 4
    MaxPresses = 3
    MaxRefusals = 1
INVARIANTS
    JobsInOrder
    StoppedIsStopped
    SentIsThere
    DevicesHold
PROPERTIES
    ScreensTellTrue
    WaitsEnd
CHECK_DEADLOCK FALSE
