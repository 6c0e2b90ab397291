SPECIFICATION ServicesSpec
CONSTANTS
    e1 = e1
    e2 = e2
    e3 = e3
    e4 = e4
    NoEvent = none
    Events <- MCEvents
    Ids = {e1, e3}
    IdOf <- SameMs
    Publishers = {p1, p2}
    Published = {e1, e2, e3}
    SelfSourced = {e3}
    Rules <- MCRules
    QueueLen = 1
    TableSize = 1
    AppScripts = {s1, s2}
    AppQueueLen = 1
    MaxAsked = 2
    MaxAppFaults = 1
    NoClient = NoClient
    HttpTasks = {t1, t2}
    HttpClients = {c1, c2, c3}
    HttpConfigs <- MCConfigs
    MaxPool = 1
    MaxLeases = 3
    MaxPoolFaults = 1
    NoChat = NoChat
    ChatTraffic <- MCChats
    BatchLen = 2
    SeenLen = 2
    ContextLen = 1
    StageLimit = 1
    CountMax = 3
    ChatSenders = {s1}
    MaxOrders = 2
    MaxSends = 4
    MaxChatFaults = 1
INVARIANTS
    SkippedOnlyIfCancelled
    HttpInOrder
    ChatsInOrder
PROPERTY
    ServicesMove
CHECK_DEADLOCK FALSE
