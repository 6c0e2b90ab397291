SPECIFICATION StreamsSpec
CONSTANTS
    LogSize = 4
    Sizes = {1, 2, 3, 4, 5}
    Pieces = {1, 2, 6}
    None = None
    MaxSeq = 14
    TgTraffic <- MCTgTraffic
    TgQueueLen = 1
    TgRingLen = 2
    TgBatchLen = 2
    MaxTgOrders = 2
    MaxTgFaults = 1
    MaxCuts = 1
    QQTraffic <- MCQQTraffic
    QQQueueLen = 1
    QQRingLen = 3
    MaxQQOrders = 2
    MaxQQFaults = 1
    FsTraffic <- MCFsTraffic
    FsQueueLen = 2
    FsRingLen = 3
    MaxFsOrders = 2
    MaxFsFaults = 1
    MaxRefresh = 2
    MaxStarts = 2
    MaxLoginFaults = 1
INVARIANTS
    AnswerIsPrinted
    HandledOnce
    WorkersInOrder
PROPERTIES
    GapsAreTold
    PollingEnds
CHECK_DEADLOCK FALSE
