SPECIFICATION FairSpec
CONSTANTS
    Requests = {1, 2}
    Clients = {cli, other}
    PublishOut = {}
    SkipQueue = {}
    HasSession = {2}
    RequestQueueLen = 1
    ResponseQueueLen = 1
    MaxToolIterations = 1
    NoClient = nobody
INVARIANT OneRecordPerRequest
PROPERTY NobodyHangs
CHECK_DEADLOCK FALSE
