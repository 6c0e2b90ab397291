SPECIFICATION Spec
CONSTANTS
    Requests = {1, 2, 3}
    Clients = {cli, other}
    PublishOut = {3}
    SkipQueue = {3}
    HasSession = {}
    RequestQueueLen = 2
    ResponseQueueLen = 1
    MaxToolIterations = 1
    NoClient = nobody
INVARIANTS
    CancelHitsOnlyItsTarget
    CancelIsReported
    WaiterMissesNothing
    ResponseExactlyOnce
PROPERTY ImplementsService
SYMMETRY AnyReceiver
CHECK_DEADLOCK FALSE
