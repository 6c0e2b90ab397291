SPECIFICATION Spec
CONSTANTS
    e1 = e1
    e2 = e2
    e3 = e3
    e4 = e4
    NoEvent = none
    Events <- MCEvents
    Ids <- MCEvents
    IdOf <- Twins
    Publishers = {p1, p2}
    Published = {e1, e2, e3}
    SelfSourced = {e3}
    Rules <- MCRules
    QueueLen = 2
    TableSize = 2
PROPERTY
    ImplementsCancelableQueue
CHECK_DEADLOCK FALSE
