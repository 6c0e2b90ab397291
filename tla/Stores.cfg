SPECIFICATION StoresSpec
CONSTANTS
    None = None
    Half = Half
    Broken = Broken
    Torn = Torn
    RuleIds = {1, 2}
    RuleBodies = {"all", "last", "other", "wrong"}
    Firing = {"all", "last"}
    Consumes = {"last"}
    Wrong = {"wrong"}
    RuleEditor = "agent"
    MaxRules = 2
    MaxEdits = 3
    MaxEvents = 2
    MaxRuleFaults = 1
    MaxVersion = 2
    Slots = 3
    Lengths = {1, 2}
    MaxTurns = 3
    MaxLine = 2
    MaxSessionFaults = 1
    Traffic <- MCTraffic
    Bound = {"a", "b"}
    OtherRules <- NoRules
    QueueLen = 1
    RequestLen = 2
    MaxFaults = 1
INVARIANTS
    AnsweredStays
    HistoryHolds
    RulesHold
    AnswersInOrder
PROPERTY WayComesToRest
CHECK_DEADLOCK FALSE
