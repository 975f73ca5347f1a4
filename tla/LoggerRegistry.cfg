CONSTANTS
    configurer = configurer
    user = user
    other = other
    a = a
    b = b
    net = net
    http = http
    NoThread = NoThread
    Inherit = Inherit
    Threads = {configurer, user, other}
    Names <- TwoNames
    Levels <- TwoLevels
    SinkSets <- Outputs
    Rules <- EveryRule
    MayCall <- Calls
    MaxCalls <- ThreeTwoOne

SPECIFICATION Spec
INVARIANTS TypeOK OneLoggerPerName ConfigurationApplied RecordGoesToOneSinkSet
CHECK_DEADLOCK FALSE
