CONSTANTS
    p1 = p1
    p2 = p2
    Producers = {p1}
    Flushers = {p2}
    QueueCapacity = 2
    BatchSize = 2
    Configurations <- EveryPolicy
    MaxWrites <- Three
    MaxFlushes = 1

SPECIFICATION FairSpec
PROPERTIES AcceptedDelivered FlushReturns WriteReturns ShutdownJoins
CHECK_DEADLOCK FALSE
