CONSTANTS
    p1 = p1
    p2 = p2
    Producers = {p1}
    Flushers = {p1}
    QueueCapacity = 2
    BatchSize = 2
    Configurations <- BlockOnly
    MaxWrites <- Three
    MaxFlushes = 1

SPECIFICATION FairSpec
PROPERTY StallsOnlyWhenFull
CHECK_DEADLOCK FALSE
