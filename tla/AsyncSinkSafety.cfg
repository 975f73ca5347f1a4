CONSTANTS
    p1 = p1
    p2 = p2
    Producers = {p1, p2}
    Flushers = {p1}
    QueueCapacity = 2
    BatchSize = 2
    Configurations <- EveryOwner
    MaxWrites <- TwoAndOne
    MaxFlushes = 1

SPECIFICATION Spec
INVARIANTS TypeOK OutstandingExact Accounted DropsReportedOnce ProducerOrder ShutdownDrains FlushPromise
PROPERTIES FlushCovers ImplementsLogChannel
CHECK_DEADLOCK FALSE
