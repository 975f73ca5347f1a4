CONSTANTS
    a = a
    b = b
    p = p
    p2 = p2
    q = q
    q2 = q2
    t1 = t1
    t2 = t2
    Threads = {t1, t2}
    Keepers = {t2}
    Loggers = {a, b}
    Templates = {"Info", "Debug"}
    PlainSinks = {p, p2}
    AsyncSinks = {q, q2}
    Null = Null
    NoLogger = NoLogger
    Wirings <- EveryWiring
    Room = 1
    MaxRecords = 2
    MaxDepth = 2
    MaxThrows = 1
    MaxFlushes = 1

SPECIFICATION FairSpec
INVARIANTS TypeOK GuardExact RecordsAccounted NothingLeftBehind
PROPERTIES EveryCallReturns
CHECK_DEADLOCK FALSE
