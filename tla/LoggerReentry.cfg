CONSTANTS
    a = a
    b = b
    p = p
    p2 = p2
    q = q
    q2 = q2
    t1 = t1
    t2 = t2
    Threads = {t1, t2}
    Keepers = {t2}
    Loggers = {a, b}
    Templates = {"Info", "Debug"}
    PlainSinks = {p, p2}
    AsyncSinks = {q}
    Null = Null
    NoLogger = NoLogger
    Wirings <- TwoTemplates
    Room = 1
    MaxRecords = 2
    MaxDepth = 2
    MaxThrows = 1
    MaxFlushes = 1

SPECIFICATION Spec
INVARIANTS SinkNotReentered
CHECK_DEADLOCK FALSE
