CONSTANTS
    Values = {a, b, c}
    NoValue = NoValue
    QueueCapacity = 4

SPECIFICATION Spec
INVARIANT RingOK
PROPERTY ImplementsFifo
