CONSTANTS
    t1 = t1
    t2 = t2
    Threads = {t1, t2}
    Records = {1, 2, 3}
    Second <- Seconds
    Severe = {3}
    Configurations <- EveryOption
    OpenMayFail = TRUE
    MaxCrashes = 1
    MaxMoves = 1
    MaxOpens = 3

SPECIFICATION Spec
SYMMETRY Symmetry
INVARIANTS TypeOK LinesWhole GivenSurvive
CHECK_DEADLOCK FALSE
