CONSTANTS
    Configurations <- DayAndSize
    MaxSlots = 3
    Sizes = {1, 3}
    MaxRecords = 3
    MaxDays = 2
    MaxRuns = 2
    OpenMayFail = FALSE
    MaxMishaps = 0

SPECIFICATION Spec
INVARIANT OneDayPerFile
CHECK_DEADLOCK FALSE
